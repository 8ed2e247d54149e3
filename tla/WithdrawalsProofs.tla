------------------------- MODULE WithdrawalsProofs -------------------------
(***************************************************************************)
(* Theorems about Withdrawals, for every set of Key Owners, networks,      *)
(* earnings and signed messages, every fee, limit and clock, and every     *)
(* number of transactions that are rolled back.                            *)
(***************************************************************************)
EXTENDS Withdrawals, AmountsProofs, WellFoundedInduction

-----------------------------------------------------------------------------
(* What an open transaction has written, by the operation it belongs to.   *)

Rests(u) == Idle(u) /\ tx[u].auth = {} /\ tx[u].rows = {} /\ tx[u].events = {}

\* CreateTaskIncomeEarning
Collects(u) ==
  /\ tx[u].step = "written" /\ tx[u].auth = {} /\ tx[u].rows = {}
  /\ \E e \in tx[u].events :
       /\ tx[u].events = {e}
       /\ e.type = "TaskIncome" /\ e.user = u /\ e.amount > 0
       /\ tx[u].account = [available |-> account[u].available + e.amount, locked |-> account[u].locked]

\* BeginCreate and LockBenefitRange: nothing so far, but the balance was checked.
Chooses(u) ==
  /\ tx[u].step \in {"ranged", "covered"} /\ tx[u].rows = {} /\ tx[u].events = {}
  /\ \E a \in Auths : tx[u].auth = {a} /\ a.user = u /\ (tx[u].step = "covered" => Covered(a))

\* InsertWithdrawal
Requests(u) ==
  /\ tx[u].step = "written"
  /\ \E a \in Auths, r \in tx[u].rows, e \in tx[u].events :
       /\ tx[u].auth = {a} /\ tx[u].rows = {r} /\ tx[u].events = {e}
       /\ a.user = u /\ Covered(a) /\ Unused(a)
       /\ r.auth = a /\ r.status = "pending" /\ r.event = e.id
       /\ e.type = "Withdraw" /\ e.user = u /\ e.source = r.id /\ e.amount = WithFee(a)
       /\ tx[u].account = [available |-> account[u].available - WithFee(a),
                           locked |-> account[u].locked + WithFee(a)]

\* Either end of a withdrawal.
Settles(u, w, status) ==
  /\ tx[u].step = "written" /\ tx[u].auth = {}
  /\ w.auth.user = u /\ w.status = "pending"
  /\ tx[u].rows = {[w EXCEPT !.status = status]}
  /\ WithFee(w.auth) <= account[u].locked

\* FulfillWithdrawal
Pays(u, w) ==
  /\ Settles(u, w, "success")
  /\ tx[u].account = [available |-> account[u].available, locked |-> account[u].locked - WithFee(w.auth)]
  /\ Fee[w.auth.network] = 0 => tx[u].events = {}
  /\ Fee[w.auth.network] > 0 =>
       \E e \in tx[u].events : /\ tx[u].events = {e} /\ e.type = "WithdrawalFeeIncome"
                               /\ e.user = u /\ e.source = w.id

\* RejectWithdrawal
Refunds(u, w) ==
  /\ Settles(u, w, "failed")
  /\ tx[u].account = [available |-> account[u].available + WithFee(w.auth),
                      locked |-> account[u].locked - WithFee(w.auth)]
  /\ \E e \in tx[u].events : /\ tx[u].events = {e} /\ e.type = "WithdrawRefund"
                             /\ e.user = u /\ e.source = w.id /\ e.amount = WithFee(w.auth)

WellFormed(u) ==
  Rests(u) \/ Collects(u) \/ Chooses(u) \/ Requests(u) \/ \E w \in withdrawals : Pays(u, w) \/ Refunds(u, w)

-----------------------------------------------------------------------------
(* The inductive invariant.                                                *)

\* Ids are given once: to committed events and rows, and to the ones that open
\* transactions have inserted.  Those of one user commit in the order of their ids.
EventIds ==
  /\ \A e \in events : e.id <= lastEvent /\ \A f \in events : e.id = f.id => e = f
  /\ \A u \in Users : \A e \in tx[u].events :
       /\ e.id <= lastEvent
       /\ \A f \in events : f.id # e.id /\ (f.user = u => f.id < e.id)
       /\ \A v \in Users \ {u} : \A f \in tx[v].events : f.id # e.id

RowIds ==
  /\ \A w \in withdrawals : w.id <= lastRow /\ \A x \in withdrawals : w.id = x.id => w = x
  /\ \A u \in Users : \A r \in tx[u].rows :
       /\ r.id <= lastRow
       /\ tx[u].auth # {} => \A w \in withdrawals : w.id # r.id
       /\ \A v \in Users \ {u} : \A q \in tx[v].rows : q.id # r.id

\* What an event other than an earning refers to; and a message is used once.
RowsAreNamed ==
  /\ \A e \in events : e.type # "TaskIncome" => \E w \in withdrawals : w.id = e.source /\ w.auth.user = e.user
  /\ \A w, x \in withdrawals : w.auth = x.auth => w = x

Inv ==
  /\ TypeOK /\ IsFiniteSet(events) /\ IsFiniteSet(withdrawals)
  /\ \A u \in Users : WellFormed(u)
  /\ EventIds /\ RowIds /\ RowsAreNamed

-----------------------------------------------------------------------------
(* Steps.                                                                  *)

Others(u) == \A v \in Users \ {u} : tx'[v] = tx[v]

\* A step inside a transaction of u, or its end without effect.
Works(u) ==
  /\ UNCHANGED tables
  /\ Others(u) /\ tx' \in [Users -> Transactions] /\ WellFormed(u)'
  /\ lastEvent' \in Nat /\ lastRow' \in Nat /\ lastEvent <= lastEvent' /\ lastRow <= lastRow'
  /\ \A e \in tx'[u].events : e.id = lastEvent + 1 /\ e.id <= lastEvent'
  /\ \A r \in tx'[u].rows : \/ r.id = lastRow + 1 /\ r.id <= lastRow'
                            \/ tx'[u].auth = {} /\ \E w \in withdrawals : w.id = r.id /\ w.auth.user = u

\* A step of the wallet or of the clock.
Reads == UNCHANGED <<tables, tx, lastEvent, lastRow>>

\* A message is about a positive amount of one user.
LEMMA AuthTyped ==
  ASSUME NEW a \in Auths
  PROVE  /\ a.user \in Users /\ a.network \in Networks /\ a.amount \in Nat \ {0}
         /\ Fee[a.network] \in Nat /\ WithFee(a) \in Nat /\ WithFee(a) > 0
BY WithdrawalsAssumption DEF WithdrawalsAssumption, WalletConfigIsChecked, WithFee

\* A row that a transaction begins with, or ends with.
LEMMA NoTxTyped ==
  ASSUME TypeOK, NEW u \in Users
  PROVE  /\ NoTx(u) \in Transactions
         /\ NoTx(u).step = "idle" /\ NoTx(u).auth = {} /\ NoTx(u).start = 0
         /\ NoTx(u).rows = {} /\ NoTx(u).events = {}
BY DEF NoTx, Transactions, TypeOK

\* What is known of the transactions after a step that replaces u's.
LEMMA TxReplaced ==
  ASSUME TypeOK, NEW u \in Users, NEW t \in Transactions, tx' = [tx EXCEPT ![u] = t]
  PROVE  tx'[u] = t /\ Others(u) /\ tx' \in [Users -> Transactions]
BY DEF TypeOK, Others

\* An earning is inserted in one step.
LEMMA IncomeWorks ==
  ASSUME TypeOK, NEW i \in Incomes, CreateTaskIncomeEarning(i)
  PROVE  Works(i.user) /\ tx'[i.user].auth = {} /\ UNCHANGED <<wallet, now>>
<1> DEFINE u == i.user
           e == Event("TaskIncome", u, i.call, i.amount)
           acc == [account[u] EXCEPT !.available = @ + i.amount]
           t == [NoTx(u) EXCEPT !.step = "written", !.account = acc, !.events = {e}]
<1>1. u \in Users /\ i.call \in Nat /\ i.amount \in Nat /\ i.amount > 0
  BY WithdrawalsAssumption DEF CreateTaskIncomeEarning
<1>2. /\ e \in Events /\ e.id = lastEvent + 1 /\ e.type = "TaskIncome" /\ e.user = u /\ e.amount = i.amount
  BY <1>1 DEF Event, Events, EventTypes, TypeOK
<1>3. /\ acc \in EarningAccounts
      /\ acc = [available |-> account[u].available + i.amount, locked |-> account[u].locked]
  BY <1>1 DEF TypeOK, EarningAccounts
<1>4. /\ t \in Transactions /\ t.step = "written" /\ t.auth = {} /\ t.rows = {} /\ t.events = {e}
      /\ t.account = acc
  <2> HIDE DEF e, acc
  <2>1. NoTx(u) \in Transactions /\ NoTx(u).auth = {} /\ NoTx(u).rows = {} /\ {e} \in SUBSET Events
    BY <1>1, <1>2, NoTxTyped
  <2>2. /\ t \in Transactions /\ t.step = "written" /\ t.account = acc /\ t.events = {e}
        /\ t.auth = NoTx(u).auth /\ t.rows = NoTx(u).rows
    BY <1>3, <2>1 DEF Transactions
  <2> QED
    BY <2>1, <2>2
<1>5. UNCHANGED <<tables, lastRow, wallet, now>> /\ lastEvent' = lastEvent + 1 /\ tx' = [tx EXCEPT ![u] = t]
  BY Zenon DEF CreateTaskIncomeEarning
<1> HIDE DEF u, e, t, acc
<1>6. tx'[u] = t /\ Others(u) /\ tx' \in [Users -> Transactions]
  BY <1>1, <1>4, <1>5, TxReplaced
<1>7. Collects(u)'
  BY <1>1, <1>2, <1>3, <1>4, <1>5, <1>6 DEF Collects, tables
<1>8. lastEvent \in Nat /\ lastRow \in Nat
  BY DEF TypeOK
<1>9. Works(u)
  BY <1>2, <1>4, <1>5, <1>6, <1>7, <1>8 DEF Works, WellFormed
<1> QED
  BY <1>4, <1>5, <1>6, <1>9 DEF u

\* A transaction that has not written anything is one that chooses.
LEMMA OnlyChooses ==
  ASSUME NEW u \in Users, WellFormed(u), tx[u].step \in {"ranged", "covered"}
  PROVE  Chooses(u)
BY DEF WellFormed, Rests, Idle, Collects, Requests, Pays, Refunds, Settles

\* And one at rest has nothing in it.
LEMMA OnlyRests ==
  ASSUME NEW u \in Users, WellFormed(u), Idle(u)
  PROVE  Rests(u)
BY DEF WellFormed, Rests, Idle, Chooses, Collects, Requests, Pays, Refunds, Settles

\* A locking read of the user's range begins a create.
LEMMA BeginWorks ==
  ASSUME TypeOK, NEW a \in Auths, BeginCreate(a)
  PROVE  /\ Works(a.user) /\ tx'[a.user].step = "ranged" /\ tx'[a.user].auth = {a}
         /\ tx'[a.user].start = Today /\ tx'[a.user].rows = {} /\ UNCHANGED <<wallet, now>>
<1> DEFINE u == a.user
           t == [NoTx(u) EXCEPT !.step = "ranged", !.auth = {a}, !.start = Today]
<1>1. u \in Users /\ Today \in Nat /\ lastEvent \in Nat /\ lastRow \in Nat
  BY AuthTyped, WithdrawalsAssumption DEF TypeOK, Today
<1>2. /\ t \in Transactions /\ t.step = "ranged" /\ t.auth = {a} /\ t.rows = {} /\ t.events = {}
      /\ t.start = Today
  <2>1. NoTx(u) \in Transactions /\ NoTx(u).rows = {} /\ NoTx(u).events = {}
    BY <1>1, NoTxTyped
  <2> QED
    BY <1>1, <2>1 DEF Transactions
<1>3. UNCHANGED <<tables, lastEvent, lastRow, wallet, now>> /\ tx' = [tx EXCEPT ![u] = t]
  BY Zenon DEF BeginCreate
<1> HIDE DEF u, t
<1>4. tx'[u] = t /\ Others(u) /\ tx' \in [Users -> Transactions]
  BY <1>1, <1>2, <1>3, TxReplaced
<1>5. Chooses(u)'
  BY <1>2, <1>4 DEF Chooses, u
<1>6. Works(u)
  BY <1>1, <1>2, <1>3, <1>4, <1>5 DEF Works, WellFormed
<1> QED
  BY <1>2, <1>3, <1>4, <1>6 DEF u

\* The locking read of the other range changes only where the create stands.
LEMMA LockWorks ==
  ASSUME TypeOK, NEW a \in Auths, WellFormed(a.user), LockBenefitRange(a)
  PROVE  /\ Works(a.user) /\ tx'[a.user].step = "covered" /\ tx'[a.user].auth = {a} /\ tx[a.user].auth = {a}
         /\ tx'[a.user].start = tx[a.user].start /\ tx'[a.user].rows = {} /\ UNCHANGED <<wallet, now>>
<1> DEFINE u == a.user
           t == [tx[u] EXCEPT !.step = "covered"]
<1>1. u \in Users /\ lastEvent \in Nat /\ lastRow \in Nat /\ tx[u] \in Transactions
  BY AuthTyped DEF TypeOK
<1>2. tx[u].auth = {a} /\ tx[u].rows = {} /\ tx[u].events = {}
  <2>1. tx[u].step = "ranged" /\ a \in tx[u].auth
    BY DEF LockBenefitRange
  <2> QED
    BY <1>1, <2>1, OnlyChooses DEF Chooses
<1>3. /\ t \in Transactions /\ t.step = "covered" /\ t.auth = {a} /\ t.rows = {} /\ t.events = {}
      /\ t.start = tx[u].start
  BY <1>1, <1>2 DEF Transactions
<1>4. /\ UNCHANGED <<tables, lastEvent, lastRow, wallet, now>> /\ tx' = [tx EXCEPT ![u] = t] /\ Covered(a)
  BY Zenon DEF LockBenefitRange
<1> HIDE DEF u, t
<1>5. tx'[u] = t /\ Others(u) /\ tx' \in [Users -> Transactions]
  BY <1>1, <1>3, <1>4, TxReplaced
<1>6. Covered(a)'
  BY <1>4 DEF Covered, tables
<1>7. Chooses(u)'
  BY <1>3, <1>5, <1>6 DEF Chooses, u
<1>8. Works(u)
  BY <1>1, <1>3, <1>4, <1>5, <1>7 DEF Works, WellFormed
<1> QED
  BY <1>2, <1>3, <1>4, <1>5, <1>8 DEF u

\* The insert of the row and of its event completes a create.
LEMMA InsertWorks ==
  ASSUME TypeOK, NEW a \in Auths, WellFormed(a.user), InsertWithdrawal(a)
  PROVE  /\ Works(a.user) /\ tx'[a.user].step = "written" /\ tx'[a.user].auth = {a} /\ tx[a.user].auth = {a}
         /\ tx[a.user].step = "covered" /\ tx'[a.user].start = tx[a.user].start
         /\ \A r \in tx'[a.user].rows : r.day = Today
         /\ UNCHANGED <<wallet, now>>
<1> DEFINE u == a.user
           acc == [available |-> account[u].available - WithFee(a), locked |-> account[u].locked + WithFee(a)]
           r == [id |-> lastRow + 1, auth |-> a, status |-> "pending", event |-> lastEvent + 1, day |-> Today]
           e == Event("Withdraw", u, lastRow + 1, WithFee(a))
           t == [tx[u] EXCEPT !.step = "written", !.account = acc, !.rows = {r}, !.events = {e}]
<1>1. /\ u \in Users /\ lastEvent \in Nat /\ lastRow \in Nat /\ tx[u] \in Transactions /\ Today \in Nat
      /\ WithFee(a) \in Nat
  BY AuthTyped, WithdrawalsAssumption DEF TypeOK, Today
<1>2. tx[u].auth = {a} /\ Covered(a) /\ tx[u].step = "covered"
  <2>1. tx[u].step = "covered" /\ a \in tx[u].auth
    BY DEF InsertWithdrawal
  <2> QED
    BY <1>1, <2>1, OnlyChooses DEF Chooses
<1>3. acc \in EarningAccounts
  BY <1>1, <1>2 DEF TypeOK, EarningAccounts, Covered
<1>4. /\ r \in Rows /\ r.id = lastRow + 1 /\ r.auth = a /\ r.status = "pending" /\ r.event = lastEvent + 1
      /\ r.day = Today
  BY <1>1 DEF Rows
<1>5. /\ e \in Events /\ e.id = lastEvent + 1 /\ e.type = "Withdraw" /\ e.user = u /\ e.source = r.id
      /\ e.amount = WithFee(a)
  BY <1>1 DEF Event, Events, EventTypes
<1>6. /\ t \in Transactions /\ t.step = "written" /\ t.auth = {a} /\ t.rows = {r} /\ t.events = {e}
      /\ t.start = tx[u].start /\ t.account = acc
  <2> HIDE DEF e, r, acc
  <2> QED
    BY <1>1, <1>2, <1>3, <1>4, <1>5 DEF Transactions
<1>7. /\ UNCHANGED <<tables, wallet, now>> /\ lastEvent' = lastEvent + 1 /\ lastRow' = lastRow + 1
      /\ tx' = [tx EXCEPT ![u] = t] /\ Unused(a)
  BY Zenon DEF InsertWithdrawal
<1> HIDE DEF u, t, e, r
<1>8. tx'[u] = t /\ Others(u) /\ tx' \in [Users -> Transactions]
  BY <1>1, <1>6, <1>7, TxReplaced
<1>9. Covered(a)' /\ Unused(a)'
  BY <1>2, <1>7 DEF Covered, Unused, tables
<1>10. Requests(u)'
  <2>1. tx'[u].account = [available |-> account'[u].available - WithFee(a),
                          locked |-> account'[u].locked + WithFee(a)]
    BY <1>6, <1>7, <1>8 DEF tables
  <2>2. a \in Auths /\ a.user = u /\ r \in tx'[u].rows /\ e \in tx'[u].events
    BY <1>6, <1>8 DEF u
  <2>3. r.event = e.id
    BY <1>4, <1>5
  <2> HIDE DEF acc
  <2> QED
    BY <1>4, <1>5, <1>6, <1>8, <1>9, <2>1, <2>2, <2>3 DEF Requests
<1>11. Works(u)
  BY <1>1, <1>4, <1>5, <1>6, <1>7, <1>8, <1>10 DEF Works, WellFormed
<1> QED
  BY <1>2, <1>4, <1>6, <1>7, <1>8, <1>11 DEF u

\* An end without effect.
LEMMA RollbackWorks ==
  ASSUME TypeOK, NEW u \in Users, Rollback(u)
  PROVE  Works(u) /\ tx'[u].auth = {} /\ tx'[u].rows = {} /\ UNCHANGED <<wallet, now>>
<1>1. UNCHANGED <<tables, lastEvent, lastRow, wallet, now>> /\ tx' = [tx EXCEPT ![u] = NoTx(u)]
  BY DEF Rollback
<1>2. tx'[u] = NoTx(u) /\ Others(u) /\ tx' \in [Users -> Transactions]
  BY <1>1, NoTxTyped, TxReplaced
<1>3. lastEvent \in Nat /\ lastRow \in Nat
  BY DEF TypeOK
<1>4. Rests(u)'
  BY <1>2, NoTxTyped DEF Rests, Idle
<1> QED
  BY <1>1, <1>2, <1>3, <1>4, NoTxTyped DEF Works, WellFormed

\* What a row is.
LEMMA RowTyped ==
  ASSUME TypeOK, NEW w \in withdrawals
  PROVE  /\ w \in Rows /\ w.id \in Nat /\ w.event \in Nat /\ w.day \in Nat /\ w.auth \in Auths
         /\ w.auth.user \in Users /\ w.auth.network \in Networks /\ w.status \in {"pending", "success", "failed"}
         /\ Fee[w.auth.network] \in Nat /\ WithFee(w.auth) \in Nat /\ WithFee(w.auth) > 0
<1>1. w \in Rows /\ w.id \in Nat /\ w.event \in Nat /\ w.day \in Nat /\ w.auth \in Auths
      /\ w.status \in {"pending", "success", "failed"}
  BY DEF TypeOK, Rows
<1> QED
  BY <1>1, AuthTyped

\* A row with another status.
LEMMA RowSettled ==
  ASSUME TypeOK, NEW w \in withdrawals, NEW status \in {"success", "failed"},
         NEW r, r = [w EXCEPT !.status = status]
  PROVE  /\ r \in Rows /\ r.id = w.id /\ r.auth = w.auth /\ r.event = w.event /\ r.day = w.day
         /\ r.status = status
BY RowTyped DEF Rows

\* Either end of a withdrawal is one transaction that only writes.
LEMMA SettlingWorks ==
  ASSUME TypeOK, NEW w \in withdrawals, NEW status \in {"success", "failed"},
         NEW acc \in EarningAccounts, NEW evs \in SUBSET Events, Settling(w, status, acc, evs),
         evs = {} \/ \E e \in Events : evs = {e} /\ e.id = lastEvent + 1
  PROVE  LET u == w.auth.user
         IN  /\ Others(u) /\ tx' \in [Users -> Transactions] /\ UNCHANGED tables
             /\ tx'[u].step = "written" /\ tx'[u].auth = {} /\ tx'[u].rows = {[w EXCEPT !.status = status]}
             /\ tx'[u].events = evs /\ tx'[u].account = acc
             /\ Settles(u, w, status)' /\ lastEvent \in Nat /\ lastEvent' \in Nat /\ lastRow \in Nat
             /\ lastEvent <= lastEvent' /\ lastRow' = lastRow
             /\ \A e \in tx'[u].events : e.id = lastEvent + 1 /\ e.id <= lastEvent'
             /\ \A r \in tx'[u].rows : r.id = w.id
             /\ UNCHANGED <<wallet, now>>
<1> DEFINE u == w.auth.user
           r == [w EXCEPT !.status = status]
           t == [NoTx(u) EXCEPT !.step = "written", !.account = acc, !.rows = {r}, !.events = evs]
<1>1. u \in Users /\ lastEvent \in Nat /\ lastRow \in Nat
  BY RowTyped DEF TypeOK
<1>2. r \in Rows /\ r.id = w.id
  <2>1. r = [w EXCEPT !.status = status]
    OBVIOUS
  <2> HIDE DEF r
  <2> QED
    BY <2>1, RowSettled
<1>3. /\ t \in Transactions /\ t.step = "written" /\ t.auth = {} /\ t.rows = {r} /\ t.events = evs
      /\ t.account = acc
  <2> HIDE DEF r
  <2>1. NoTx(u) \in Transactions /\ NoTx(u).auth = {}
    BY <1>1, NoTxTyped
  <2> QED
    BY <1>2, <2>1 DEF Transactions
<1>4. /\ UNCHANGED <<tables, lastRow, wallet, now>> /\ lastEvent' = lastEvent + Cardinality(evs)
      /\ tx' = [tx EXCEPT ![u] = t] /\ w.status = "pending" /\ account[u].locked >= WithFee(w.auth)
  BY Zenon DEF Settling, Open
<1>5. /\ lastEvent' \in Nat /\ lastEvent <= lastEvent'
      /\ \A e \in evs : e.id = lastEvent + 1 /\ e.id <= lastEvent'
  <2>1. CASE evs = {}
    BY <1>1, <1>4, <2>1, FS_EmptySet
  <2>2. ASSUME NEW e \in Events, evs = {e}, e.id = lastEvent + 1
        PROVE  /\ lastEvent' \in Nat /\ lastEvent <= lastEvent'
               /\ \A f \in evs : f.id = lastEvent + 1 /\ f.id <= lastEvent'
    <3>1. Cardinality(evs) = 1
      BY <2>2, FS_Singleton
    <3> QED
      BY <1>1, <1>4, <2>2, <3>1
  <2> QED
    BY <2>1, <2>2
<1> HIDE DEF t
<1>6. tx'[u] = t /\ Others(u) /\ tx' \in [Users -> Transactions]
  BY <1>1, <1>3, <1>4, TxReplaced
<1>7. Settles(u, w, status)'
  <2>1. WithFee(w.auth) \in Nat /\ account[u].locked \in Nat
    BY <1>1, RowTyped DEF TypeOK, EarningAccounts
  <2> QED
    BY <1>3, <1>4, <1>6, <2>1 DEF Settles, tables
<1> HIDE DEF r
<1>8. \A q \in tx'[u].rows : q.id = w.id
  BY <1>2, <1>3, <1>6
<1> QED
  BY <1>1, <1>3, <1>4, <1>5, <1>6, <1>7, <1>8 DEF r

\* A paid withdrawal writes its row and, when there is a fee, an event.
LEMMA FulfillWorks ==
  ASSUME TypeOK, NEW w \in withdrawals, FulfillWithdrawal(w)
  PROVE  Works(w.auth.user) /\ tx'[w.auth.user].auth = {} /\ UNCHANGED <<wallet, now>>
<1> DEFINE u == w.auth.user
           fee == Fee[w.auth.network]
           acc == [account[u] EXCEPT !.locked = @ - WithFee(w.auth)]
           e == Event("WithdrawalFeeIncome", u, w.id, fee)
           evs == IF fee > 0 THEN {e} ELSE {}
<1>1. u \in Users /\ fee \in Nat /\ lastEvent \in Nat /\ WithFee(w.auth) \in Nat /\ w.id \in Nat
  BY RowTyped DEF TypeOK
<1>2. Settling(w, "success", acc, evs)
  BY Zenon DEF FulfillWithdrawal
<1>3. /\ acc \in EarningAccounts
      /\ acc = [available |-> account[u].available, locked |-> account[u].locked - WithFee(w.auth)]
  BY <1>1, <1>2 DEF TypeOK, EarningAccounts, Settling
<1>4. e \in Events /\ e.id = lastEvent + 1 /\ e.type = "WithdrawalFeeIncome" /\ e.user = u /\ e.source = w.id
  BY <1>1 DEF Event, Events, EventTypes
<1>5. evs \in SUBSET Events /\ (evs = {} \/ \E f \in Events : evs = {f} /\ f.id = lastEvent + 1)
  <2> HIDE DEF e
  <2> QED
    BY <1>4
<1>6. (fee = 0 => evs = {}) /\ (fee > 0 => evs = {e})
  BY <1>1
<1> HIDE DEF u, acc, e, evs
<1>7. /\ Others(u) /\ tx' \in [Users -> Transactions] /\ UNCHANGED tables
      /\ tx'[u].auth = {} /\ tx'[u].events = evs /\ tx'[u].account = acc
      /\ Settles(u, w, "success")' /\ lastEvent \in Nat /\ lastEvent' \in Nat /\ lastRow \in Nat
      /\ lastEvent <= lastEvent' /\ lastRow' = lastRow
      /\ \A f \in tx'[u].events : f.id = lastEvent + 1 /\ f.id <= lastEvent'
      /\ \A r \in tx'[u].rows : r.id = w.id
      /\ UNCHANGED <<wallet, now>>
  BY <1>2, <1>3, <1>5, SettlingWorks DEF u
<1>8. Pays(u, w)'
  BY <1>3, <1>4, <1>6, <1>7 DEF Pays, tables
<1>9. Works(u)
  BY <1>7, <1>8 DEF Works, WellFormed, tables, u
<1> QED
  BY <1>7, <1>9 DEF u

\* A rejected one writes its row and the refund.
LEMMA RejectWorks ==
  ASSUME TypeOK, NEW w \in withdrawals, RejectWithdrawal(w)
  PROVE  Works(w.auth.user) /\ tx'[w.auth.user].auth = {} /\ UNCHANGED <<wallet, now>>
<1> DEFINE u == w.auth.user
           acc == Restored(account[u], w.auth)
           e == Event("WithdrawRefund", u, w.id, WithFee(w.auth))
           evs == {e}
<1>1. u \in Users /\ lastEvent \in Nat /\ WithFee(w.auth) \in Nat /\ w.id \in Nat
  BY RowTyped DEF TypeOK
<1>2. Settling(w, "failed", acc, evs)
  BY Zenon DEF RejectWithdrawal
<1>3. /\ acc \in EarningAccounts
      /\ acc = [available |-> account[u].available + WithFee(w.auth),
                locked |-> account[u].locked - WithFee(w.auth)]
  BY <1>1, <1>2 DEF TypeOK, EarningAccounts, Settling, Restored
<1>4. /\ e \in Events /\ e.id = lastEvent + 1 /\ e.type = "WithdrawRefund" /\ e.user = u /\ e.source = w.id
      /\ e.amount = WithFee(w.auth)
  BY <1>1 DEF Event, Events, EventTypes
<1>5. evs \in SUBSET Events /\ (evs = {} \/ \E f \in Events : evs = {f} /\ f.id = lastEvent + 1)
  <2> HIDE DEF e
  <2> QED
    BY <1>4
<1> HIDE DEF u, acc, e
<1>6. /\ Others(u) /\ tx' \in [Users -> Transactions] /\ UNCHANGED tables
      /\ tx'[u].auth = {} /\ tx'[u].events = evs /\ tx'[u].account = acc
      /\ Settles(u, w, "failed")' /\ lastEvent \in Nat /\ lastEvent' \in Nat /\ lastRow \in Nat
      /\ lastEvent <= lastEvent' /\ lastRow' = lastRow
      /\ \A f \in tx'[u].events : f.id = lastEvent + 1 /\ f.id <= lastEvent'
      /\ \A r \in tx'[u].rows : r.id = w.id
      /\ UNCHANGED <<wallet, now>>
  BY <1>2, <1>3, <1>5, SettlingWorks DEF u
<1>7. Refunds(u, w)'
  BY <1>3, <1>4, <1>6 DEF Refunds, tables
<1>8. Works(u)
  BY <1>6, <1>7 DEF Works, WellFormed, tables, u
<1> QED
  BY <1>6, <1>8 DEF u

-----------------------------------------------------------------------------
(* What a commit does.                                                     *)

\* It concerns one user, and no ids.
Ends(u) ==
  /\ Others(u) /\ tx' \in [Users -> Transactions] /\ Rests(u)'
  /\ UNCHANGED <<lastEvent, lastRow, wallet, now>>
  /\ account' \in [Users -> EarningAccounts] /\ \A v \in Users \ {u} : account'[v] = account[v]

\* r is w with another status.
Becomes(w, r, status) ==
  /\ w \in withdrawals /\ w.status = "pending"
  /\ r \in Rows /\ r.id = w.id /\ r.auth = w.auth /\ r.event = w.event /\ r.day = w.day /\ r.status = status
  /\ withdrawals' = (withdrawals \ {w}) \cup {r}

Earned(u, e) ==
  /\ e \in Events /\ tx[u].events = {e} /\ e.type = "TaskIncome" /\ e.user = u /\ e.amount > 0
  /\ events' = events \cup {e} /\ withdrawals' = withdrawals
  /\ account'[u].available = account[u].available + e.amount /\ account'[u].locked = account[u].locked

Requested(u, a, r, e) ==
  /\ a \in Auths /\ r \in Rows /\ e \in Events
  /\ tx[u].auth = {a} /\ tx[u].rows = {r} /\ tx[u].events = {e}
  /\ a.user = u /\ Covered(a) /\ Unused(a)
  /\ r.auth = a /\ r.status = "pending" /\ r.event = e.id
  /\ e.type = "Withdraw" /\ e.user = u /\ e.source = r.id /\ e.amount = WithFee(a)
  /\ events' = events \cup {e} /\ withdrawals' = withdrawals \cup {r}
  /\ account'[u].available = account[u].available - WithFee(a)
  /\ account'[u].locked = account[u].locked + WithFee(a)

Paid(u, w, r) ==
  /\ Becomes(w, r, "success") /\ w.auth.user = u
  /\ tx[u].auth = {} /\ events' = events \cup tx[u].events
  /\ Fee[w.auth.network] = 0 => tx[u].events = {}
  /\ Fee[w.auth.network] > 0 =>
       \E e \in Events : tx[u].events = {e} /\ e.type = "WithdrawalFeeIncome" /\ e.user = u /\ e.source = w.id
  /\ account'[u].available = account[u].available
  /\ account'[u].locked = account[u].locked - WithFee(w.auth)

Refunded(u, w, r, e) ==
  /\ Becomes(w, r, "failed") /\ w.auth.user = u
  /\ tx[u].auth = {} /\ e \in Events /\ tx[u].events = {e} /\ events' = events \cup {e}
  /\ e.type = "WithdrawRefund" /\ e.user = u /\ e.source = w.id /\ e.amount = WithFee(w.auth)
  /\ account'[u].available = account[u].available + WithFee(w.auth)
  /\ account'[u].locked = account[u].locked - WithFee(w.auth)

Commits(u) ==
  /\ Ends(u)
  /\ \/ \E e \in Events : Earned(u, e)
     \/ \E a \in Auths, r \in Rows, e \in Events : Requested(u, a, r, e)
     \/ \E w \in withdrawals, r \in Rows : Paid(u, w, r)
     \/ \E w \in withdrawals, r \in Rows, e \in Events : Refunded(u, w, r, e)

\* A commit ends its transaction and no other.
LEMMA CommitEnds ==
  ASSUME TypeOK, NEW u \in Users, Commit(u)
  PROVE  /\ Ends(u) /\ account'[u] = tx[u].account /\ tx[u].step = "written"
         /\ events' = events \cup tx[u].events
         /\ withdrawals' = {w \in withdrawals : \A r \in tx[u].rows : r.id # w.id} \cup tx[u].rows
<1> DEFINE t == [NoTx(u) EXCEPT !.account = tx[u].account]
<1>1. tx[u].account \in EarningAccounts /\ account \in [Users -> EarningAccounts]
  BY DEF TypeOK, Transactions
<1>2. t \in Transactions /\ t.step = "idle" /\ t.auth = {} /\ t.rows = {} /\ t.events = {}
  <2>1. NoTx(u) \in Transactions /\ NoTx(u).step = "idle" /\ NoTx(u).auth = {} /\ NoTx(u).rows = {} /\ NoTx(u).events = {}
    BY NoTxTyped
  <2> QED
    BY <1>1, <2>1 DEF Transactions
<1>3. /\ tx' = [tx EXCEPT ![u] = t] /\ account' = [account EXCEPT ![u] = tx[u].account]
      /\ UNCHANGED <<lastEvent, lastRow, wallet, now>> /\ tx[u].step = "written"
      /\ events' = events \cup tx[u].events
      /\ withdrawals' = {w \in withdrawals : \A r \in tx[u].rows : r.id # w.id} \cup tx[u].rows
  BY Zenon DEF Commit
<1> HIDE DEF t
<1>4. tx'[u] = t /\ Others(u) /\ tx' \in [Users -> Transactions]
  BY <1>2, <1>3, TxReplaced
<1>5. account' \in [Users -> EarningAccounts] /\ account'[u] = tx[u].account /\ \A v \in Users \ {u} : account'[v] = account[v]
  BY <1>1, <1>3
<1>6. Rests(u)'
  BY <1>2, <1>4 DEF Rests, Idle
<1> QED
  BY <1>3, <1>4, <1>5, <1>6 DEF Ends

\* The row with w's id is replaced by the one the transaction has written.
LEMMA RowReplaced ==
  ASSUME TypeOK, RowIds, NEW w \in withdrawals, NEW status \in {"success", "failed"}, w.status = "pending",
         NEW r, r = [w EXCEPT !.status = status],
         withdrawals' = {x \in withdrawals : \A q \in {r} : q.id # x.id} \cup {r}
  PROVE  Becomes(w, r, status)
<1>1. r \in Rows /\ r.id = w.id /\ r.auth = w.auth /\ r.event = w.event /\ r.day = w.day /\ r.status = status
  BY RowSettled
<1>2. \A x \in withdrawals : (\A q \in {r} : q.id # x.id) <=> x # w
  BY <1>1 DEF RowIds
<1>3. withdrawals' = (withdrawals \ {w}) \cup {r}
  BY <1>2
<1> QED
  BY <1>1, <1>3 DEF Becomes

\* It is the end of one of the four operations.
LEMMA CommitCommits ==
  ASSUME Inv, NEW u \in Users, Commit(u)
  PROVE  Commits(u)
<1>1. TypeOK /\ RowIds /\ WellFormed(u)
  BY DEF Inv
<1>2. /\ Ends(u) /\ account'[u] = tx[u].account /\ tx[u].step = "written"
      /\ events' = events \cup tx[u].events
      /\ withdrawals' = {w \in withdrawals : \A r \in tx[u].rows : r.id # w.id} \cup tx[u].rows
  BY <1>1, CommitEnds
<1>3. tx[u].events \subseteq Events /\ tx[u].rows \subseteq Rows /\ account[u] \in EarningAccounts
  BY <1>1 DEF TypeOK, Transactions
<1>4. CASE Collects(u)
  <2>1. PICK e \in Events :
          /\ tx[u].events = {e} /\ e.type = "TaskIncome" /\ e.user = u /\ e.amount > 0
          /\ tx[u].account = [available |-> account[u].available + e.amount, locked |-> account[u].locked]
    BY <1>3, <1>4 DEF Collects
  <2>2. withdrawals' = withdrawals
    BY <1>2, <1>4 DEF Collects
  <2>3. Earned(u, e)
    BY <1>2, <2>1, <2>2 DEF Earned
  <2> QED
    BY <1>2, <2>3 DEF Commits
<1>5. CASE Requests(u)
  <2>1. PICK a \in Auths, r \in Rows, e \in Events :
          /\ tx[u].auth = {a} /\ tx[u].rows = {r} /\ tx[u].events = {e}
          /\ a.user = u /\ Covered(a) /\ Unused(a)
          /\ r.auth = a /\ r.status = "pending" /\ r.event = e.id
          /\ e.type = "Withdraw" /\ e.user = u /\ e.source = r.id /\ e.amount = WithFee(a)
          /\ tx[u].account = [available |-> account[u].available - WithFee(a),
                              locked |-> account[u].locked + WithFee(a)]
    BY <1>3, <1>5 DEF Requests
  <2>2. \A w \in withdrawals : w.id # r.id
    BY <1>1, <2>1 DEF RowIds
  <2>3. withdrawals' = withdrawals \cup {r}
    BY <1>2, <2>1, <2>2
  <2>4. Requested(u, a, r, e)
    BY <1>2, <2>1, <2>3 DEF Requested
  <2> QED
    BY <1>2, <2>4 DEF Commits
<1>6. ASSUME NEW w \in withdrawals, Pays(u, w) PROVE Commits(u)
  <2> DEFINE r == [w EXCEPT !.status = "success"]
  <2>1. tx[u].rows = {r} /\ w.status = "pending" /\ w.auth.user = u /\ tx[u].auth = {}
    BY <1>6 DEF Pays, Settles
  <2>2. r = [w EXCEPT !.status = "success"]
    OBVIOUS
  <2> HIDE DEF r
  <2>3. Becomes(w, r, "success")
    BY <1>1, <1>2, <2>1, <2>2, RowReplaced
  <2>4. /\ account'[u].available = account[u].available
        /\ account'[u].locked = account[u].locked - WithFee(w.auth)
    BY <1>2, <1>6 DEF Pays
  <2>5. Fee[w.auth.network] > 0 =>
          \E e \in Events : tx[u].events = {e} /\ e.type = "WithdrawalFeeIncome" /\ e.user = u /\ e.source = w.id
    BY <1>3, <1>6 DEF Pays
  <2>6. Paid(u, w, r)
    BY <1>2, <1>6, <2>1, <2>3, <2>4, <2>5 DEF Paid, Pays
  <2>7. r \in Rows
    BY <2>3 DEF Becomes
  <2> QED
    BY <1>2, <2>6, <2>7 DEF Commits
<1>7. ASSUME NEW w \in withdrawals, Refunds(u, w) PROVE Commits(u)
  <2> DEFINE r == [w EXCEPT !.status = "failed"]
  <2>1. tx[u].rows = {r} /\ w.status = "pending" /\ w.auth.user = u /\ tx[u].auth = {}
    BY <1>7 DEF Refunds, Settles
  <2>2. r = [w EXCEPT !.status = "failed"]
    OBVIOUS
  <2> HIDE DEF r
  <2>3. Becomes(w, r, "failed")
    BY <1>1, <1>2, <2>1, <2>2, RowReplaced
  <2>4. /\ account'[u].available = account[u].available + WithFee(w.auth)
        /\ account'[u].locked = account[u].locked - WithFee(w.auth)
    BY <1>2, <1>7 DEF Refunds
  <2>5. PICK e \in Events : /\ tx[u].events = {e} /\ e.type = "WithdrawRefund" /\ e.user = u /\ e.source = w.id
                            /\ e.amount = WithFee(w.auth)
    BY <1>3, <1>7 DEF Refunds
  <2>6. Refunded(u, w, r, e)
    BY <1>2, <2>1, <2>3, <2>4, <2>5 DEF Refunded
  <2>7. r \in Rows
    BY <2>3 DEF Becomes
  <2> QED
    BY <1>2, <2>6, <2>7 DEF Commits
<1>8. ~Rests(u) /\ ~Chooses(u)
  BY <1>2 DEF Rests, Idle, Chooses
<1> QED
  BY <1>1, <1>4, <1>5, <1>6, <1>7, <1>8 DEF WellFormed

\* Every step is one of a transaction, of the wallet, or of the clock.
LEMMA NextIsMove ==
  ASSUME Inv, [Next]_vars
  PROVE  \/ ListEvents \/ (\E start \in 0..lastRow : ListPendingWithdrawals(start)) \/ Tick \/ UNCHANGED vars
         \/ \E u \in Users : (Works(u) /\ UNCHANGED wallet) \/ Commits(u)
<1>0. TypeOK /\ \A u \in Users : WellFormed(u)
  BY DEF Inv
<1>1. ASSUME NEW i \in Incomes, CreateTaskIncomeEarning(i) PROVE \E u \in Users : Works(u) /\ UNCHANGED wallet
  BY <1>0, <1>1, IncomeWorks, WithdrawalsAssumption DEF CreateTaskIncomeEarning
<1>2. ASSUME NEW a \in Auths, BeginCreate(a) \/ LockBenefitRange(a) \/ InsertWithdrawal(a)
      PROVE  \E u \in Users : Works(u) /\ UNCHANGED wallet
  BY <1>0, <1>2, AuthTyped, BeginWorks, LockWorks, InsertWorks
<1>3. ASSUME NEW w \in withdrawals, FulfillWithdrawal(w) \/ RejectWithdrawal(w)
      PROVE  \E u \in Users : Works(u) /\ UNCHANGED wallet
  BY <1>0, <1>3, RowTyped, FulfillWorks, RejectWorks
<1>4. ASSUME NEW u \in Users, Rollback(u) PROVE Works(u) /\ UNCHANGED wallet
  BY <1>0, <1>4, RollbackWorks
<1> QED
  BY <1>1, <1>2, <1>3, <1>4, CommitCommits DEF Next

\* For the rest of the state, those of the wallet and the clock are alike.
LEMMA NextIsStep ==
  ASSUME Inv, [Next]_vars
  PROVE  Reads \/ \E u \in Users : (Works(u) /\ UNCHANGED wallet) \/ Commits(u)
<1>1. ListEvents \/ (\E start \in 0..lastRow : ListPendingWithdrawals(start)) \/ Tick \/ UNCHANGED vars => Reads
  BY DEF ListEvents, ListPendingWithdrawals, Tick, Reads, vars, tables, wallet
<1> QED
  BY <1>1, NextIsMove

-----------------------------------------------------------------------------
(* The invariant is inductive.                                             *)

\* A bounded set of numbers has a largest one.
LEMMA MaxExists ==
  ASSUME NEW S \in SUBSET Nat, S # {}, NEW b \in Nat, \A x \in S : x <= b
  PROVE  Max(S) \in S /\ \A y \in S : y <= Max(S)
<1> DEFINE U == {n \in Nat : \A x \in S : x <= n}
           R == OpToRel(<, Nat)
<1>1. IsWellFoundedOn(R, Nat)
  BY NatLessThanWellFounded
<1>2. U \subseteq Nat /\ U # {}
  OBVIOUS
<1>3. \A x, y \in Nat : <<x, y>> \in R <=> x < y
  BY DEF OpToRel
<1> HIDE DEF R
<1>4. PICK m \in U : \A y \in U : ~(<<y, m>> \in R)
  BY <1>1, <1>2, WFMin
<1>5. \A y \in U : m <= y
  <2>1. TAKE y \in U
  <2>2. y \in Nat /\ m \in Nat
    BY <1>2
  <2>3. ~(<<y, m>> \in R)
    BY <1>4
  <2>4. ~(y < m)
    BY <1>3, <2>2, <2>3
  <2> QED
    BY <2>2, <2>4
<1>6. m \in S
  <2> SUFFICES ASSUME m \notin S PROVE FALSE
    OBVIOUS
  <2>1. \A x \in S : x <= m - 1 /\ m - 1 \in Nat
    OBVIOUS
  <2>2. m - 1 \in U
    BY <2>1
  <2> QED
    BY <1>5, <2>2
<1>7. \E x \in S : \A y \in S : x >= y
  BY <1>4, <1>6
<1> QED
  BY <1>7 DEF Max

\* The rows the wallet can be given are committed and within the ids given so far.
LEMMA PageTyped ==
  ASSUME TypeOK, EventIds,
         NEW page, page = Page({e.id : e \in {x \in events : x.id > cursor}}), page # {}
  PROVE  /\ page \subseteq Nat /\ Max(page) \in page /\ \A i \in page : i <= Max(page)
         /\ \A i \in page : i > cursor /\ \E e \in events : e.id = i
<1> DEFINE ids == {e.id : e \in {x \in events : x.id > cursor}}
<1>1. page \subseteq ids
  BY DEF Page
<1>2. \A i \in ids : i \in Nat /\ i <= lastEvent /\ i > cursor /\ \E e \in events : e.id = i
  BY DEF TypeOK, Events, EventIds
<1>3. page \in SUBSET Nat /\ (\A i \in page : i <= lastEvent) /\ lastEvent \in Nat
  BY <1>1, <1>2 DEF TypeOK
<1>4. Max(page) \in page /\ \A i \in page : i <= Max(page)
  BY <1>3, MaxExists
<1> QED
  BY <1>1, <1>2, <1>3, <1>4

\* The clock, the wallet and the bound on rollbacks keep their types.
LEMMA RestTyped ==
  ASSUME Inv, [Next]_vars
  PROVE  now' \in Nat /\ left' \in Nat /\ cursor' \in Nat /\ seen' \subseteq Nat
         /\ racing' \subseteq Nat /\ accepted' \subseteq Nat
<1> DEFINE Rest == now' \in Nat /\ left' \in Nat /\ cursor' \in Nat /\ seen' \subseteq Nat
                   /\ racing' \subseteq Nat /\ accepted' \subseteq Nat
<1>1. /\ TypeOK /\ EventIds /\ now \in Nat /\ left \in Nat /\ cursor \in Nat /\ seen \subseteq Nat
      /\ racing \subseteq Nat /\ accepted \subseteq Nat
  BY DEF Inv, TypeOK
<1>2. ASSUME UNCHANGED <<now, wallet, left>> PROVE Rest
  BY <1>1, <1>2 DEF wallet
<1>3. ASSUME NEW i \in Incomes, CreateTaskIncomeEarning(i) PROVE Rest
  BY <1>2, <1>3, Zenon DEF CreateTaskIncomeEarning
<1>4. ASSUME NEW a \in Auths, BeginCreate(a) \/ LockBenefitRange(a) \/ InsertWithdrawal(a) PROVE Rest
  BY <1>2, <1>4, Zenon DEF BeginCreate, LockBenefitRange, InsertWithdrawal
<1>5. ASSUME NEW w \in withdrawals, FulfillWithdrawal(w) \/ RejectWithdrawal(w) PROVE Rest
  BY <1>2, <1>5, Zenon DEF FulfillWithdrawal, RejectWithdrawal, Settling
<1>6. ASSUME NEW u \in Users, Commit(u) \/ Rollback(u) PROVE Rest
  <2>1. CASE Commit(u)
    BY <1>2, <2>1, Zenon DEF Commit
  <2>2. CASE Rollback(u)
    BY <1>1, <2>2 DEF Rollback, wallet
  <2> QED
    BY <1>6, <2>1, <2>2
<1>7. ASSUME ListEvents PROVE Rest
  <2> DEFINE page == Page({e.id : e \in {x \in events : x.id > cursor}})
             racers == {i \in UNION {{e.id : e \in tx[u].events} : u \in Users} : i < Max(page)}
  <2>1. /\ page # {} /\ cursor' = Max(page) /\ seen' = seen \cup page /\ racing' = racing \cup racers
        /\ UNCHANGED <<now, left, accepted>>
    BY <1>7 DEF ListEvents
  <2>2. page \subseteq Nat /\ Max(page) \in page
    BY <1>1, <2>1, PageTyped
  <2>3. racers \subseteq Nat
    BY <1>1 DEF TypeOK, Transactions, Events
  <2> HIDE DEF page, racers
  <2> QED
    BY <1>1, <2>1, <2>2, <2>3
<1>8. ASSUME NEW start \in 0..lastRow, ListPendingWithdrawals(start) PROVE Rest
  <2> DEFINE pending == {w \in withdrawals : w.status = "pending" /\ w.id > start}
             new == {i \in Page({w.id : w \in pending}) \ accepted : \E w \in pending : w.id = i /\ w.event <= cursor}
  <2>1. accepted' = accepted \cup new /\ UNCHANGED <<now, left, cursor, seen, racing>>
    BY <1>8 DEF ListPendingWithdrawals
  <2>2. new \subseteq Nat
    BY <1>1, RowTyped
  <2> HIDE DEF new
  <2> QED
    BY <1>1, <2>1, <2>2
<1>9. ASSUME Tick PROVE Rest
  BY <1>1, <1>9 DEF Tick, wallet
<1> QED
  BY <1>2, <1>3, <1>4, <1>5, <1>6, <1>7, <1>8, <1>9 DEF Next, vars, wallet

\* A transaction that a step leaves alone stays what it is, if the step leaves
\* its user's account and rows alone, too.
LEMMA WellFormedKept ==
  ASSUME TypeOK, NEW v \in Users, WellFormed(v), tx'[v] = tx[v], account'[v] = account[v],
         \A w : w.auth.user = v => (w \in withdrawals <=> w \in withdrawals')
  PROVE  WellFormed(v)'
<1>1. CASE Rests(v)
  BY <1>1 DEF WellFormed, Rests, Idle
<1>2. CASE Collects(v)
  BY <1>2 DEF WellFormed, Collects
<1>3. CASE Chooses(v)
  BY <1>3 DEF WellFormed, Chooses, Covered
<1>4. CASE Requests(v)
  <2>1. \A a \in Auths : a.user = v /\ Unused(a) => Unused(a)'
    BY DEF Unused
  <2>2. \A a \in Auths : a.user = v /\ Covered(a) => Covered(a)'
    BY DEF Covered
  <2>3. Requests(v)'
    BY <1>4, <2>1, <2>2 DEF Requests
  <2> QED
    BY <2>3 DEF WellFormed
<1>5. ASSUME NEW w \in withdrawals, Pays(v, w) PROVE WellFormed(v)'
  <2>1. w \in withdrawals'
    BY <1>5 DEF Pays, Settles
  <2>2. Pays(v, w)'
    BY <1>5 DEF Pays, Settles
  <2> QED
    BY <2>1, <2>2 DEF WellFormed
<1>6. ASSUME NEW w \in withdrawals, Refunds(v, w) PROVE WellFormed(v)'
  <2>1. w \in withdrawals'
    BY <1>6 DEF Refunds, Settles
  <2>2. Refunds(v, w)'
    BY <1>6 DEF Refunds, Settles
  <2> QED
    BY <2>1, <2>2 DEF WellFormed
<1> QED
  BY <1>1, <1>2, <1>3, <1>4, <1>5, <1>6 DEF WellFormed

\* A row in a transaction that is no create is one of its user's.
LEMMA SettledRowIsOwn ==
  ASSUME TypeOK, NEW v \in Users, WellFormed(v), tx[v].auth = {}, NEW q \in tx[v].rows
  PROVE  \E w \in withdrawals : w.id = q.id /\ w.auth.user = v
<1>1. PICK w \in withdrawals : Pays(v, w) \/ Refunds(v, w)
  BY DEF WellFormed, Rests, Collects, Chooses, Requests
<1>2. PICK status \in {"success", "failed"} : Settles(v, w, status)
  BY <1>1 DEF Pays, Refunds
<1>3. q = [w EXCEPT !.status = status] /\ w.auth.user = v
  BY <1>2 DEF Settles
<1>4. q.id = w.id
  BY <1>3, RowSettled
<1> QED
  BY <1>3, <1>4

\* The first state.
LEMMA InvInit == Init => Inv
<1> SUFFICES ASSUME Init PROVE Inv
  OBVIOUS
<1>1. account \in [Users -> EarningAccounts]
  BY DEF Init, EarningAccounts
<1>2. \A u \in Users : NoTx(u) \in Transactions /\ Rests(u)
  BY <1>1 DEF Init, NoTx, Transactions, Rests, Idle
<1>3. TypeOK
  BY <1>1, <1>2, WithdrawalsAssumption DEF Init, TypeOK
<1>4. IsFiniteSet(events) /\ IsFiniteSet(withdrawals)
  BY FS_EmptySet DEF Init
<1>5. EventIds /\ RowIds /\ RowsAreNamed
  BY <1>2 DEF Init, EventIds, RowIds, RowsAreNamed, Rests
<1> QED
  BY <1>2, <1>3, <1>4, <1>5 DEF Inv, WellFormed

\* Reads change nothing the invariant speaks of.
LEMMA InvReads ==
  ASSUME Inv, Reads, [Next]_vars
  PROVE  Inv'
<1>1. UNCHANGED <<account, events, withdrawals, tx, lastEvent, lastRow>>
  BY DEF Reads, tables
<1>2. TypeOK'
  BY <1>1, RestTyped DEF Inv, TypeOK
<1>3. \A u \in Users : WellFormed(u)'
  BY <1>1, WellFormedKept DEF Inv
<1>4. EventIds' /\ RowIds' /\ RowsAreNamed'
  BY <1>1 DEF Inv, EventIds, RowIds, RowsAreNamed
<1> QED
  BY <1>1, <1>2, <1>3, <1>4 DEF Inv

\* What a transaction inserts has new ids.
LEMMA InvWorks ==
  ASSUME Inv, [Next]_vars, NEW u \in Users, Works(u)
  PROVE  Inv'
<1>0. /\ TypeOK /\ EventIds /\ RowIds /\ RowsAreNamed /\ \A v \in Users : WellFormed(v)
      /\ lastEvent \in Nat /\ lastRow \in Nat
  BY DEF Inv, TypeOK
<1>1. /\ UNCHANGED <<account, events, withdrawals>> /\ tx' \in [Users -> Transactions] /\ WellFormed(u)'
      /\ lastEvent' \in Nat /\ lastRow' \in Nat /\ lastEvent <= lastEvent' /\ lastRow <= lastRow'
      /\ \A v \in Users \ {u} : tx'[v] = tx[v]
      /\ \A e \in tx'[u].events : e.id = lastEvent + 1 /\ e.id <= lastEvent'
      /\ \A r \in tx'[u].rows : \/ r.id = lastRow + 1 /\ r.id <= lastRow'
                                \/ tx'[u].auth = {} /\ \E w \in withdrawals : w.id = r.id /\ w.auth.user = u
  BY DEF Works, Others, tables
<1>2. TypeOK'
  BY <1>0, <1>1, RestTyped DEF TypeOK
<1>3. \A v \in Users : WellFormed(v)'
  BY <1>0, <1>1, WellFormedKept
<1>4. \A e \in events : e.id \in Nat
  BY <1>0 DEF TypeOK, Events
<1>5. \A v \in Users : \A e \in tx[v].events : e.id \in Nat
  BY <1>0 DEF TypeOK, Transactions, Events
<1>6. EventIds'
  <2>1. ASSUME NEW v \in Users, NEW e \in tx'[v].events
        PROVE  /\ e.id <= lastEvent'
               /\ \A f \in events : f.id # e.id /\ (f.user = v => f.id < e.id)
               /\ \A x \in Users \ {v} : \A f \in tx'[x].events : f.id # e.id
    <3>1. CASE v = u
      BY <1>0, <1>1, <1>4, <1>5, <2>1, <3>1 DEF EventIds
    <3>2. CASE v # u
      BY <1>0, <1>1, <1>4, <1>5, <2>1, <3>2 DEF EventIds
    <3> QED
      BY <3>1, <3>2
  <2>2. \A e \in events : e.id <= lastEvent' /\ \A f \in events : e.id = f.id => e = f
    BY <1>0, <1>1, <1>4 DEF EventIds
  <2> QED
    BY <1>1, <2>1, <2>2 DEF EventIds
<1>7. \A w \in withdrawals : w.id \in Nat
  BY <1>0, RowTyped
<1>8. \A v \in Users : \A r \in tx[v].rows : r.id \in Nat
  BY <1>0 DEF TypeOK, Transactions, Rows
<1>9. RowIds'
  <2>1. ASSUME NEW v \in Users \ {u}, NEW q \in tx[v].rows, NEW r \in tx'[u].rows
        PROVE  q.id # r.id
    <3>1. q.id \in Nat /\ q.id <= lastRow
      BY <1>0, <1>8, <2>1 DEF RowIds
    <3>2. CASE r.id = lastRow + 1
      BY <1>0, <3>1, <3>2
    <3>3. ASSUME NEW w \in withdrawals, w.id = r.id, w.auth.user = u PROVE q.id # r.id
      <4>1. CASE tx[v].auth # {}
        BY <1>0, <2>1, <3>3, <4>1 DEF RowIds
      <4>2. CASE tx[v].auth = {}
        <5>1. PICK x \in withdrawals : x.id = q.id /\ x.auth.user = v
          BY <1>0, <2>1, <4>2, SettledRowIsOwn
        <5> QED
          BY <1>0, <2>1, <3>3, <5>1 DEF RowIds
      <4> QED
        BY <4>1, <4>2
    <3> QED
      BY <1>1, <3>2, <3>3
  <2>2. ASSUME NEW r \in tx'[u].rows
        PROVE  r.id <= lastRow' /\ (tx'[u].auth # {} => \A w \in withdrawals : w.id # r.id)
    <3>1. \A w \in withdrawals : w.id <= lastRow
      BY <1>0 DEF RowIds
    <3> QED
      BY <1>0, <1>1, <1>7, <2>2, <3>1
  <2>3. ASSUME NEW v \in Users \ {u}, NEW r \in tx[v].rows
        PROVE  /\ r.id <= lastRow'
               /\ tx[v].auth # {} => \A w \in withdrawals : w.id # r.id
               /\ \A x \in Users \ {v} : x # u => \A q \in tx[x].rows : q.id # r.id
    BY <1>0, <1>1, <1>8, <2>3 DEF RowIds
  <2>4. \A w \in withdrawals : w.id <= lastRow' /\ \A x \in withdrawals : w.id = x.id => w = x
    BY <1>0, <1>1, <1>7 DEF RowIds
  <2>5. ASSUME NEW v \in Users, NEW r \in tx'[v].rows
        PROVE  /\ r.id <= lastRow'
               /\ tx'[v].auth # {} => \A w \in withdrawals' : w.id # r.id
               /\ \A x \in Users \ {v} : \A q \in tx'[x].rows : q.id # r.id
    <3>1. CASE v = u
      BY <1>1, <2>1, <2>2, <2>5, <3>1
    <3>2. CASE v # u
      BY <1>1, <2>1, <2>3, <2>5, <3>2
    <3> QED
      BY <3>1, <3>2
  <2> QED
    BY <1>1, <2>4, <2>5 DEF RowIds
<1>10. RowsAreNamed'
  BY <1>0, <1>1 DEF RowsAreNamed
<1> QED
  BY <1>1, <1>2, <1>3, <1>6, <1>9, <1>10 DEF Inv

\* What a commit leaves as it is: the transactions of the others.
LEMMA EndsFacts ==
  ASSUME TypeOK, NEW u \in Users, Ends(u)
  PROVE  /\ tx'[u].events = {} /\ tx'[u].rows = {} /\ tx'[u].auth = {} /\ WellFormed(u)'
         /\ \A v \in Users \ {u} : tx'[v] = tx[v]
         /\ UNCHANGED <<lastEvent, lastRow>>
BY DEF Ends, Rests, Others, WellFormed

\* The ids of events stay unique when one of u's transaction is committed.
LEMMA EventIdsCommit ==
  ASSUME TypeOK, EventIds, NEW u \in Users, Ends(u),
         \A e \in tx[u].events : e.user = u,
         events' = events \cup tx[u].events,
         tx[u].events = {} \/ \E e \in Events : tx[u].events = {e}
  PROVE  EventIds'
<1>1. /\ tx'[u].events = {} /\ \A v \in Users \ {u} : tx'[v] = tx[v]
      /\ lastEvent' = lastEvent
  BY EndsFacts
<1>2. ASSUME NEW e \in events', NEW f \in events', e.id = f.id PROVE e = f
  BY <1>2 DEF EventIds
<1>3. \A e \in events' : e.id <= lastEvent'
  BY <1>1 DEF EventIds
<1>4. ASSUME NEW v \in Users, NEW e \in tx'[v].events
      PROVE  /\ e.id <= lastEvent'
             /\ \A f \in events' : f.id # e.id /\ (f.user = v => f.id < e.id)
             /\ \A x \in Users \ {v} : \A f \in tx'[x].events : f.id # e.id
  <2>1. v # u /\ e \in tx[v].events
    BY <1>1, <1>4
  <2> QED
    BY <1>1, <1>4, <2>1 DEF EventIds
<1> QED
  BY <1>2, <1>3, <1>4 DEF EventIds

\* So do the ids of rows when one changes its status.
LEMMA BecomesKeeps ==
  ASSUME Inv, NEW u \in Users, Ends(u), NEW w, NEW r, NEW status, Becomes(w, r, status), w.auth.user = u
  PROVE  /\ RowIds' /\ IsFiniteSet(withdrawals') /\ withdrawals' \subseteq Rows
         /\ \A x : x.auth.user # u => (x \in withdrawals <=> x \in withdrawals')
         /\ \A x \in withdrawals : \E y \in withdrawals' : y.id = x.id /\ y.auth = x.auth
         /\ \A x, y \in withdrawals' : x.auth = y.auth => x = y
<1>0. TypeOK /\ RowIds /\ RowsAreNamed /\ IsFiniteSet(withdrawals) /\ withdrawals \subseteq Rows
  BY DEF Inv, TypeOK
<1>1. /\ tx'[u].rows = {} /\ \A v \in Users \ {u} : tx'[v] = tx[v]
      /\ lastRow' = lastRow
  BY <1>0, EndsFacts
<1>2. /\ w \in withdrawals /\ r \in Rows /\ r.id = w.id /\ r.auth = w.auth
      /\ withdrawals' = (withdrawals \ {w}) \cup {r}
  BY DEF Becomes
<1>3. IsFiniteSet(withdrawals')
  BY <1>0, <1>2, FS_AddElement, FS_RemoveElement
<1>4. \A x \in withdrawals' : \E y \in withdrawals : y.id = x.id /\ y.auth = x.auth
  BY <1>2
<1>5. \A x \in withdrawals : \E y \in withdrawals' : y.id = x.id /\ y.auth = x.auth
  BY <1>2
<1>6. \A x, y \in withdrawals' : x.id = y.id \/ x.auth = y.auth => x = y
  BY <1>0, <1>2 DEF RowIds, RowsAreNamed
<1>7. RowIds'
  <2>1. ASSUME NEW v \in Users, NEW q \in tx'[v].rows
        PROVE  /\ q.id <= lastRow'
               /\ tx'[v].auth # {} => \A x \in withdrawals' : x.id # q.id
               /\ \A z \in Users \ {v} : \A p \in tx'[z].rows : p.id # q.id
    <3>1. v # u /\ q \in tx[v].rows /\ tx'[v] = tx[v]
      BY <1>1, <2>1
    <3>2. \A x \in withdrawals' : \E y \in withdrawals : y.id = x.id
      BY <1>4
    <3> QED
      BY <1>0, <1>1, <2>1, <3>1, <3>2 DEF RowIds
  <2>2. \A x \in withdrawals' : x.id <= lastRow'
    BY <1>0, <1>1, <1>4 DEF RowIds
  <2> QED
    BY <1>6, <2>1, <2>2 DEF RowIds
<1> QED
  BY <1>0, <1>2, <1>3, <1>5, <1>6, <1>7

\* A commit of what was inserted keeps all of it.
LEMMA InvCommits ==
  ASSUME Inv, [Next]_vars, NEW u \in Users, Commits(u)
  PROVE  Inv'
<1>0. /\ TypeOK /\ EventIds /\ RowIds /\ RowsAreNamed /\ (\A v \in Users : WellFormed(v)) /\ Ends(u)
      /\ events \subseteq Events /\ withdrawals \subseteq Rows
      /\ IsFiniteSet(events) /\ IsFiniteSet(withdrawals)
  BY DEF Inv, TypeOK, Commits
<1>1. /\ tx'[u].events = {} /\ tx'[u].rows = {} /\ tx'[u].auth = {} /\ WellFormed(u)'
      /\ \A v \in Users \ {u} : tx'[v] = tx[v]
      /\ UNCHANGED <<lastEvent, lastRow>> /\ account' \in [Users -> EarningAccounts]
      /\ tx' \in [Users -> Transactions] /\ \A v \in Users \ {u} : account'[v] = account[v]
  BY <1>0, EndsFacts DEF Ends
<1>2. ASSUME events' \subseteq Events, withdrawals' \subseteq Rows PROVE TypeOK'
  BY <1>0, <1>1, <1>2, RestTyped DEF TypeOK
<1>3. ASSUME \A x : x.auth.user # u => (x \in withdrawals <=> x \in withdrawals')
      PROVE  \A v \in Users : WellFormed(v)'
  BY <1>0, <1>1, <1>3, WellFormedKept
<1>4. ASSUME NEW e \in Events, Earned(u, e) PROVE Inv'
  <2>1. /\ tx[u].events = {e} /\ e.type = "TaskIncome" /\ e.user = u
        /\ events' = events \cup {e} /\ withdrawals' = withdrawals
    BY <1>4 DEF Earned
  <2>2. EventIds'
    BY <1>0, <2>1, EventIdsCommit
  <2>3. RowIds'
    BY <1>0, <1>1, <2>1 DEF RowIds
  <2>4. RowsAreNamed'
    BY <1>0, <2>1 DEF RowsAreNamed
  <2>5. IsFiniteSet(events')
    BY <1>0, <2>1, FS_AddElement
  <2> QED
    BY <1>0, <1>2, <1>3, <2>1, <2>2, <2>3, <2>4, <2>5 DEF Inv
<1>5. ASSUME NEW a \in Auths, NEW r \in Rows, NEW e \in Events, Requested(u, a, r, e) PROVE Inv'
  <2>1. /\ tx[u].auth = {a} /\ tx[u].rows = {r} /\ tx[u].events = {e} /\ a.user = u /\ Unused(a)
        /\ r.auth = a /\ e.user = u /\ e.source = r.id
        /\ events' = events \cup {e} /\ withdrawals' = withdrawals \cup {r}
    BY <1>5 DEF Requested
  <2>2. EventIds'
    BY <1>0, <2>1, EventIdsCommit
  <2>3. RowIds'
    <3>1. \A x, y \in withdrawals' : x.id = y.id => x = y
      BY <1>0, <2>1 DEF RowIds
    <3>2. \A x \in withdrawals' : x.id <= lastRow'
      BY <1>0, <1>1, <2>1 DEF RowIds
    <3>3. ASSUME NEW v \in Users, NEW q \in tx'[v].rows
          PROVE  /\ q.id <= lastRow'
                 /\ tx'[v].auth # {} => \A x \in withdrawals' : x.id # q.id
                 /\ \A z \in Users \ {v} : \A p \in tx'[z].rows : p.id # q.id
      <4>1. v # u /\ q \in tx[v].rows /\ tx'[v] = tx[v]
        BY <1>1, <3>3
      <4>2. r.id # q.id
        BY <1>0, <2>1, <4>1 DEF RowIds
      <4> QED
        BY <1>0, <1>1, <2>1, <4>1, <4>2 DEF RowIds
    <3> QED
      BY <3>1, <3>2, <3>3 DEF RowIds
  <2>4. RowsAreNamed'
    BY <1>0, <2>1 DEF RowsAreNamed, Unused
  <2>5. IsFiniteSet(events') /\ IsFiniteSet(withdrawals')
    BY <1>0, <2>1, FS_AddElement
  <2> QED
    BY <1>0, <1>2, <1>3, <2>1, <2>2, <2>3, <2>4, <2>5 DEF Inv
<1>6. ASSUME NEW w \in withdrawals, NEW r \in Rows, Paid(u, w, r) PROVE Inv'
  <2>1. /\ Becomes(w, r, "success") /\ w.auth.user = u /\ events' = events \cup tx[u].events
        /\ tx[u].events = {} \/ \E e \in Events : tx[u].events = {e} /\ e.user = u /\ e.source = w.id
    <3>1. Fee[w.auth.network] \in Nat
      BY <1>0, RowTyped
    <3>2. Fee[w.auth.network] = 0 \/ Fee[w.auth.network] > 0
      BY <3>1
    <3> QED
      BY <1>6, <3>2 DEF Paid
  <2>2. /\ RowIds' /\ IsFiniteSet(withdrawals') /\ withdrawals' \subseteq Rows
        /\ \A x : x.auth.user # u => (x \in withdrawals <=> x \in withdrawals')
        /\ \A x \in withdrawals : \E y \in withdrawals' : y.id = x.id /\ y.auth = x.auth
        /\ \A x, y \in withdrawals' : x.auth = y.auth => x = y
    BY <1>0, <2>1, BecomesKeeps
  <2>3. EventIds'
    <3>1. \A e \in tx[u].events : e.user = u
      BY <2>1
    <3>2. tx[u].events = {} \/ \E e \in Events : tx[u].events = {e}
      BY <2>1
    <3> QED
      BY <1>0, <2>1, <3>1, <3>2, EventIdsCommit
  <2>4. RowsAreNamed'
    BY <1>0, <1>6, <2>1, <2>2 DEF RowsAreNamed
  <2>5. IsFiniteSet(events') /\ events' \subseteq Events
    BY <1>0, <2>1, FS_AddElement
  <2> QED
    BY <1>2, <1>3, <2>2, <2>3, <2>4, <2>5 DEF Inv
<1>7. ASSUME NEW w \in withdrawals, NEW r \in Rows, NEW e \in Events, Refunded(u, w, r, e) PROVE Inv'
  <2>1. /\ Becomes(w, r, "failed") /\ w.auth.user = u /\ events' = events \cup {e}
        /\ tx[u].events = {e} /\ e.user = u /\ e.source = w.id
    BY <1>7 DEF Refunded
  <2>2. /\ RowIds' /\ IsFiniteSet(withdrawals') /\ withdrawals' \subseteq Rows
        /\ \A x : x.auth.user # u => (x \in withdrawals <=> x \in withdrawals')
        /\ \A x \in withdrawals : \E y \in withdrawals' : y.id = x.id /\ y.auth = x.auth
        /\ \A x, y \in withdrawals' : x.auth = y.auth => x = y
    BY <1>0, <2>1, BecomesKeeps
  <2>3. EventIds'
    BY <1>0, <2>1, EventIdsCommit
  <2>4. RowsAreNamed'
    BY <1>0, <1>7, <2>1, <2>2 DEF RowsAreNamed
  <2>5. IsFiniteSet(events') /\ events' \subseteq Events
    BY <1>0, <2>1, FS_AddElement
  <2> QED
    BY <1>2, <1>3, <2>2, <2>3, <2>4, <2>5 DEF Inv
<1> QED
  BY <1>4, <1>5, <1>6, <1>7 DEF Commits

\* So every step preserves the invariant.
LEMMA InvNext == Inv /\ [Next]_vars => Inv'
BY NextIsStep, InvReads, InvWorks, InvCommits

\* What a step does to the tables.
LEMMA StepOfTables ==
  ASSUME Inv, [Next]_vars
  PROVE  UNCHANGED tables \/ \E u \in Users : Commits(u)
BY NextIsStep DEF Reads, Works, tables

\* The invariant holds from the start on.
LEMMA InvAlways == Spec => []Inv
<1>1. Init => Inv
  BY InvInit
<1>2. Inv /\ [Next]_vars => Inv'
  BY InvNext
<1> QED
  BY <1>1, <1>2, PTL DEF Spec

\* Every variable has its type: no account is ever negative.
THEOREM TypeCorrect == Spec => []TypeOK
<1>1. Inv => TypeOK
  BY DEF Inv
<1> QED
  BY <1>1, InvAlways, PTL

-----------------------------------------------------------------------------
(* The events of a withdrawal.                                             *)

With(type, id) == {e \in events : e.type = type /\ e.source = id}

HasFee(w) == w.status = "success" /\ Fee[w.auth.network] > 0

Settled(w) ==
  /\ {e.id : e \in With("Withdraw", w.id)} = {w.event}
  /\ HasFee(w) => \E e \in events : With("WithdrawalFeeIncome", w.id) = {e}
  /\ ~HasFee(w) => With("WithdrawalFeeIncome", w.id) = {}
  /\ w.status = "failed" => \E e \in events : With("WithdrawRefund", w.id) = {e}
  /\ w.status # "failed" => With("WithdrawRefund", w.id) = {}

\* What is recorded of a withdrawal says that it is settled once.
LEMMA SettledCounts ==
  ASSUME \A w \in withdrawals : Settled(w)
  PROVE  SettledOnce
<1> SUFFICES ASSUME NEW w \in withdrawals
             PROVE  /\ {e.id : e \in With("Withdraw", w.id)} = {w.event}
                    /\ Cardinality(With("WithdrawalFeeIncome", w.id)) = IF HasFee(w) THEN 1 ELSE 0
                    /\ Cardinality(With("WithdrawRefund", w.id)) = IF w.status = "failed" THEN 1 ELSE 0
  BY DEF SettledOnce, With, HasFee
<1>1. Settled(w)
  OBVIOUS
<1>2. Cardinality({}) = 0 /\ \A e : Cardinality({e}) = 1
  BY FS_EmptySet, FS_Singleton
<1> QED
  BY <1>1, <1>2 DEF Settled

\* A new event belongs to the withdrawal it names, and to no other.
LEMMA SettledKept ==
  ASSUME NEW w, Settled(w), events \subseteq events',
         \A e \in events' \ events : e.type = "TaskIncome" \/ e.source # w.id
  PROVE  Settled(w)'
<1>1. \A type \in {"Withdraw", "WithdrawalFeeIncome", "WithdrawRefund"} : With(type, w.id)' = With(type, w.id)
  BY DEF With
<1>2. \A e \in events : e \in events'
  OBVIOUS
<1> QED
  BY <1>1, <1>2 DEF Settled, HasFee

\* The events of withdrawals are in step with their rows.
LEMMA SettledNext ==
  ASSUME Inv, [Next]_vars, \A w \in withdrawals : Settled(w)
  PROVE  \A w \in withdrawals' : Settled(w)'
<1>1. RowIds /\ RowsAreNamed
  BY DEF Inv
<1>2. CASE UNCHANGED tables
  BY <1>2 DEF tables, Settled, With, HasFee
<1>3. ASSUME NEW u \in Users, NEW e \in Events, Earned(u, e) PROVE \A w \in withdrawals' : Settled(w)'
  BY <1>3, SettledKept DEF Earned
<1>4. ASSUME NEW u \in Users, NEW a \in Auths, NEW r \in Rows, NEW e \in Events, Requested(u, a, r, e)
      PROVE  \A w \in withdrawals' : Settled(w)'
  <2>1. /\ tx[u].auth = {a} /\ tx[u].rows = {r} /\ r.status = "pending" /\ r.event = e.id
        /\ e.type = "Withdraw" /\ e.source = r.id
        /\ events' = events \cup {e} /\ withdrawals' = withdrawals \cup {r}
    BY <1>4 DEF Requested
  <2>2. \A w \in withdrawals : w.id # r.id
    BY <1>1, <2>1 DEF RowIds
  <2>3. \A w \in withdrawals : Settled(w)'
    BY <2>1, <2>2, SettledKept
  <2>4. \A type \in {"Withdraw", "WithdrawalFeeIncome", "WithdrawRefund"} : With(type, r.id) = {}
    BY <1>1, <2>2 DEF RowsAreNamed, With
  <2>5. With("Withdraw", r.id)' = {e} /\ With("WithdrawalFeeIncome", r.id)' = {} /\ With("WithdrawRefund", r.id)' = {}
    BY <2>1, <2>4 DEF With
  <2>6. Settled(r)'
    BY <2>1, <2>5 DEF Settled, HasFee
  <2> QED
    BY <2>1, <2>3, <2>6
<1>5. ASSUME NEW u \in Users, NEW w \in withdrawals, NEW r \in Rows, NEW status \in {"success", "failed"},
             NEW type \in {"WithdrawalFeeIncome", "WithdrawRefund"},
             type = (IF status = "success" THEN "WithdrawalFeeIncome" ELSE "WithdrawRefund"),
             NEW E, Becomes(w, r, status), events' = events \cup E,
             (HasFee(r) \/ status = "failed") => \E e \in Events : E = {e} /\ e.type = type /\ e.source = w.id,
             ~(HasFee(r) \/ status = "failed") => E = {}
      PROVE  \A x \in withdrawals' : Settled(x)'
  <2>1. /\ w.status = "pending" /\ r.id = w.id /\ r.event = w.event /\ r.status = status
        /\ withdrawals' = (withdrawals \ {w}) \cup {r}
    BY <1>5 DEF Becomes
  <2>2. \A e \in E : e.type = type /\ e.source = w.id
    BY <1>5
  <2>3. \A x \in withdrawals \ {w} : x.id # w.id
    BY <1>1 DEF RowIds
  <2>4. \A x \in withdrawals \ {w} : Settled(x)'
    BY <1>5, <2>2, <2>3, SettledKept
  <2>5. /\ {e.id : e \in With("Withdraw", w.id)} = {w.event}
        /\ With("WithdrawalFeeIncome", w.id) = {} /\ With("WithdrawRefund", w.id) = {}
    BY <2>1 DEF Settled, HasFee
  <2>6. /\ With("Withdraw", w.id)' = With("Withdraw", w.id)
        /\ With(type, w.id)' = E
        /\ \A t \in {"WithdrawalFeeIncome", "WithdrawRefund"} \ {type} : With(t, w.id)' = {}
    BY <1>5, <2>2, <2>5 DEF With
  <2>7. Settled(r)'
    <3>1. CASE HasFee(r)
      BY <1>5, <2>1, <2>5, <2>6, <3>1 DEF Settled, HasFee
    <3>2. CASE status = "failed"
      BY <1>5, <2>1, <2>5, <2>6, <3>2 DEF Settled, HasFee
    <3>3. CASE status = "success" /\ ~HasFee(r)
      BY <1>5, <2>1, <2>5, <2>6, <3>3 DEF Settled, HasFee
    <3> QED
      BY <3>1, <3>2, <3>3
  <2> QED
    BY <2>1, <2>4, <2>7
<1>6. ASSUME NEW u \in Users, NEW w \in withdrawals, NEW r \in Rows, Paid(u, w, r)
      PROVE  \A x \in withdrawals' : Settled(x)'
  <2>1. /\ Becomes(w, r, "success") /\ events' = events \cup tx[u].events
        /\ Fee[w.auth.network] = 0 => tx[u].events = {}
        /\ Fee[w.auth.network] > 0 =>
             \E e \in Events : tx[u].events = {e} /\ e.type = "WithdrawalFeeIncome" /\ e.source = w.id
    BY <1>6 DEF Paid
  <2>2. r.status = "success" /\ r.auth = w.auth
    BY <2>1 DEF Becomes
  <2>3. Fee[w.auth.network] \in Nat
    BY RowTyped DEF Inv
  <2>4. /\ HasFee(r) => \E e \in Events : tx[u].events = {e} /\ e.type = "WithdrawalFeeIncome" /\ e.source = w.id
        /\ ~HasFee(r) => tx[u].events = {}
    BY <2>1, <2>2, <2>3 DEF HasFee
  <2> QED
    BY <1>5, <2>1, <2>4
<1>7. ASSUME NEW u \in Users, NEW w \in withdrawals, NEW r \in Rows, NEW e \in Events, Refunded(u, w, r, e)
      PROVE  \A x \in withdrawals' : Settled(x)'
  <2>1. /\ Becomes(w, r, "failed") /\ events' = events \cup {e}
        /\ e.type = "WithdrawRefund" /\ e.source = w.id
    BY <1>7 DEF Refunded
  <2> QED
    BY <1>5, <2>1
<1> QED
  BY <1>2, <1>3, <1>4, <1>6, <1>7, StepOfTables DEF Commits

\* Whatever the wallet repeats and however its calls race with the others, a
\* withdrawal is paid or refunded once, and its events say which.
THEOREM WithdrawalsSettledOnce == Spec => []SettledOnce
<1> DEFINE J == Inv /\ \A w \in withdrawals : Settled(w)
<1>1. Init => J
  BY InvInit DEF Init
<1>2. J /\ [Next]_vars => J'
  BY InvNext, SettledNext
<1>3. J => SettledOnce
  BY SettledCounts
<1> QED
  BY <1>1, <1>2, <1>3, PTL DEF Spec

-----------------------------------------------------------------------------
(* Sums over events and over withdrawals.                                  *)

\* A sum over events grows by the amount of one that is added.
LEMMA SumAdd ==
  ASSUME NEW S \in SUBSET Events, IsFiniteSet(S), NEW e \in Events, e \notin S
  PROVE  Sum(S \cup {e}) = Sum(S) + e.amount /\ Sum(S) \in Nat
<1> DEFINE f == [x \in S |-> x.amount]
           g == [x \in S \cup {e} |-> x.amount]
<1>1. f \in [S -> Nat] /\ g \in [S \cup {e} -> Nat] /\ (\A x \in S : f[x] = g[x]) /\ g[e] = e.amount
  BY DEF Events
<1> HIDE DEF f, g
<1>2. Total(g) = Total(f) + g[e]
  BY <1>1, TotalExtend
<1>3. Total(f) \in Nat
  BY <1>1, TotalBounds
<1> QED
  BY <1>1, <1>2, <1>3 DEF Sum, f, g

\* What is promised grows by the total of a row that is added.
LEMMA PromisedAdd ==
  ASSUME NEW S \in SUBSET Rows, IsFiniteSet(S), NEW r \in Rows, r \notin S
  PROVE  Promised(S \cup {r}) = Promised(S) + WithFee(r.auth) /\ Promised(S) \in Nat
<1> DEFINE f == [x \in S |-> WithFee(x.auth)]
           g == [x \in S \cup {r} |-> WithFee(x.auth)]
<1>1. \A x \in Rows : WithFee(x.auth) \in Nat
  BY AuthTyped DEF Rows
<1>2. f \in [S -> Nat] /\ g \in [S \cup {r} -> Nat] /\ (\A x \in S : f[x] = g[x]) /\ g[r] = WithFee(r.auth)
  BY <1>1
<1> HIDE DEF f, g
<1>3. Total(g) = Total(f) + g[r] /\ Total(f) \in Nat
  BY <1>2, TotalExtend, TotalBounds
<1> QED
  BY <1>2, <1>3 DEF Promised, f, g

\* And shrinks by that of one that is removed.
LEMMA PromisedRemove ==
  ASSUME NEW S \in SUBSET Rows, IsFiniteSet(S), NEW r \in S
  PROVE  /\ Promised(S) = Promised(S \ {r}) + WithFee(r.auth)
         /\ Promised(S) \in Nat /\ Promised(S \ {r}) \in Nat
<1>1. S \ {r} \in SUBSET Rows /\ IsFiniteSet(S \ {r}) /\ r \in Rows /\ r \notin S \ {r}
  BY FS_RemoveElement
<1>2. (S \ {r}) \cup {r} = S
  OBVIOUS
<1>3. WithFee(r.auth) \in Nat
  BY AuthTyped DEF Rows
<1> QED
  BY <1>1, <1>2, <1>3, PromisedAdd

\* Fewer rows promise no more, and fewer events sum to no more.
LEMMA SumsOfSubsets ==
  ASSUME TRUE
  PROVE  /\ \A S \in SUBSET Events : \A T \in SUBSET S : IsFiniteSet(S) =>
              Sum(T) <= Sum(S) /\ Sum(T) \in Nat /\ Sum(S) \in Nat
         /\ \A S \in SUBSET Rows : \A T \in SUBSET S : IsFiniteSet(S) =>
              Promised(T) <= Promised(S) /\ Promised(T) \in Nat /\ Promised(S) \in Nat
<1>1. ASSUME NEW S \in SUBSET Events, NEW T \in SUBSET S, IsFiniteSet(S)
      PROVE  Sum(T) <= Sum(S) /\ Sum(T) \in Nat /\ Sum(S) \in Nat
  <2> DEFINE f == [x \in S |-> x.amount]
             g == [x \in T |-> x.amount]
  <2>1. f \in [S -> Nat] /\ g \in [T -> Nat] /\ \A x \in T : f[x] = g[x]
    BY DEF Events
  <2> HIDE DEF f, g
  <2>2. Total(g) <= Total(f) /\ Total(g) \in Nat /\ Total(f) \in Nat
    BY <1>1, <2>1, TotalSubset
  <2> QED
    BY <2>2 DEF Sum, f, g
<1>2. ASSUME NEW S \in SUBSET Rows, NEW T \in SUBSET S, IsFiniteSet(S)
      PROVE  Promised(T) <= Promised(S) /\ Promised(T) \in Nat /\ Promised(S) \in Nat
  <2> DEFINE f == [x \in S |-> WithFee(x.auth)]
             g == [x \in T |-> WithFee(x.auth)]
  <2>1. \A x \in Rows : WithFee(x.auth) \in Nat
    BY AuthTyped DEF Rows
  <2>2. f \in [S -> Nat] /\ g \in [T -> Nat] /\ \A x \in T : f[x] = g[x]
    BY <2>1
  <2> HIDE DEF f, g
  <2>3. Total(g) <= Total(f) /\ Total(g) \in Nat /\ Total(f) \in Nat
    BY <1>2, <2>2, TotalSubset
  <2> QED
    BY <2>3 DEF Promised, f, g
<1> QED
  BY <1>1, <1>2

-----------------------------------------------------------------------------
(* The ledger.                                                             *)

NonFailed(u) == {w \in withdrawals : w.auth.user = u /\ w.status # "failed"}

\* The account is explained by the events, and what is available by the
\* earnings less the withdrawals that have not failed.
Explained(u) ==
  /\ account[u].available + Sum(Of(u, "Withdraw")) = Sum(Of(u, "TaskIncome")) + Sum(Of(u, "WithdrawRefund"))
  /\ account[u].locked = Promised(Mine(u, "pending"))

Balanced(u) == account[u].available + Promised(NonFailed(u)) = Sum(Of(u, "TaskIncome"))

\* The sets that are summed are finite, and the sums numbers.
LEMMA SumsTyped ==
  ASSUME Inv, NEW u \in Users
  PROVE  /\ \A type \in EventTypes : /\ Of(u, type) \in SUBSET Events /\ IsFiniteSet(Of(u, type))
                                     /\ Sum(Of(u, type)) \in Nat
         /\ Mine(u, "pending") \in SUBSET Rows /\ IsFiniteSet(Mine(u, "pending"))
         /\ Promised(Mine(u, "pending")) \in Nat
         /\ NonFailed(u) \in SUBSET Rows /\ IsFiniteSet(NonFailed(u)) /\ Promised(NonFailed(u)) \in Nat
         /\ account[u].available \in Nat /\ account[u].locked \in Nat
<1>1. events \in SUBSET Events /\ withdrawals \in SUBSET Rows /\ IsFiniteSet(events) /\ IsFiniteSet(withdrawals)
  BY DEF Inv, TypeOK
<1>2. \A type \in EventTypes : Of(u, type) \in SUBSET events
  BY DEF Of
<1>3. Mine(u, "pending") \in SUBSET withdrawals /\ NonFailed(u) \in SUBSET withdrawals
  BY DEF Mine, NonFailed
<1>4. \A type \in EventTypes : IsFiniteSet(Of(u, type))
  BY <1>1, <1>2, FS_Subset
<1>5. IsFiniteSet(Mine(u, "pending")) /\ IsFiniteSet(NonFailed(u))
  BY <1>1, <1>3, FS_Subset
<1>6. account[u].available \in Nat /\ account[u].locked \in Nat
  BY DEF Inv, TypeOK, EarningAccounts
<1> QED
  BY <1>1, <1>2, <1>3, <1>4, <1>5, <1>6, SumsOfSubsets

\* A commit of another user's changes nothing of what is u's.
LEMMA LedgerOfOthers ==
  ASSUME Inv, NEW u \in Users, Commits(u), NEW v \in Users, v # u
  PROVE  /\ \A type \in EventTypes : Of(v, type)' = Of(v, type)
         /\ Mine(v, "pending")' = Mine(v, "pending") /\ NonFailed(v)' = NonFailed(v)
         /\ account'[v] = account[v]
<1> DEFINE Same == /\ \A type \in EventTypes : Of(v, type)' = Of(v, type)
                   /\ Mine(v, "pending")' = Mine(v, "pending") /\ NonFailed(v)' = NonFailed(v)
<1>1. ASSUME \A e : e.user = v => (e \in events <=> e \in events'),
             \A w : w.auth.user = v => (w \in withdrawals <=> w \in withdrawals')
      PROVE  Same
  BY <1>1 DEF Of, Mine, NonFailed
<1> HIDE DEF Same
<1>2. ASSUME NEW e \in Events, Earned(u, e) PROVE Same
  BY <1>1, <1>2 DEF Earned
<1>3. ASSUME NEW a \in Auths, NEW r \in Rows, NEW e \in Events, Requested(u, a, r, e) PROVE Same
  BY <1>1, <1>3 DEF Requested
<1>4. ASSUME NEW w \in withdrawals, NEW r \in Rows, Paid(u, w, r) PROVE Same
  <2>1. Fee[w.auth.network] = 0 \/ Fee[w.auth.network] > 0
    BY RowTyped DEF Inv
  <2> QED
    BY <1>1, <1>4, <2>1 DEF Paid, Becomes
<1>5. ASSUME NEW w \in withdrawals, NEW r \in Rows, NEW e \in Events, Refunded(u, w, r, e) PROVE Same
  BY <1>1, <1>5 DEF Refunded, Becomes
<1>6. Same /\ account'[v] = account[v]
  BY <1>2, <1>3, <1>4, <1>5 DEF Commits, Ends
<1> QED
  BY <1>6 DEF Same

\* A commit of u's changes one term on each side.
LEMMA LedgerCommits ==
  ASSUME Inv, NEW u \in Users, Commits(u), Explained(u), Balanced(u)
  PROVE  Explained(u)' /\ Balanced(u)'
<1>1. /\ EventIds /\ RowIds /\ events \in SUBSET Events /\ withdrawals \in SUBSET Rows
      /\ IsFiniteSet(events) /\ IsFiniteSet(withdrawals)
  BY DEF Inv, TypeOK
<1>2. /\ \A type \in EventTypes : /\ Of(u, type) \in SUBSET Events /\ IsFiniteSet(Of(u, type))
                                  /\ Sum(Of(u, type)) \in Nat
      /\ Mine(u, "pending") \in SUBSET Rows /\ IsFiniteSet(Mine(u, "pending"))
      /\ Promised(Mine(u, "pending")) \in Nat
      /\ NonFailed(u) \in SUBSET Rows /\ IsFiniteSet(NonFailed(u)) /\ Promised(NonFailed(u)) \in Nat
      /\ account[u].available \in Nat /\ account[u].locked \in Nat
  BY SumsTyped
<1>3. /\ account[u].available + Sum(Of(u, "Withdraw")) = Sum(Of(u, "TaskIncome")) + Sum(Of(u, "WithdrawRefund"))
      /\ account[u].locked = Promised(Mine(u, "pending"))
      /\ account[u].available + Promised(NonFailed(u)) = Sum(Of(u, "TaskIncome"))
  BY DEF Explained, Balanced
<1>4. /\ Sum(Of(u, "Withdraw")) \in Nat /\ Sum(Of(u, "TaskIncome")) \in Nat /\ Sum(Of(u, "WithdrawRefund")) \in Nat
  BY <1>2 DEF EventTypes
<1> DEFINE W == Sum(Of(u, "Withdraw"))
           I == Sum(Of(u, "TaskIncome"))
           R == Sum(Of(u, "WithdrawRefund"))
           P == Promised(Mine(u, "pending"))
           N == Promised(NonFailed(u))
<1>5. ASSUME account'[u].available + W' = I' + R', account'[u].locked = P', account'[u].available + N' = I'
      PROVE  Explained(u)' /\ Balanced(u)'
  BY <1>5 DEF Explained, Balanced
<1>6. ASSUME NEW e \in Events, Earned(u, e) PROVE Explained(u)' /\ Balanced(u)'
  <2>1. /\ tx[u].events = {e} /\ e.type = "TaskIncome" /\ e.user = u
        /\ events' = events \cup {e} /\ withdrawals' = withdrawals
        /\ account'[u].available = account[u].available + e.amount /\ account'[u].locked = account[u].locked
        /\ e.amount \in Nat
    BY <1>6 DEF Earned, Events
  <2>2. e \notin events
    BY <1>1, <2>1 DEF EventIds
  <2>3. /\ Of(u, "TaskIncome")' = Of(u, "TaskIncome") \cup {e} /\ e \notin Of(u, "TaskIncome")
        /\ Of(u, "Withdraw")' = Of(u, "Withdraw") /\ Of(u, "WithdrawRefund")' = Of(u, "WithdrawRefund")
        /\ Mine(u, "pending")' = Mine(u, "pending") /\ NonFailed(u)' = NonFailed(u)
    BY <2>1, <2>2 DEF Of, Mine, NonFailed
  <2>4. I' = I + e.amount
    BY <1>2, <2>3, SumAdd DEF EventTypes
  <2>5. W' = W /\ R' = R /\ P' = P /\ N' = N
    BY <2>3
  <2> HIDE DEF I, W, R, P, N
  <2> QED
    BY <1>2, <1>3, <1>4, <1>5, <2>1, <2>4, <2>5 DEF I, W, R, P, N
<1>7. ASSUME NEW a \in Auths, NEW r \in Rows, NEW e \in Events, Requested(u, a, r, e)
      PROVE  Explained(u)' /\ Balanced(u)'
  <2>1. /\ tx[u].events = {e} /\ tx[u].rows = {r} /\ tx[u].auth = {a} /\ e.type = "Withdraw" /\ e.user = u
        /\ a.user = u /\ r.auth = a /\ r.status = "pending" /\ e.amount = WithFee(a) /\ Covered(a)
        /\ events' = events \cup {e} /\ withdrawals' = withdrawals \cup {r}
        /\ account'[u].available = account[u].available - WithFee(a)
        /\ account'[u].locked = account[u].locked + WithFee(a)
    BY <1>7 DEF Requested
  <2>2. e \notin events /\ r \notin withdrawals
    BY <1>1, <2>1 DEF EventIds, RowIds
  <2>3. /\ Of(u, "Withdraw")' = Of(u, "Withdraw") \cup {e} /\ e \notin Of(u, "Withdraw")
        /\ Of(u, "TaskIncome")' = Of(u, "TaskIncome") /\ Of(u, "WithdrawRefund")' = Of(u, "WithdrawRefund")
        /\ Mine(u, "pending")' = Mine(u, "pending") \cup {r} /\ r \notin Mine(u, "pending")
        /\ NonFailed(u)' = NonFailed(u) \cup {r} /\ r \notin NonFailed(u)
    BY <2>1, <2>2 DEF Of, Mine, NonFailed
  <2>4. W' = W + e.amount
    BY <1>2, <2>3, SumAdd DEF EventTypes
  <2>5. P' = P + WithFee(a) /\ N' = N + WithFee(a)
    BY <1>2, <2>1, <2>3, PromisedAdd
  <2>6. I' = I /\ R' = R
    BY <2>3
  <2>7. WithFee(a) \in Nat /\ e.amount = WithFee(a) /\ account[u].available >= WithFee(a)
    BY <2>1, AuthTyped DEF Covered
  <2> HIDE DEF I, W, R, P, N
  <2> QED
    BY <1>2, <1>3, <1>4, <1>5, <2>1, <2>4, <2>5, <2>6, <2>7 DEF I, W, R, P, N
<1>8. ASSUME NEW w \in withdrawals, NEW r \in Rows, Paid(u, w, r) PROVE Explained(u)' /\ Balanced(u)'
  <2>1. /\ w.auth.user = u /\ w.status = "pending" /\ r.auth = w.auth /\ r.status = "success" /\ r.id = w.id
        /\ withdrawals' = (withdrawals \ {w}) \cup {r} /\ events' = events \cup tx[u].events
        /\ account'[u].available = account[u].available
        /\ account'[u].locked = account[u].locked - WithFee(w.auth)
    BY <1>8 DEF Paid, Becomes
  <2>2. \A e \in tx[u].events : e.type = "WithdrawalFeeIncome"
    <3>1. Fee[w.auth.network] = 0 \/ Fee[w.auth.network] > 0
      BY RowTyped DEF Inv
    <3> QED
      BY <1>8, <3>1 DEF Paid
  <2>3. r \notin withdrawals
    BY <1>1, <2>1 DEF RowIds
  <2>4. /\ Of(u, "Withdraw")' = Of(u, "Withdraw") /\ Of(u, "TaskIncome")' = Of(u, "TaskIncome")
        /\ Of(u, "WithdrawRefund")' = Of(u, "WithdrawRefund")
    BY <2>1, <2>2 DEF Of
  <2>5. /\ Mine(u, "pending")' = Mine(u, "pending") \ {w} /\ w \in Mine(u, "pending")
        /\ NonFailed(u)' = (NonFailed(u) \ {w}) \cup {r} /\ w \in NonFailed(u) /\ r \notin NonFailed(u)
    BY <2>1, <2>3 DEF Mine, NonFailed
  <2>6. P = P' + WithFee(w.auth) /\ P' \in Nat
    BY <1>2, <2>5, PromisedRemove
  <2>7. N' = N
    <3>1. N = Promised(NonFailed(u) \ {w}) + WithFee(w.auth)
      BY <1>2, <2>5, PromisedRemove
    <3>2. NonFailed(u) \ {w} \in SUBSET Rows /\ IsFiniteSet(NonFailed(u) \ {w}) /\ r \notin NonFailed(u) \ {w}
      BY <1>2, <2>5, FS_RemoveElement
    <3>3. N' = Promised(NonFailed(u) \ {w}) + WithFee(r.auth)
      BY <2>5, <3>2, PromisedAdd
    <3> QED
      BY <2>1, <3>1, <3>3
  <2>8. I' = I /\ R' = R /\ W' = W
    BY <2>4
  <2>9. WithFee(w.auth) \in Nat
    BY RowTyped, AuthTyped DEF Inv
  <2> HIDE DEF I, W, R, P, N
  <2> QED
    BY <1>2, <1>3, <1>4, <1>5, <2>1, <2>6, <2>7, <2>8, <2>9 DEF I, W, R, P, N
<1>9. ASSUME NEW w \in withdrawals, NEW r \in Rows, NEW e \in Events, Refunded(u, w, r, e)
      PROVE  Explained(u)' /\ Balanced(u)'
  <2>1. /\ w.auth.user = u /\ w.status = "pending" /\ r.auth = w.auth /\ r.status = "failed" /\ r.id = w.id
        /\ withdrawals' = (withdrawals \ {w}) \cup {r} /\ events' = events \cup {e} /\ tx[u].events = {e}
        /\ e.type = "WithdrawRefund" /\ e.user = u /\ e.amount = WithFee(w.auth)
        /\ account'[u].available = account[u].available + WithFee(w.auth)
        /\ account'[u].locked = account[u].locked - WithFee(w.auth)
    BY <1>9 DEF Refunded, Becomes
  <2>2. e \notin events
    BY <1>1, <2>1 DEF EventIds
  <2>3. /\ Of(u, "Withdraw")' = Of(u, "Withdraw") /\ Of(u, "TaskIncome")' = Of(u, "TaskIncome")
        /\ Of(u, "WithdrawRefund")' = Of(u, "WithdrawRefund") \cup {e} /\ e \notin Of(u, "WithdrawRefund")
    BY <2>1, <2>2 DEF Of
  <2>4. /\ Mine(u, "pending")' = Mine(u, "pending") \ {w} /\ w \in Mine(u, "pending")
        /\ NonFailed(u)' = NonFailed(u) \ {w} /\ w \in NonFailed(u)
    BY <2>1 DEF Mine, NonFailed
  <2>5. P = P' + WithFee(w.auth) /\ P' \in Nat /\ N = N' + WithFee(w.auth) /\ N' \in Nat
    BY <1>2, <2>4, PromisedRemove
  <2>6. R' = R + e.amount
    BY <1>2, <2>3, SumAdd DEF EventTypes
  <2>7. I' = I /\ W' = W
    BY <2>3
  <2>8. WithFee(w.auth) \in Nat
    BY RowTyped, AuthTyped DEF Inv
  <2> HIDE DEF I, W, R, P, N
  <2> QED
    BY <1>2, <1>3, <1>4, <1>5, <2>1, <2>5, <2>6, <2>7, <2>8 DEF I, W, R, P, N
<1> QED
  BY <1>6, <1>7, <1>8, <1>9 DEF Commits

\* The accounts, their events and their withdrawals move together.
LEMMA LedgerNext ==
  ASSUME Inv, [Next]_vars, \A u \in Users : Explained(u) /\ Balanced(u)
  PROVE  \A u \in Users : Explained(u)' /\ Balanced(u)'
<1>1. CASE UNCHANGED tables
  BY <1>1 DEF tables, Explained, Balanced, Of, Mine, NonFailed
<1>2. ASSUME NEW u \in Users, Commits(u), NEW v \in Users PROVE Explained(v)' /\ Balanced(v)'
  <2>1. CASE v = u
    BY <1>2, <2>1, LedgerCommits
  <2>2. CASE v # u
    <3>1. /\ Of(v, "Withdraw")' = Of(v, "Withdraw") /\ Of(v, "TaskIncome")' = Of(v, "TaskIncome")
          /\ Of(v, "WithdrawRefund")' = Of(v, "WithdrawRefund")
          /\ Mine(v, "pending")' = Mine(v, "pending") /\ NonFailed(v)' = NonFailed(v)
          /\ account'[v] = account[v]
      BY <1>2, <2>2, LedgerOfOthers DEF EventTypes
    <3> QED
      BY <3>1 DEF Explained, Balanced
  <2> QED
    BY <2>1, <2>2
<1> QED
  BY <1>1, <1>2, StepOfTables

\* Nothing sums to nothing.
LEMMA EmptySums == Sum({}) = 0 /\ Promised({}) = 0
<1> DEFINE f == [e \in {} |-> e.amount]
           g == [w \in {} |-> WithFee(w.auth)]
<1>1. f \in [{} -> Nat] /\ g \in [{} -> Nat]
  OBVIOUS
<1> HIDE DEF f, g
<1>2. Total(f) = 0 /\ Total(g) = 0
  BY <1>1, TotalZero
<1> QED
  BY <1>2 DEF Sum, Promised, f, g

\* It starts with empty accounts and no rows.
LEMMA LedgerInit == Init => \A u \in Users : Explained(u) /\ Balanced(u)
<1> SUFFICES ASSUME Init, NEW u \in Users PROVE Explained(u) /\ Balanced(u)
  OBVIOUS
<1>1. /\ Of(u, "Withdraw") = {} /\ Of(u, "TaskIncome") = {} /\ Of(u, "WithdrawRefund") = {}
      /\ Mine(u, "pending") = {} /\ NonFailed(u) = {}
      /\ account[u].available = 0 /\ account[u].locked = 0
  BY DEF Init, Of, Mine, NonFailed
<1> QED
  BY <1>1, EmptySums DEF Explained, Balanced

\* The events and the pending withdrawals of a Key Owner explain every amount of
\* the account: nothing is earned, spent, refunded or locked twice or never.
THEOREM AccountExplained == Spec => []LedgerExplainsAccount
<1> DEFINE J == Inv /\ \A u \in Users : Explained(u) /\ Balanced(u)
<1>1. Init => J
  BY InvInit, LedgerInit
<1>2. J /\ [Next]_vars => J'
  BY InvNext, LedgerNext
<1>3. J => LedgerExplainsAccount
  BY DEF LedgerExplainsAccount, Explained
<1> QED
  BY <1>1, <1>2, <1>3, PTL DEF Spec

-----------------------------------------------------------------------------
(* The daily limits.                                                       *)

\* The rows that count, among those of some messages and days.
Counting(rows, keys) == {w \in rows : <<w.auth, w.day>> \in keys /\ w.status # "failed"}

UserKeys(a, start) ==
  {k \in Auths \X Nat : k[1].user = a.user /\ k[1].network = a.network /\ k[2] >= start}
BenefitKeys(a, start) ==
  {k \in Auths \X Nat : k[1].to = a.to /\ k[1].network = a.network /\ k[2] >= start}
OnDay(keys, day) == {k \in keys : k[2] = day}

InLimit(a, keys) == Cardinality(Counting(withdrawals, keys)) <= MaxPerDay[a.network]
BelowLimit(a, keys) == Cardinality(Counting(withdrawals, keys)) < MaxPerDay[a.network]

\* What the create of a by u has checked, as long as it is open.
Checked(u, a) ==
  /\ tx[u].start <= Today
  /\ BelowLimit(a, UserKeys(a, tx[u].start))
  /\ tx[u].step # "ranged" => BelowLimit(a, BenefitKeys(a, tx[u].start))
  /\ \A r \in tx[u].rows : r.day >= tx[u].start

\* Two creates that share a benefit address: only one can have inserted its row,
\* and then the other has not counted yet.
Apart(u, a, v, b) ==
  tx[u].step # "ranged" /\ tx[v].step = "written" => ~(a.to = b.to /\ a.network = b.network)

LimitsHeld ==
  /\ \A a \in Auths, day \in Nat : /\ InLimit(a, OnDay(UserKeys(a, day), day))
                                   /\ InLimit(a, OnDay(BenefitKeys(a, day), day))
  /\ \A u \in Users : \A a \in tx[u].auth :
       /\ Checked(u, a)
       /\ \A v \in Users \ {u} : \A b \in tx[v].auth : Apart(u, a, v, b)

\* The ranges of the code are such rows.
LEMMA RangesCount ==
  ASSUME TypeOK, NEW a \in Auths, NEW start \in Nat
  PROVE  /\ Counted(UserRange(a, start)) = Cardinality(Counting(withdrawals, UserKeys(a, start)))
         /\ Counted(BenefitRange(a, start)) = Cardinality(Counting(withdrawals, BenefitKeys(a, start)))
<1>1. {w \in UserRange(a, start) : w.status # "failed"} = Counting(withdrawals, UserKeys(a, start))
  BY RowTyped DEF UserRange, UserKeys, Counting
<1>2. {w \in BenefitRange(a, start) : w.status # "failed"} = Counting(withdrawals, BenefitKeys(a, start))
  BY RowTyped DEF BenefitRange, BenefitKeys, Counting
<1> QED
  BY <1>1, <1>2 DEF Counted

\* So every day is within its limits.
LEMMA LimitsSuffice ==
  ASSUME TypeOK, LimitsHeld
  PROVE  DailyLimits
<1> SUFFICES ASSUME NEW w \in withdrawals
             PROVE  /\ Counted({x \in UserRange(w.auth, w.day) : x.day = w.day}) <= MaxPerDay[w.auth.network]
                    /\ Counted({x \in BenefitRange(w.auth, w.day) : x.day = w.day}) <= MaxPerDay[w.auth.network]
  BY DEF DailyLimits
<1>1. w.auth \in Auths /\ w.day \in Nat
  BY RowTyped
<1>2. {y \in {x \in UserRange(w.auth, w.day) : x.day = w.day} : y.status # "failed"}
        = Counting(withdrawals, OnDay(UserKeys(w.auth, w.day), w.day))
  BY <1>1, RowTyped DEF UserRange, UserKeys, Counting, OnDay
<1>3. {y \in {x \in BenefitRange(w.auth, w.day) : x.day = w.day} : y.status # "failed"}
        = Counting(withdrawals, OnDay(BenefitKeys(w.auth, w.day), w.day))
  BY <1>1, RowTyped DEF BenefitRange, BenefitKeys, Counting, OnDay
<1> QED
  BY <1>1, <1>2, <1>3 DEF LimitsHeld, InLimit, Counted

\* Counting rows of a finite set gives a number, and one of fewer keys no more.
LEMMA CountingFinite ==
  ASSUME NEW rows, IsFiniteSet(rows), NEW keys
  PROVE  IsFiniteSet(Counting(rows, keys)) /\ Cardinality(Counting(rows, keys)) \in Nat
<1>1. Counting(rows, keys) \subseteq rows
  BY DEF Counting
<1> QED
  BY <1>1, FS_Subset, FS_CardinalityType

\* One row more is counted at most once.
LEMMA CountingAdd ==
  ASSUME NEW rows, IsFiniteSet(rows), NEW r, NEW keys, NEW more, keys \subseteq more
  PROVE  Cardinality(Counting(rows \cup {r}, keys)) <= Cardinality(Counting(rows, more)) + 1
<1> DEFINE S == Counting(rows, more)
           T == Counting(rows \cup {r}, keys)
<1>1. IsFiniteSet(S) /\ Cardinality(S) \in Nat
  BY CountingFinite
<1>2. T \subseteq S \cup {r}
  BY DEF Counting
<1> HIDE DEF S, T
<1>3. /\ IsFiniteSet(S \cup {r})
      /\ Cardinality(S \cup {r}) = Cardinality(S) \/ Cardinality(S \cup {r}) = Cardinality(S) + 1
  BY <1>1, FS_AddElement
<1>4. Cardinality(T) <= Cardinality(S \cup {r}) /\ Cardinality(T) \in Nat
  BY <1>2, <1>3, FS_Subset, FS_CardinalityType
<1>5. Cardinality(T) <= Cardinality(S) + 1
  BY <1>1, <1>3, <1>4
<1> QED
  BY <1>5 DEF S, T

\* A row that is settled is counted once or no longer.
LEMMA CountingSettled ==
  ASSUME NEW rows, IsFiniteSet(rows), NEW w \in rows, w.status = "pending",
         NEW r, r.auth = w.auth, r.day = w.day, NEW keys
  PROVE  Cardinality(Counting((rows \ {w}) \cup {r}, keys)) <= Cardinality(Counting(rows, keys))
<1> DEFINE S == Counting(rows, keys)
           T == Counting((rows \ {w}) \cup {r}, keys)
<1>1. IsFiniteSet(S) /\ Cardinality(S) \in Nat
  BY CountingFinite
<1>2. CASE w \in S
  <2>1. IsFiniteSet(rows \ {w})
    BY FS_RemoveElement
  <2>2. Counting(rows \ {w}, keys) = S \ {w}
    BY DEF Counting
  <2>3. Cardinality(T) <= Cardinality(S \ {w}) + 1
    BY <2>1, <2>2, CountingAdd
  <2>4. Cardinality(S \ {w}) = Cardinality(S) - 1
    BY <1>1, <1>2, FS_RemoveElement
  <2>5. IsFiniteSet((rows \ {w}) \cup {r})
    BY <2>1, FS_AddElement
  <2>6. Cardinality(T) \in Nat
    BY <2>5, CountingFinite
  <2> HIDE DEF S, T
  <2>7. Cardinality(T) <= Cardinality(S)
    BY <1>1, <2>3, <2>4, <2>6
  <2> QED
    BY <2>7 DEF S, T
<1>3. CASE w \notin S
  <2>1. <<w.auth, w.day>> \notin keys
    BY <1>3 DEF Counting
  <2>2. T \subseteq S
    BY <2>1 DEF Counting
  <2>3. Cardinality(T) <= Cardinality(S)
    BY <1>1, <2>2, FS_Subset
  <2> QED
    BY <2>3
<1> QED
  BY <1>2, <1>3

\* A day begins no earlier when the clock goes on.
LEMMA DaysPass ==
  ASSUME now \in Nat, now' \in Nat, now <= now'
  PROVE  Today <= Today' /\ Today \in Nat /\ Today' \in Nat
<1>1. DayLength \in Nat /\ DayLength > 0
  BY WithdrawalsAssumption
<1>2. \A x, y \in Nat : x <= y => x \div DayLength <= y \div DayLength /\ x \div DayLength \in Nat
  BY <1>1
<1> QED
  BY <1>2 DEF Today

\* What a step inside a transaction must see to, for the limits.
LEMMA LimitsWorks ==
  ASSUME Inv, LimitsHeld, NEW u \in Users, Works(u), UNCHANGED now,
         \A a \in tx'[u].auth : /\ Checked(u, a)'
                                /\ \A v \in Users \ {u} : \A b \in tx[v].auth : Apart(u, a, v, b)' /\ Apart(v, b, u, a)'
  PROVE  LimitsHeld'
<1>1. UNCHANGED withdrawals /\ \A v \in Users \ {u} : tx'[v] = tx[v]
  BY DEF Works, tables, Others
<1>2. \A a \in Auths, day \in Nat : /\ InLimit(a, OnDay(UserKeys(a, day), day))'
                                    /\ InLimit(a, OnDay(BenefitKeys(a, day), day))'
  BY <1>1 DEF LimitsHeld, InLimit
<1>3. \A v \in Users \ {u} : \A b \in tx[v].auth : Checked(v, b)'
  BY <1>1 DEF LimitsHeld, Checked, BelowLimit, Today
<1>4. \A v \in Users \ {u} : \A b \in tx[v].auth : \A x \in Users \ {u, v} : \A c \in tx[x].auth : Apart(v, b, x, c)'
  BY <1>1 DEF LimitsHeld, Apart
<1>5. ASSUME NEW v \in Users, NEW b \in tx'[v].auth
      PROVE  Checked(v, b)' /\ \A x \in Users \ {v} : \A c \in tx'[x].auth : Apart(v, b, x, c)'
  <2>1. CASE v = u
    BY <1>1, <1>5, <2>1
  <2>2. CASE v # u
    <3>1. b \in tx[v].auth /\ \A x \in Users \ {u} : tx'[x].auth = tx[x].auth
      BY <1>1, <1>5, <2>2
    <3> QED
      BY <1>3, <1>4, <2>2, <3>1
  <2> QED
    BY <2>1, <2>2
<1> QED
  BY <1>2, <1>5 DEF LimitsHeld

\* A transaction with nothing to check for the limits.
LEMMA LimitsWithoutCreate ==
  ASSUME Inv, LimitsHeld, NEW u \in Users, Works(u), UNCHANGED now, tx'[u].auth = {}
  PROVE  LimitsHeld'
BY LimitsWorks

\* The first locking read.
LEMMA LimitsBegin ==
  ASSUME Inv, LimitsHeld, NEW a \in Auths, BeginCreate(a)
  PROVE  LimitsHeld'
<1> DEFINE u == a.user
<1>1. /\ Works(u) /\ tx'[u].step = "ranged" /\ tx'[u].auth = {a} /\ tx'[u].start = Today /\ tx'[u].rows = {}
      /\ now' = now
  BY BeginWorks DEF Inv
<1>2. u \in Users /\ TypeOK /\ Today \in Nat
  BY AuthTyped, WithdrawalsAssumption DEF Inv, TypeOK, Today
<1>3. Counted(UserRange(a, Today)) < MaxPerDay[a.network]
  BY DEF BeginCreate
<1>4. BelowLimit(a, UserKeys(a, Today))
  BY <1>2, <1>3, RangesCount DEF BelowLimit
<1>5. UNCHANGED withdrawals /\ Today' = Today
  BY <1>1 DEF Works, tables, Today
<1> HIDE DEF u
<1>6. Checked(u, a)'
  BY <1>1, <1>2, <1>4, <1>5 DEF Checked, BelowLimit
<1>7. \A v \in Users \ {u} : \A b \in tx[v].auth : Apart(u, a, v, b)' /\ Apart(v, b, u, a)'
  BY <1>1 DEF Apart
<1> QED
  BY <1>1, <1>2, <1>6, <1>7, LimitsWorks

\* The second, which has waited for the inserts of the others.
LEMMA LimitsLock ==
  ASSUME Inv, LimitsHeld, NEW a \in Auths, LockBenefitRange(a)
  PROVE  LimitsHeld'
<1> DEFINE u == a.user
<1>1. u \in Users /\ TypeOK /\ RowIds /\ \A v \in Users : WellFormed(v)
  BY AuthTyped DEF Inv
<1>2. /\ Works(u) /\ tx'[u].step = "covered" /\ tx'[u].auth = {a} /\ tx[u].auth = {a}
      /\ tx'[u].start = tx[u].start /\ tx'[u].rows = {} /\ now' = now
  BY <1>1, LockWorks
<1>3. UNCHANGED withdrawals /\ Today' = Today /\ tx[u].start \in Nat /\ \A v \in Users \ {u} : tx'[v] = tx[v]
  BY <1>1, <1>2 DEF Works, tables, Today, Others, TypeOK, Transactions
<1>4. NoneInserted(a) /\ Counted(BenefitRange(a, tx[u].start)) < MaxPerDay[a.network]
  BY DEF LockBenefitRange
<1>5. BelowLimit(a, BenefitKeys(a, tx[u].start))
  BY <1>1, <1>3, <1>4, RangesCount DEF BelowLimit
<1>6. Checked(u, a)
  BY <1>1, <1>2 DEF LimitsHeld
<1> HIDE DEF u
<1>7. Checked(u, a)'
  BY <1>2, <1>3, <1>5, <1>6 DEF Checked, BelowLimit
<1>8. ASSUME NEW v \in Users \ {u}, NEW b \in tx[v].auth PROVE Apart(u, a, v, b)' /\ Apart(v, b, u, a)'
  <2>1. Apart(v, b, u, a)'
    BY <1>2 DEF Apart
  <2>2. ASSUME tx[v].step = "written" PROVE ~(a.to = b.to /\ a.network = b.network)
    <3>1. Requests(v)
      BY <1>1, <1>8, <2>2 DEF WellFormed, Rests, Idle, Collects, Chooses, Pays, Refunds, Settles
    <3>2. PICK r \in tx[v].rows : r.auth = b /\ tx[v].auth # {}
      BY <1>8, <3>1 DEF Requests
    <3>3. \A w \in withdrawals : w.id # r.id
      BY <1>1, <3>2 DEF RowIds
    <3> QED
      BY <1>4, <1>8, <3>2, <3>3 DEF NoneInserted, u
  <2> QED
    BY <1>3, <2>1, <2>2 DEF Apart
<1> QED
  BY <1>1, <1>2, <1>7, <1>8, LimitsWorks

\* The insert, which has waited for the locking reads of the others.
LEMMA LimitsInsert ==
  ASSUME Inv, LimitsHeld, NEW a \in Auths, InsertWithdrawal(a)
  PROVE  LimitsHeld'
<1> DEFINE u == a.user
<1>1. u \in Users /\ TypeOK /\ \A v \in Users : WellFormed(v)
  BY AuthTyped DEF Inv
<1>2. /\ Works(u) /\ tx'[u].step = "written" /\ tx'[u].auth = {a} /\ tx[u].auth = {a} /\ tx[u].step = "covered"
      /\ tx'[u].start = tx[u].start /\ (\A r \in tx'[u].rows : r.day = Today) /\ now' = now
  BY <1>1, InsertWorks
<1>3. UNCHANGED withdrawals /\ Today' = Today /\ \A v \in Users \ {u} : tx'[v] = tx[v]
  BY <1>1, <1>2 DEF Works, tables, Today, Others
<1>4. Insertable(a)
  BY DEF InsertWithdrawal
<1>5. Checked(u, a)
  BY <1>1, <1>2 DEF LimitsHeld
<1> HIDE DEF u
<1>6. Checked(u, a)'
  BY <1>2, <1>3, <1>5 DEF Checked, BelowLimit
<1>7. ASSUME NEW v \in Users \ {u}, NEW b \in tx[v].auth PROVE Apart(u, a, v, b)' /\ Apart(v, b, u, a)'
  <2>1. Apart(u, a, v, b)
    BY <1>1, <1>2, <1>7 DEF LimitsHeld
  <2>2. tx[v].step # "ranged" => ~(b.to = a.to /\ b.network = a.network)
    BY <1>4, <1>7 DEF Insertable, u
  <2> QED
    BY <1>2, <1>3, <2>1, <2>2 DEF Apart
<1> QED
  BY <1>1, <1>2, <1>6, <1>7, LimitsWorks

\* A commit keeps what the others have checked; and the row of a create, when it
\* is seen, is one more than its transaction counted.
LEMMA LimitsCommits ==
  ASSUME Inv, LimitsHeld, NEW u \in Users, Commits(u)
  PROVE  LimitsHeld'
<1>1. /\ tx'[u].auth = {} /\ \A v \in Users \ {u} : tx'[v] = tx[v]
      /\ now' = now /\ Today' = Today /\ IsFiniteSet(withdrawals)
  BY EndsFacts DEF Commits, Ends, Inv, Today
<1>2. ASSUME \A a \in Auths, day \in Nat : /\ InLimit(a, OnDay(UserKeys(a, day), day))'
                                           /\ InLimit(a, OnDay(BenefitKeys(a, day), day))',
             \A v \in Users \ {u} : \A b \in tx[v].auth :
               /\ BelowLimit(b, UserKeys(b, tx[v].start))'
               /\ tx[v].step # "ranged" => BelowLimit(b, BenefitKeys(b, tx[v].start))'
      PROVE  LimitsHeld'
  <2>1. ASSUME NEW v \in Users \ {u}, NEW b \in tx[v].auth PROVE Checked(v, b)'
    <3>1. Checked(v, b)
      BY <2>1 DEF LimitsHeld
    <3> QED
      BY <1>1, <1>2, <2>1, <3>1 DEF Checked
  <2>2. \A v \in Users \ {u} : \A b \in tx[v].auth : \A x \in Users \ {u, v} : \A c \in tx[x].auth : Apart(v, b, x, c)'
    BY <1>1 DEF LimitsHeld, Apart
  <2>3. ASSUME NEW v \in Users, NEW b \in tx'[v].auth
        PROVE  Checked(v, b)' /\ \A x \in Users \ {v} : \A c \in tx'[x].auth : Apart(v, b, x, c)'
    <3>1. v # u /\ b \in tx[v].auth
      BY <1>1, <2>3
    <3>2. \A x \in Users : \A c \in tx'[x].auth : x # u /\ c \in tx[x].auth
      BY <1>1
    <3> QED
      BY <2>1, <2>2, <3>1, <3>2
  <2> QED
    BY <1>2, <2>3 DEF LimitsHeld
<1>3. CASE withdrawals' = withdrawals
  BY <1>1, <1>2, <1>3 DEF LimitsHeld, Checked, InLimit, BelowLimit
<1>4. ASSUME NEW w \in withdrawals, NEW r, NEW status, Becomes(w, r, status) PROVE LimitsHeld'
  <2>1. \A keys : /\ Cardinality(Counting(withdrawals', keys)) <= Cardinality(Counting(withdrawals, keys))
                  /\ Cardinality(Counting(withdrawals', keys)) \in Nat
                  /\ Cardinality(Counting(withdrawals, keys)) \in Nat
    <3>1. /\ w.status = "pending" /\ r.auth = w.auth /\ r.day = w.day
          /\ withdrawals' = (withdrawals \ {w}) \cup {r}
      BY <1>4 DEF Becomes
    <3>2. IsFiniteSet(withdrawals')
      BY <1>1, <3>1, FS_AddElement, FS_RemoveElement
    <3> QED
      BY <1>1, <3>1, <3>2, CountingSettled, CountingFinite
  <2>2. \A a \in Auths : MaxPerDay[a.network] \in Nat
    BY AuthTyped, WithdrawalsAssumption DEF WalletConfigIsChecked
  <2>3. \A a \in Auths : \A keys : /\ InLimit(a, keys) => InLimit(a, keys)'
                                   /\ BelowLimit(a, keys) => BelowLimit(a, keys)'
    BY <2>1, <2>2 DEF InLimit, BelowLimit
  <2>4. \A v \in Users : tx[v].auth \subseteq Auths
    BY DEF Inv, TypeOK, Transactions
  <2> QED
    BY <1>1, <1>2, <2>3, <2>4 DEF LimitsHeld, Checked
<1>5. ASSUME NEW a \in Auths, NEW r \in Rows, NEW e \in Events, Requested(u, a, r, e) PROVE LimitsHeld'
  <2>1. /\ tx[u].auth = {a} /\ tx[u].rows = {r} /\ r.auth = a /\ a.user = u
        /\ withdrawals' = withdrawals \cup {r} /\ tx[u].step = "written"
        /\ r.day \in Nat /\ tx[u].start \in Nat
    <3>1. tx[u].step = "written"
      BY <1>5 DEF Inv, Requested, WellFormed, Rests, Chooses, Collects, Requests, Pays, Refunds, Settles
    <3> QED
      BY <1>5, <3>1 DEF Requested, Inv, TypeOK, Transactions, Rows
  <2>2. /\ Checked(u, a) /\ r.day >= tx[u].start
        /\ BelowLimit(a, UserKeys(a, tx[u].start)) /\ BelowLimit(a, BenefitKeys(a, tx[u].start))
    BY <2>1 DEF LimitsHeld, Checked
  <2>3. \A keys : <<a, r.day>> \notin keys => Counting(withdrawals', keys) = Counting(withdrawals, keys)
    BY <2>1 DEF Counting
  <2>4. \A keys : Cardinality(Counting(withdrawals, keys)) \in Nat
    BY <1>1, CountingFinite
  <2>5. IsFiniteSet(withdrawals')
    BY <1>1, <2>1, FS_AddElement
  <2>6. \A keys : Cardinality(Counting(withdrawals', keys)) \in Nat
    BY <2>5, CountingFinite
  <2>7. \A keys, more : keys \subseteq more =>
          Cardinality(Counting(withdrawals', keys)) <= Cardinality(Counting(withdrawals, more)) + 1
    BY <1>1, <2>1, CountingAdd
  <2>8. \A b \in Auths : MaxPerDay[b.network] \in Nat
    BY AuthTyped, WithdrawalsAssumption DEF WalletConfigIsChecked
  <2>9. ASSUME NEW b \in Auths, NEW keys, NEW more, BelowLimit(a, more), InLimit(b, keys),
               <<a, r.day>> \in keys => keys \subseteq more /\ b.network = a.network
        PROVE  InLimit(b, keys)'
    <3>1. CASE <<a, r.day>> \notin keys
      BY <2>3, <2>9, <3>1 DEF InLimit
    <3>2. CASE <<a, r.day>> \in keys
      <4>1. Cardinality(Counting(withdrawals', keys)) <= Cardinality(Counting(withdrawals, more)) + 1
        BY <2>7, <2>9, <3>2
      <4> QED
        BY <2>4, <2>6, <2>8, <2>9, <3>2, <4>1 DEF InLimit, BelowLimit
    <3> QED
      BY <3>1, <3>2
  <2>10. ASSUME NEW b \in Auths, NEW day \in Nat
         PROVE  /\ InLimit(b, OnDay(UserKeys(b, day), day))' /\ InLimit(b, OnDay(BenefitKeys(b, day), day))'
    <3>1. InLimit(b, OnDay(UserKeys(b, day), day)) /\ InLimit(b, OnDay(BenefitKeys(b, day), day))
      BY DEF LimitsHeld
    <3>2. <<a, r.day>> \in OnDay(UserKeys(b, day), day) =>
            OnDay(UserKeys(b, day), day) \subseteq UserKeys(a, tx[u].start) /\ b.network = a.network
      BY <2>1, <2>2 DEF OnDay, UserKeys
    <3>3. <<a, r.day>> \in OnDay(BenefitKeys(b, day), day) =>
            OnDay(BenefitKeys(b, day), day) \subseteq BenefitKeys(a, tx[u].start) /\ b.network = a.network
      BY <2>1, <2>2 DEF OnDay, BenefitKeys
    <3>4. InLimit(b, OnDay(UserKeys(b, day), day))'
      BY <2>2, <2>9, <3>1, <3>2
    <3>5. InLimit(b, OnDay(BenefitKeys(b, day), day))'
      BY <2>2, <2>9, <3>1, <3>3
    <3> QED
      BY <3>4, <3>5
  <2>11. ASSUME NEW v \in Users \ {u}, NEW b \in tx[v].auth
         PROVE  /\ BelowLimit(b, UserKeys(b, tx[v].start))'
                /\ tx[v].step # "ranged" => BelowLimit(b, BenefitKeys(b, tx[v].start))'
    <3>1. Checked(v, b) /\ Apart(v, b, u, a) /\ b \in Auths /\ WellFormed(v)
      BY <2>1, <2>11 DEF LimitsHeld, Inv, TypeOK, Transactions
    <3>2. b.user = v
      BY <2>11, <3>1 DEF WellFormed, Rests, Collects, Chooses, Requests, Pays, Refunds, Settles
    <3>3. <<a, r.day>> \notin UserKeys(b, tx[v].start)
      BY <2>1, <2>11, <3>2 DEF UserKeys
    <3>4. tx[v].step # "ranged" => <<a, r.day>> \notin BenefitKeys(b, tx[v].start)
      BY <2>1, <3>1 DEF BenefitKeys, Apart
    <3> QED
      BY <1>1, <2>3, <2>11, <3>1, <3>3, <3>4 DEF Checked, BelowLimit
  <2> QED
    BY <1>2, <2>10, <2>11
<1>6. CASE \E e \in Events : Earned(u, e)
  BY <1>3, <1>6 DEF Earned
<1>7. CASE \E w \in withdrawals, r \in Rows : Paid(u, w, r)
  BY <1>4, <1>7 DEF Paid
<1>8. CASE \E w \in withdrawals, r \in Rows, e \in Events : Refunded(u, w, r, e)
  BY <1>4, <1>8 DEF Refunded
<1> QED
  BY <1>5, <1>6, <1>7, <1>8 DEF Commits

\* Every step keeps the days within their limits.
LEMMA LimitsNext ==
  ASSUME Inv, LimitsHeld, [Next]_vars
  PROVE  LimitsHeld'
<1>0. TypeOK /\ \A u \in Users : WellFormed(u)
  BY DEF Inv
<1>1. ASSUME NEW i \in Incomes, CreateTaskIncomeEarning(i) PROVE LimitsHeld'
  BY <1>0, <1>1, IncomeWorks, LimitsWithoutCreate, WithdrawalsAssumption
<1>2. ASSUME NEW a \in Auths, BeginCreate(a) \/ LockBenefitRange(a) \/ InsertWithdrawal(a) PROVE LimitsHeld'
  BY <1>2, LimitsBegin, LimitsLock, LimitsInsert
<1>3. ASSUME NEW w \in withdrawals, FulfillWithdrawal(w) \/ RejectWithdrawal(w) PROVE LimitsHeld'
  BY <1>0, <1>3, RowTyped, FulfillWorks, RejectWorks, LimitsWithoutCreate
<1>4. ASSUME NEW u \in Users, Commit(u) PROVE LimitsHeld'
  BY <1>4, CommitCommits, LimitsCommits
<1>5. ASSUME NEW u \in Users, Rollback(u) PROVE LimitsHeld'
  BY <1>0, <1>5, RollbackWorks, LimitsWithoutCreate
<1>6. ASSUME UNCHANGED <<withdrawals, tx>>, now' \in Nat, now <= now' PROVE LimitsHeld'
  <2>1. Today <= Today' /\ Today \in Nat /\ Today' \in Nat
    BY <1>0, <1>6, DaysPass DEF TypeOK
  <2>2. \A u \in Users : tx[u].start \in Nat
    BY <1>0 DEF TypeOK, Transactions
  <2>3. \A u \in Users : \A a \in tx[u].auth : Checked(u, a) => Checked(u, a)'
    BY <1>6, <2>1, <2>2 DEF Checked, BelowLimit
  <2> QED
    BY <1>6, <2>3 DEF LimitsHeld, InLimit, Apart
<1>7. now \in Nat
  BY <1>0 DEF TypeOK
<1>8. CASE ListEvents \/ \E start \in 0..lastRow : ListPendingWithdrawals(start)
  BY <1>6, <1>7, <1>8 DEF ListEvents, ListPendingWithdrawals, tables
<1>9. CASE Tick
  BY <1>6, <1>7, <1>9 DEF Tick, tables
<1>10. CASE UNCHANGED vars
  BY <1>6, <1>7, <1>10 DEF vars
<1> QED
  BY <1>1, <1>2, <1>3, <1>4, <1>5, <1>8, <1>9, <1>10 DEF Next

\* The limits of a day hold of what is committed, for a user and for a benefit
\* address that several share, though each create counts before it inserts.
THEOREM DailyLimitsHold == Spec => []DailyLimits
<1> DEFINE J == Inv /\ LimitsHeld
<1>1. Init => J
  <2> SUFFICES ASSUME Init PROVE LimitsHeld
    BY InvInit
  <2>1. \A keys : Counting(withdrawals, keys) = {}
    BY DEF Init, Counting
  <2>2. \A a \in Auths : MaxPerDay[a.network] \in Nat
    BY AuthTyped, WithdrawalsAssumption DEF WalletConfigIsChecked
  <2>3. \A u \in Users : tx[u].auth = {}
    BY DEF Init, NoTx
  <2> QED
    BY <2>1, <2>2, <2>3, FS_EmptySet DEF LimitsHeld, InLimit
<1>2. J /\ [Next]_vars => J'
  BY InvNext, LimitsNext
<1>3. J => DailyLimits
  BY LimitsSuffice DEF Inv
<1> QED
  BY <1>1, <1>2, <1>3, PTL DEF Spec

-----------------------------------------------------------------------------
(* The wallet's copy of the ledger.                                        *)

\* What a user had earned and had been promised by the time of an event.
EarnedBy(u, c) == {e \in Of(u, "TaskIncome") : e.id <= c}
PromisedBy(u, c) == {w \in NonFailed(u) : w.event <= c}

\* A withdrawal is paid for by earnings that came before it: every prefix of the
\* ledger covers what it promises.
PrefixCovered(u) == \A c \in Nat : Promised(PromisedBy(u, c)) <= Sum(EarnedBy(u, c))

\* What the wallet knows of the events before its cursor, and of the rows it accepts.
Follows ==
  /\ cursor <= lastEvent
  /\ \A e \in events : e.id <= cursor => e.id \in seen \cup racing
  /\ \A u \in Users : \A e \in tx[u].events : e.id <= cursor => e.id \in racing
  /\ \A i \in accepted : \E w \in withdrawals : w.id = i
  /\ \A w \in withdrawals : w.id \in accepted => w.event <= cursor

\* Prefixes are finite, too.
LEMMA PrefixTyped ==
  ASSUME Inv, NEW u \in Users, NEW c \in Nat
  PROVE  /\ EarnedBy(u, c) \in SUBSET Events /\ IsFiniteSet(EarnedBy(u, c)) /\ Sum(EarnedBy(u, c)) \in Nat
         /\ PromisedBy(u, c) \in SUBSET Rows /\ IsFiniteSet(PromisedBy(u, c)) /\ Promised(PromisedBy(u, c)) \in Nat
         /\ EarnedBy(u, c) \in SUBSET Of(u, "TaskIncome") /\ PromisedBy(u, c) \in SUBSET NonFailed(u)
<1>1. EarnedBy(u, c) \in SUBSET Of(u, "TaskIncome") /\ PromisedBy(u, c) \in SUBSET NonFailed(u)
  BY DEF EarnedBy, PromisedBy
<1>2. /\ Of(u, "TaskIncome") \in SUBSET Events /\ IsFiniteSet(Of(u, "TaskIncome"))
      /\ NonFailed(u) \in SUBSET Rows /\ IsFiniteSet(NonFailed(u))
  BY SumsTyped DEF EventTypes
<1>3. IsFiniteSet(EarnedBy(u, c)) /\ IsFiniteSet(PromisedBy(u, c))
  BY <1>1, <1>2, FS_Subset
<1> QED
  BY <1>1, <1>2, <1>3, SumsOfSubsets

\* A prefix that covers its promises and a wallet that follows make it covered.
LEMMA CoveredSuffices ==
  ASSUME Inv, Follows, \A u \in Users : PrefixCovered(u)
  PROVE  WalletIsCovered
<1> SUFFICES ASSUME NEW u \in Users
             PROVE  Sum({e \in Of(u, "TaskIncome") : e.id \in seen \cup racing})
                      >= Promised({w \in withdrawals : w.auth.user = u /\ w.id \in accepted /\ w.status # "failed"})
  BY DEF WalletIsCovered, Follows
<1> DEFINE passed == {e \in Of(u, "TaskIncome") : e.id \in seen \cup racing}
           owed == {w \in withdrawals : w.auth.user = u /\ w.id \in accepted /\ w.status # "failed"}
<1>1. cursor \in Nat
  BY DEF Inv, TypeOK
<1>2. EarnedBy(u, cursor) \in SUBSET passed
  BY DEF EarnedBy, Follows, Of
<1>3. owed \in SUBSET PromisedBy(u, cursor)
  BY DEF PromisedBy, NonFailed, Follows
<1>4. passed \in SUBSET Events /\ IsFiniteSet(passed)
  <2>1. passed \in SUBSET Of(u, "TaskIncome")
    OBVIOUS
  <2> HIDE DEF passed
  <2>2. Of(u, "TaskIncome") \in SUBSET Events /\ IsFiniteSet(Of(u, "TaskIncome"))
    BY SumsTyped DEF EventTypes
  <2> QED
    BY <2>1, <2>2, FS_Subset
<1>5. PromisedBy(u, cursor) \in SUBSET Rows /\ IsFiniteSet(PromisedBy(u, cursor))
  BY <1>1, PrefixTyped
<1> HIDE DEF passed, owed
<1>6. Sum(EarnedBy(u, cursor)) <= Sum(passed) /\ Sum(EarnedBy(u, cursor)) \in Nat /\ Sum(passed) \in Nat
  BY <1>2, <1>4, SumsOfSubsets
<1>7. /\ Promised(owed) <= Promised(PromisedBy(u, cursor)) /\ Promised(owed) \in Nat
      /\ Promised(PromisedBy(u, cursor)) \in Nat
  BY <1>3, <1>5, SumsOfSubsets
<1>8. Promised(PromisedBy(u, cursor)) <= Sum(EarnedBy(u, cursor))
  BY <1>1 DEF PrefixCovered
<1>9. Sum(passed) >= Promised(owed)
  BY <1>6, <1>7, <1>8
<1> QED
  BY <1>9 DEF passed, owed

\* A commit of u's keeps every prefix covered.
LEMMA PrefixCommits ==
  ASSUME Inv, Inv', NEW u \in Users, Commits(u), Balanced(u)', PrefixCovered(u)
  PROVE  PrefixCovered(u)'
<1> SUFFICES ASSUME NEW c \in Nat
             PROVE  (Promised(PromisedBy(u, c)) <= Sum(EarnedBy(u, c)))'
  BY DEF PrefixCovered
<1>1. /\ EarnedBy(u, c) \in SUBSET Events /\ IsFiniteSet(EarnedBy(u, c)) /\ Sum(EarnedBy(u, c)) \in Nat
      /\ PromisedBy(u, c) \in SUBSET Rows /\ IsFiniteSet(PromisedBy(u, c)) /\ Promised(PromisedBy(u, c)) \in Nat
      /\ Promised(PromisedBy(u, c)) <= Sum(EarnedBy(u, c))
  BY PrefixTyped DEF PrefixCovered
<1>2. EventIds /\ RowIds
  BY DEF Inv
<1>3. ASSUME NEW e \in Events, Earned(u, e) PROVE (Promised(PromisedBy(u, c)) <= Sum(EarnedBy(u, c)))'
  <2>1. /\ e \notin events /\ e.type = "TaskIncome" /\ e.user = u
        /\ events' = events \cup {e} /\ withdrawals' = withdrawals
    BY <1>2, <1>3 DEF Earned, EventIds
  <2>2. PromisedBy(u, c)' = PromisedBy(u, c)
    BY <2>1 DEF PromisedBy, NonFailed
  <2>3. CASE e.id <= c
    <3>1. EarnedBy(u, c)' = EarnedBy(u, c) \cup {e} /\ e \notin EarnedBy(u, c)
      BY <2>1, <2>3 DEF EarnedBy, Of
    <3>2. Sum(EarnedBy(u, c)') = Sum(EarnedBy(u, c)) + e.amount
      BY <1>1, <3>1, SumAdd
    <3>3. e.amount \in Nat
      BY DEF Events
    <3> QED
      BY <1>1, <2>2, <3>2, <3>3
  <2>4. CASE ~(e.id <= c)
    <3>1. EarnedBy(u, c)' = EarnedBy(u, c)
      BY <2>1, <2>4 DEF EarnedBy, Of
    <3> QED
      BY <1>1, <2>2, <3>1
  <2> QED
    BY <2>3, <2>4
<1>4. ASSUME NEW a \in Auths, NEW r \in Rows, NEW e \in Events, Requested(u, a, r, e)
      PROVE  (Promised(PromisedBy(u, c)) <= Sum(EarnedBy(u, c)))'
  <2>1. /\ tx[u].events = {e} /\ e.type = "Withdraw" /\ r.event = e.id
        /\ events' = events \cup {e} /\ withdrawals' = withdrawals \cup {r} /\ e.id \in Nat
    BY <1>4 DEF Requested, Events
  <2>2. CASE e.id <= c
    <3>1. \A f \in events : f.user = u => f.id < e.id
      BY <1>2, <2>1 DEF EventIds
    <3>2. \A f \in events : f.id \in Nat
      BY DEF Inv, TypeOK, Events
    <3>3. EarnedBy(u, c)' = Of(u, "TaskIncome")'
      BY <2>1, <2>2, <3>1, <3>2 DEF EarnedBy, Of
    <3>4. /\ NonFailed(u)' \in SUBSET Rows /\ IsFiniteSet(NonFailed(u)')
          /\ account'[u].available \in Nat /\ PromisedBy(u, c)' \in SUBSET NonFailed(u)'
      <4>1. withdrawals' \in SUBSET Rows /\ IsFiniteSet(withdrawals') /\ account'[u].available \in Nat
        BY DEF Inv, TypeOK, EarningAccounts
      <4>2. NonFailed(u)' \in SUBSET withdrawals' /\ PromisedBy(u, c)' \in SUBSET NonFailed(u)'
        BY DEF NonFailed, PromisedBy
      <4> QED
        BY <4>1, <4>2, FS_Subset
    <3>5. /\ Promised(PromisedBy(u, c)') <= Promised(NonFailed(u)') /\ Promised(PromisedBy(u, c)') \in Nat
          /\ Promised(NonFailed(u)') \in Nat
      BY <3>4, SumsOfSubsets
    <3>6. account'[u].available + Promised(NonFailed(u)') = Sum(EarnedBy(u, c)')
      BY <3>3 DEF Balanced
    <3> QED
      BY <3>4, <3>5, <3>6
  <2>3. CASE ~(e.id <= c)
    <3>1. EarnedBy(u, c)' = EarnedBy(u, c) /\ PromisedBy(u, c)' = PromisedBy(u, c)
      BY <2>1, <2>3 DEF EarnedBy, Of, PromisedBy, NonFailed
    <3> QED
      BY <1>1, <3>1
  <2> QED
    BY <2>2, <2>3
<1>5. ASSUME NEW w \in withdrawals, NEW r \in Rows, NEW status \in {"success", "failed"}, Becomes(w, r, status),
             EarnedBy(u, c)' = EarnedBy(u, c)
      PROVE  (Promised(PromisedBy(u, c)) <= Sum(EarnedBy(u, c)))'
  <2>1. /\ w.status = "pending" /\ r.id = w.id /\ r.auth = w.auth /\ r.event = w.event /\ r.status = status
        /\ withdrawals' = (withdrawals \ {w}) \cup {r}
    BY <1>5 DEF Becomes
  <2>2. r \notin withdrawals
    BY <1>2, <2>1 DEF RowIds
  <2>3. CASE w \in PromisedBy(u, c) /\ status = "success"
    <3>1. PromisedBy(u, c)' = (PromisedBy(u, c) \ {w}) \cup {r} /\ r \notin PromisedBy(u, c)
      BY <2>1, <2>2, <2>3 DEF PromisedBy, NonFailed
    <3>2. Promised(PromisedBy(u, c)) = Promised(PromisedBy(u, c) \ {w}) + WithFee(w.auth)
      BY <1>1, <2>3, PromisedRemove
    <3>3. /\ PromisedBy(u, c) \ {w} \in SUBSET Rows /\ IsFiniteSet(PromisedBy(u, c) \ {w})
          /\ r \notin PromisedBy(u, c) \ {w}
      BY <1>1, <3>1, FS_RemoveElement
    <3>4. Promised(PromisedBy(u, c)') = Promised(PromisedBy(u, c) \ {w}) + WithFee(r.auth)
      BY <3>1, <3>3, PromisedAdd
    <3> QED
      BY <1>1, <1>5, <2>1, <3>2, <3>4
  <2>4. CASE ~(w \in PromisedBy(u, c) /\ status = "success")
    <3>1. PromisedBy(u, c)' \in SUBSET PromisedBy(u, c)
      BY <2>1, <2>4 DEF PromisedBy, NonFailed
    <3>2. Promised(PromisedBy(u, c)') <= Promised(PromisedBy(u, c)) /\ Promised(PromisedBy(u, c)') \in Nat
      BY <1>1, <3>1, SumsOfSubsets
    <3> QED
      BY <1>1, <1>5, <3>2
  <2> QED
    BY <2>3, <2>4
<1>6. ASSUME NEW w \in withdrawals, NEW r \in Rows, Paid(u, w, r)
      PROVE  (Promised(PromisedBy(u, c)) <= Sum(EarnedBy(u, c)))'
  <2>1. Fee[w.auth.network] = 0 \/ Fee[w.auth.network] > 0
    BY RowTyped DEF Inv
  <2>2. \A e \in tx[u].events : e.type = "WithdrawalFeeIncome"
    BY <1>6, <2>1 DEF Paid
  <2>3. EarnedBy(u, c)' = EarnedBy(u, c)
    BY <1>6, <2>2 DEF Paid, EarnedBy, Of
  <2> QED
    BY <1>5, <1>6, <2>3 DEF Paid
<1>7. ASSUME NEW w \in withdrawals, NEW r \in Rows, NEW e \in Events, Refunded(u, w, r, e)
      PROVE  (Promised(PromisedBy(u, c)) <= Sum(EarnedBy(u, c)))'
  <2>1. EarnedBy(u, c)' = EarnedBy(u, c)
    BY <1>7 DEF Refunded, EarnedBy, Of
  <2> QED
    BY <1>5, <1>7, <2>1 DEF Refunded
<1> QED
  BY <1>3, <1>4, <1>6, <1>7 DEF Commits

\* So does every step.
LEMMA PrefixNext ==
  ASSUME Inv, Inv', [Next]_vars, \A u \in Users : Balanced(u)', \A u \in Users : PrefixCovered(u)
  PROVE  \A u \in Users : PrefixCovered(u)'
<1>1. CASE UNCHANGED tables
  BY <1>1 DEF tables, PrefixCovered, EarnedBy, PromisedBy, Of, NonFailed
<1>2. ASSUME NEW u \in Users, Commits(u), NEW v \in Users PROVE PrefixCovered(v)'
  <2>1. CASE v = u
    BY <1>2, <2>1, PrefixCommits
  <2>2. CASE v # u
    <3>1. Of(v, "TaskIncome")' = Of(v, "TaskIncome") /\ NonFailed(v)' = NonFailed(v)
      BY <1>2, <2>2, LedgerOfOthers DEF EventTypes
    <3> QED
      BY <3>1 DEF PrefixCovered, EarnedBy, PromisedBy
  <2> QED
    BY <2>1, <2>2
<1> QED
  BY <1>1, <1>2, StepOfTables

\* A page is all there is of what comes before its last id.
LEMMA PageIsPrefix ==
  ASSUME NEW ids \in SUBSET Nat, NEW i \in Page(ids), NEW k \in ids, k <= i
  PROVE  k \in Page(ids)
<1> DEFINE B == {x \in ids : x < i}
           C == {x \in ids : x < k}
<1>1. i \in Nat /\ k \in Nat /\ i \in ids /\ Cardinality(B) < PageLimit /\ PageLimit \in Nat
  BY WithdrawalsAssumption DEF Page
<1>2. B \subseteq 0..i /\ C \subseteq B
  <2>1. ids \subseteq Nat /\ k <= i
    OBVIOUS
  <2>2. \A x \in ids : x \in Nat /\ (x < i => x \in 0..i) /\ (x < k => x < i)
    BY <1>1, <2>1
  <2> QED
    BY <2>2
<1>3. IsFiniteSet(B)
  <2>1. IsFiniteSet(0..i)
    BY <1>1, FS_Interval
  <2> QED
    BY <1>2, <2>1, FS_Subset
<1>4. Cardinality(C) <= Cardinality(B) /\ Cardinality(C) \in Nat /\ Cardinality(B) \in Nat
  <2> HIDE DEF B, C
  <2> QED
    BY <1>2, <1>3, FS_Subset, FS_CardinalityType
<1>5. Cardinality(C) < PageLimit
  <2> HIDE DEF B, C
  <2> QED
    BY <1>1, <1>4
<1> QED
  BY <1>1, <1>5 DEF Page

\* A query of the events moves the cursor over committed ones only, and what it
\* passes that is not committed yet is racing.
LEMMA FollowsListEvents ==
  ASSUME Inv, Follows, ListEvents
  PROVE  Follows'
<1> DEFINE ids == {e.id : e \in {x \in events : x.id > cursor}}
           page == Page(ids)
           racers == {i \in UNION {{e.id : e \in tx[u].events} : u \in Users} : i < Max(page)}
<1>1. TypeOK /\ EventIds
  BY DEF Inv
<1>2. /\ page # {} /\ cursor' = Max(page) /\ seen' = seen \cup page /\ racing' = racing \cup racers
      /\ UNCHANGED <<tables, tx, lastEvent, lastRow, now, accepted, left>>
  BY Zenon DEF ListEvents
<1>3. /\ page \subseteq Nat /\ Max(page) \in page /\ \A i \in page : i <= Max(page)
      /\ \A i \in page : i > cursor /\ \E e \in events : e.id = i
  BY <1>1, <1>2, PageTyped
<1>4. ids \in SUBSET Nat /\ cursor \in Nat /\ cursor <= Max(page) /\ Max(page) \in Nat
  BY <1>1, <1>3 DEF TypeOK, Events
<1>5. \A k \in ids : k <= Max(page) => k \in page
  BY <1>3, <1>4, PageIsPrefix
<1>6. UNCHANGED <<events, withdrawals, tx, lastEvent, accepted>>
  BY <1>2 DEF tables
<1>7. Max(page) <= lastEvent
  BY <1>1, <1>3 DEF EventIds
<1>8. ASSUME NEW e \in events, e.id <= Max(page) PROVE e.id \in seen' \cup racing'
  <2>1. e.id \in Nat
    BY <1>1 DEF TypeOK, Events
  <2>2. CASE e.id <= cursor
    BY <1>2, <2>2 DEF Follows
  <2>3. CASE e.id > cursor
    BY <1>2, <1>5, <1>8, <2>3
  <2> QED
    BY <1>4, <2>1, <2>2, <2>3
<1>9. ASSUME NEW u \in Users, NEW e \in tx[u].events, e.id <= Max(page) PROVE e.id \in racing'
  <2>1. e.id # Max(page)
    BY <1>1, <1>3, <1>9 DEF EventIds
  <2>2. e.id \in Nat
    BY <1>1 DEF TypeOK, Transactions, Events
  <2>3. e.id < Max(page)
    BY <1>4, <1>9, <2>1, <2>2
  <2>4. e.id \in racers
    BY <2>3
  <2> QED
    BY <1>2, <2>4
<1>10. \A w \in withdrawals : w.id \in accepted => w.event <= Max(page)
  BY <1>1, <1>4, RowTyped DEF Follows
<1> HIDE DEF ids, page, racers
<1> QED
  BY <1>2, <1>6, <1>7, <1>8, <1>9, <1>10 DEF Follows

\* A query of the pending withdrawals accepts rows whose event the cursor passed.
LEMMA FollowsListPending ==
  ASSUME Inv, Follows, NEW start \in 0..lastRow, ListPendingWithdrawals(start)
  PROVE  Follows'
<1> DEFINE pending == {w \in withdrawals : w.status = "pending" /\ w.id > start}
           new == {i \in Page({w.id : w \in pending}) \ accepted : \E w \in pending : w.id = i /\ w.event <= cursor}
<1>1. accepted' = accepted \cup new /\ UNCHANGED <<events, withdrawals, tx, lastEvent, cursor, seen, racing>>
  BY DEF ListPendingWithdrawals, tables
<1>2. \A i \in new : \E w \in withdrawals : w.id = i /\ w.event <= cursor
  OBVIOUS
<1> HIDE DEF new
<1>3. RowIds
  BY DEF Inv
<1>4. \A w \in withdrawals : w.id \in new => w.event <= cursor
  BY <1>2, <1>3 DEF RowIds
<1> QED
  BY <1>1, <1>2, <1>4 DEF Follows

\* A step inside a transaction takes ids that the cursor has not reached.
LEMMA FollowsWorks ==
  ASSUME Inv, Follows, NEW u \in Users, Works(u), UNCHANGED wallet
  PROVE  Follows'
<1>1. /\ UNCHANGED <<events, withdrawals, cursor, seen, racing, accepted>>
      /\ \A v \in Users \ {u} : tx'[v] = tx[v]
      /\ \A e \in tx'[u].events : e.id = lastEvent + 1
      /\ lastEvent \in Nat /\ lastEvent' \in Nat /\ lastEvent <= lastEvent' /\ cursor \in Nat
  BY DEF Works, tables, Others, wallet, Inv, TypeOK
<1>2. cursor <= lastEvent
  BY DEF Follows
<1>3. \A e \in tx'[u].events : ~(e.id <= cursor)
  BY <1>1, <1>2
<1>4. \A v \in Users : \A e \in tx'[v].events : e.id <= cursor => e.id \in racing
  BY <1>1, <1>3 DEF Follows
<1> QED
  BY <1>1, <1>2, <1>4 DEF Follows

\* A commit shows events that are racing if the cursor has passed them.
LEMMA FollowsCommits ==
  ASSUME Inv, Follows, NEW u \in Users, Commits(u)
  PROVE  Follows'
<1>1. /\ tx'[u].events = {} /\ \A v \in Users \ {u} : tx'[v] = tx[v]
      /\ UNCHANGED <<lastEvent, cursor, seen, racing, accepted>>
  BY EndsFacts DEF Commits, Ends, Inv, wallet
<1>2. RowIds
  BY DEF Inv
<1>3. ASSUME events' \subseteq events \cup tx[u].events,
             \A w \in withdrawals : \E x \in withdrawals' : x.id = w.id,
             \A x \in withdrawals' : x.id \in accepted => \E w \in withdrawals : w.id = x.id /\ w.event = x.event
      PROVE  Follows'
  <2>1. \A v \in Users : \A e \in tx'[v].events : e.id <= cursor => e.id \in racing
    BY <1>1 DEF Follows
  <2>2. \A e \in events' : e.id <= cursor => e.id \in seen \cup racing
    BY <1>3 DEF Follows
  <2>3. \A x \in withdrawals' : x.id \in accepted => x.event <= cursor
    BY <1>3 DEF Follows
  <2>4. \A i \in accepted : \E x \in withdrawals' : x.id = i
    BY <1>3 DEF Follows
  <2> QED
    BY <1>1, <2>1, <2>2, <2>3, <2>4 DEF Follows
<1>4. ASSUME NEW e \in Events, Earned(u, e) PROVE Follows'
  BY <1>3, <1>4 DEF Earned
<1>5. ASSUME NEW a \in Auths, NEW r \in Rows, NEW e \in Events, Requested(u, a, r, e) PROVE Follows'
  <2>1. /\ tx[u].auth = {a} /\ tx[u].rows = {r} /\ tx[u].events = {e}
        /\ events' = events \cup {e} /\ withdrawals' = withdrawals \cup {r}
    BY <1>5 DEF Requested
  <2>2. r.id \notin accepted
    BY <1>2, <2>1 DEF RowIds, Follows
  <2> QED
    BY <1>3, <2>1, <2>2
<1>6. ASSUME NEW w \in withdrawals, NEW r \in Rows, NEW status, Becomes(w, r, status), events' = events \cup tx[u].events
      PROVE  Follows'
  <2>1. r.id = w.id /\ r.event = w.event /\ withdrawals' = (withdrawals \ {w}) \cup {r}
    BY <1>6 DEF Becomes
  <2>2. \A x \in withdrawals : \E y \in withdrawals' : y.id = x.id
    BY <2>1
  <2>3. \A x \in withdrawals' : \E y \in withdrawals : y.id = x.id /\ y.event = x.event
    BY <2>1
  <2> QED
    BY <1>3, <1>6, <2>2, <2>3
<1>7. CASE \E w \in withdrawals, r \in Rows : Paid(u, w, r)
  BY <1>6, <1>7 DEF Paid
<1>8. CASE \E w \in withdrawals, r \in Rows, e \in Events : Refunded(u, w, r, e)
  BY <1>6, <1>8 DEF Refunded
<1> QED
  BY <1>4, <1>5, <1>7, <1>8 DEF Commits

\* Every step keeps the wallet in step with the ledger.
LEMMA FollowsNext ==
  ASSUME Inv, Follows, [Next]_vars
  PROVE  Follows'
<1>1. ASSUME UNCHANGED <<events, withdrawals, tx, lastEvent, wallet>> PROVE Follows'
  BY <1>1 DEF Follows, wallet
<1>2. ASSUME NEW u \in Users, Works(u) /\ UNCHANGED wallet PROVE Follows'
  BY <1>2, FollowsWorks
<1>3. ASSUME NEW u \in Users, Commits(u) PROVE Follows'
  BY <1>3, FollowsCommits
<1>4. CASE ListEvents
  BY <1>4, FollowsListEvents
<1>5. CASE \E start \in 0..lastRow : ListPendingWithdrawals(start)
  BY <1>5, FollowsListPending
<1>6. CASE Tick
  BY <1>1, <1>6 DEF Tick, tables
<1>7. CASE UNCHANGED vars
  BY <1>1, <1>7 DEF vars, wallet
<1> QED
  BY <1>2, <1>3, <1>4, <1>5, <1>6, <1>7, NextIsMove

\* Of the events its cursor has passed, the wallet lacks only those that were open
\* when a later one was listed, and with these the earnings cover all it accepted,
\* however its queries and the commits interleave.  While none was passed so, it
\* lacks none, as the wallet API promises.
THEOREM WalletCovered == Spec => [](WalletIsCovered /\ (racing = {} => EarlierEventsAreShown))
<1> DEFINE J == /\ Inv /\ Follows
                /\ \A u \in Users : Explained(u) /\ Balanced(u)
                /\ \A u \in Users : PrefixCovered(u)
<1>1. Init => J
  <2> SUFFICES ASSUME Init PROVE J
    OBVIOUS
  <2>1. Follows
    BY DEF Init, Follows, NoTx
  <2>2. ASSUME NEW u \in Users PROVE PrefixCovered(u)
    <3>1. \A c \in Nat : PromisedBy(u, c) = {} /\ EarnedBy(u, c) = {}
      BY DEF Init, PromisedBy, EarnedBy, NonFailed, Of
    <3>2. \A c \in Nat : Promised(PromisedBy(u, c)) = 0 /\ Sum(EarnedBy(u, c)) = 0
      BY <3>1, EmptySums
    <3> QED
      BY <3>2 DEF PrefixCovered
  <2> QED
    BY <2>1, <2>2, InvInit, LedgerInit
<1>2. J /\ [Next]_vars => J'
  BY InvNext, FollowsNext, LedgerNext, PrefixNext
<1>3. J => WalletIsCovered /\ (racing = {} => EarlierEventsAreShown)
  BY CoveredSuffices DEF WalletIsCovered, EarlierEventsAreShown
<1> QED
  BY <1>1, <1>2, <1>3, PTL DEF Spec

-----------------------------------------------------------------------------
(* The abstract promise.                                                   *)

Funds == [u \in Users |-> account[u].available]

StateOf(a) == IF Status(a) = {} THEN "none"
              ELSE IF "pending" \in Status(a) THEN "pending"
              ELSE IF "success" \in Status(a) THEN "paid" ELSE "refunded"

Payout == [a \in Auths |-> StateOf(a)]

\* A step that leaves the tables alone is a stutter of the promise, and so is one
\* that changes neither funds nor payouts.
LEMMA PromiseStutters ==
  ASSUME Funds' = Funds, Payout' = Payout
  PROVE  UNCHANGED Promise!vars
BY DEF Promise!vars, Funds, Payout, StateOf

\* The end of an operation changes the funds of one user and one payout.
LEMMA FundsChange ==
  ASSUME TypeOK, NEW u \in Users, Ends(u)
  PROVE  Funds' = [Funds EXCEPT ![u] = account'[u].available]
BY DEF Ends, Funds, TypeOK, EarningAccounts

\* An authorization whose rows a step leaves alone keeps its payout.
LEMMA PayoutChange ==
  ASSUME NEW a \in Auths, \A w : w.auth # a => (w \in withdrawals <=> w \in withdrawals')
  PROVE  Payout' = [Payout EXCEPT ![a] = StateOf(a)']
<1>1. \A b \in Auths \ {a} : Status(b)' = Status(b)
  BY DEF Status
<1>2. \A b \in Auths \ {a} : StateOf(b)' = StateOf(b)
  BY <1>1 DEF StateOf
<1> QED
  BY <1>2 DEF Payout

\* An earning.
LEMMA EarnedEarns ==
  ASSUME Inv, NEW u \in Users, Ends(u), NEW e \in Events, Earned(u, e)
  PROVE  Promise!Earn(u)
<1>1. TypeOK /\ account[u].available \in Nat /\ e.amount \in Nat
  BY DEF Inv, TypeOK, EarningAccounts, Events
<1>2. account'[u].available = account[u].available + e.amount /\ e.amount > 0 /\ withdrawals' = withdrawals
  BY DEF Earned
<1>3. Funds' = [Funds EXCEPT ![u] = account'[u].available]
  BY <1>1, FundsChange
<1>4. Funds'[u] = account'[u].available /\ Funds[u] = account[u].available /\ Funds'[u] > Funds[u]
  BY <1>1, <1>2, <1>3 DEF Funds
<1>5. Payout' = Payout
  BY <1>2 DEF Payout, StateOf, Status
<1> QED
  BY <1>3, <1>4, <1>5 DEF Promise!Earn, Funds, Payout, StateOf

\* A create.
LEMMA RequestedRequests ==
  ASSUME Inv, NEW u \in Users, Ends(u), NEW a \in Auths, NEW r \in Rows, NEW e \in Events, Requested(u, a, r, e)
  PROVE  Promise!Request(a)
<1>1. TypeOK /\ account[u].available \in Nat /\ WithFee(a) \in Nat
  BY AuthTyped DEF Inv, TypeOK, EarningAccounts
<1>2. /\ a.user = u /\ Unused(a) /\ Covered(a) /\ r.auth = a /\ r.status = "pending"
      /\ withdrawals' = withdrawals \cup {r}
      /\ account'[u].available = account[u].available - WithFee(a)
  BY DEF Requested
<1>3. Funds' = [Funds EXCEPT ![u] = Funds[u] - WithFee(a)] /\ Funds[u] = account[u].available
  BY <1>1, <1>2, FundsChange DEF Funds
<1>4. Status(a) = {} /\ Status(a)' = {"pending"}
  BY <1>2 DEF Unused, Status
<1>5. StateOf(a) = "none" /\ StateOf(a)' = "pending"
  BY <1>4 DEF StateOf
<1>6. Payout' = [Payout EXCEPT ![a] = "pending"] /\ Payout[a] = "none"
  BY <1>2, <1>5, PayoutChange DEF Payout
<1>7. WithFee(a) <= Funds[u]
  BY <1>1, <1>2, <1>3 DEF Covered
<1> QED
  BY <1>2, <1>3, <1>6, <1>7 DEF Promise!Request, Funds, Payout, StateOf

\* The status of a message when its row is settled.
LEMMA SettledState ==
  ASSUME Inv, NEW w \in withdrawals, NEW r \in Rows, NEW status \in {"success", "failed"}, Becomes(w, r, status)
  PROVE  /\ w.auth \in Auths /\ Payout[w.auth] = "pending"
         /\ Payout' = [Payout EXCEPT ![w.auth] = IF status = "success" THEN "paid" ELSE "refunded"]
<1>1. w.auth \in Auths /\ RowsAreNamed
  BY RowTyped DEF Inv
<1>2. /\ w.status = "pending" /\ r.auth = w.auth /\ r.status = status
      /\ withdrawals' = (withdrawals \ {w}) \cup {r}
  BY DEF Becomes
<1>3. Status(w.auth) = {"pending"} /\ Status(w.auth)' = {status}
  BY <1>1, <1>2 DEF Status, RowsAreNamed
<1>4. StateOf(w.auth) = "pending" /\ StateOf(w.auth)' = IF status = "success" THEN "paid" ELSE "refunded"
  BY <1>3 DEF StateOf
<1> QED
  BY <1>1, <1>2, <1>4, PayoutChange DEF Payout

\* A fulfilment.
LEMMA PaidPays ==
  ASSUME Inv, NEW u \in Users, Ends(u), NEW w \in withdrawals, NEW r \in Rows, Paid(u, w, r)
  PROVE  w.auth \in Auths /\ Promise!Pay(w.auth)
<1>1. TypeOK
  BY DEF Inv
<1>2. Becomes(w, r, "success") /\ account'[u].available = account[u].available
  BY DEF Paid
<1>3. /\ w.auth \in Auths /\ Payout[w.auth] = "pending"
      /\ Payout' = [Payout EXCEPT ![w.auth] = "paid"]
  BY <1>2, SettledState
<1>4. Funds' = Funds
  BY <1>1, <1>2, FundsChange DEF Funds
<1> QED
  BY <1>3, <1>4 DEF Promise!Pay, Funds, Payout, StateOf

\* A rejection.
LEMMA RefundedRefunds ==
  ASSUME Inv, NEW u \in Users, Ends(u), NEW w \in withdrawals, NEW r \in Rows, NEW e \in Events,
         Refunded(u, w, r, e)
  PROVE  w.auth \in Auths /\ Promise!Refund(w.auth)
<1>1. TypeOK
  BY DEF Inv
<1>2. /\ Becomes(w, r, "failed") /\ w.auth.user = u
      /\ account'[u].available = account[u].available + WithFee(w.auth)
  BY DEF Refunded
<1>3. /\ w.auth \in Auths /\ Payout[w.auth] = "pending"
      /\ Payout' = [Payout EXCEPT ![w.auth] = "refunded"]
  BY <1>2, SettledState
<1>4. Funds' = [Funds EXCEPT ![u] = Funds[u] + WithFee(w.auth)]
  BY <1>1, <1>2, FundsChange DEF Funds
<1> QED
  BY <1>2, <1>3, <1>4 DEF Promise!Refund, Funds, Payout, StateOf

\* The first state.
LEMMA PromiseInit == Init => Promise!Init
<1> SUFFICES ASSUME Init PROVE Promise!Init
  OBVIOUS
<1>1. Funds \in [Users -> Nat]
  BY DEF Init, Funds
<1>2. \A a \in Auths : StateOf(a) = "none"
  BY DEF Init, StateOf, Status
<1> QED
  BY <1>1, <1>2 DEF Promise!Init, Funds, StateOf

\* A step keeps the promise: it is one of the abstract steps, or none.
LEMMA PromiseNext ==
  ASSUME Inv, [Next]_vars
  PROVE  [Promise!Next]_(Promise!vars)
<1>1. ASSUME UNCHANGED tables PROVE UNCHANGED Promise!vars
  <2>1. Funds' = Funds /\ Payout' = Payout
    BY <1>1 DEF tables, Funds, Payout, StateOf, Status
  <2> QED
    BY <2>1, PromiseStutters
<1>2. ASSUME NEW u \in Users, Commits(u) PROVE Promise!Next
  <2>1. Ends(u)
    BY <1>2 DEF Commits
  <2>2. ASSUME NEW e \in Events, Earned(u, e) PROVE Promise!Next
    BY <2>1, <2>2, EarnedEarns DEF Promise!Next
  <2>3. ASSUME NEW a \in Auths, NEW r \in Rows, NEW e \in Events, Requested(u, a, r, e) PROVE Promise!Next
    BY <2>1, <2>3, RequestedRequests DEF Promise!Next
  <2>4. ASSUME NEW w \in withdrawals, NEW r \in Rows, Paid(u, w, r) PROVE Promise!Next
    BY <2>1, <2>4, PaidPays DEF Promise!Next
  <2>5. ASSUME NEW w \in withdrawals, NEW r \in Rows, NEW e \in Events, Refunded(u, w, r, e) PROVE Promise!Next
    BY <2>1, <2>5, RefundedRefunds DEF Promise!Next
  <2> QED
    BY <1>2, <2>2, <2>3, <2>4, <2>5 DEF Commits
<1> QED
  BY <1>1, <1>2, StepOfTables

\* The accounts keep what Payouts promises: every signed message takes its total
\* out of the earnings at most once, and is then paid or refunded, once.
THEOREM PayoutsImplemented == Spec => ImplementsPayouts
<1>1. Inv /\ [Next]_vars => [Promise!Next]_(Promise!vars)
  BY PromiseNext
<1> QED
  BY <1>1, InvInit, InvNext, PromiseInit, PTL DEF Spec, ImplementsPayouts, Promise!Spec

=============================================================================
