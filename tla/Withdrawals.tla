---------------------------- MODULE Withdrawals ----------------------------
(***************************************************************************)
(* Earnings of Key Owners and their withdrawal to the chain: the earning   *)
(* accounts, the ledger of earning events, the withdrawals, and the wallet *)
(* that follows the ledger and answers (src/service/earning.go,            *)
(* earning_withdrawal.go, src/api/v1/earn, src/api/v1/wallet).             *)
(*                                                                         *)
(* Every transaction first locks the earning account of one user, so a     *)
(* user has at most one.  It is split where another transaction or the     *)
(* wallet can come between: ids are taken when a row is inserted, and rows *)
(* are seen when it commits.                                               *)
(***************************************************************************)
EXTENDS Amounts, Sequences, FiniteSetsExt

CONSTANTS
  Users,         \* the Key Owners, each with its address
  Addresses,     \* addresses a benefit contract can name
  ZeroAddress,   \* the contract names none
  Contract,      \* Contract[u]: the address the benefit contract names for u
  Networks,      \* the withdrawal networks
  Fee,           \* Fee[n]: fixed_withdrawal_fee_cnx
  Minimum,       \* Minimum[n]: withdrawal_min_cnx
  MaxPerDay,     \* MaxPerDay[n]: max_withdrawals_per_day
  Incomes,       \* settled calls: records of the owner and the earning
  Auths,         \* signed messages: user, amount, network, to, at
  MaxAge,        \* how old a signed message may be
  MaxLead,       \* and how far in the future
  DayLength,     \* ticks of the clock in a UTC day
  PageLimit,     \* the limit of the wallet's queries
  MaxTime,       \* bound: the last tick
  MaxLost        \* bound: transactions that are rolled back after their inserts

\* checkProviderConfig: what every network of provider.wallet has.
WalletConfigIsChecked ==
  /\ Networks # {}
  /\ Fee \in [Networks -> Nat] /\ Minimum \in [Networks -> Nat] /\ MaxPerDay \in [Networks -> Nat \ {0}]

ASSUME WithdrawalsAssumption ==
  /\ Users \subseteq Addresses /\ ZeroAddress \notin Addresses
  /\ Contract \in [Users -> Addresses \cup {ZeroAddress}]
  /\ IsFiniteSet(Users) /\ IsFiniteSet(Auths) /\ IsFiniteSet(Incomes)
  /\ WalletConfigIsChecked
  /\ Incomes \subseteq [user : Users, call : Nat, amount : Nat]
  /\ Auths \subseteq [user : Users, amount : Nat \ {0}, network : Networks, to : Addresses, at : Nat]
  /\ MaxAge \in Nat /\ MaxLead \in Nat /\ MaxTime \in Nat /\ MaxLost \in Nat
  /\ DayLength \in Nat \ {0} /\ PageLimit \in Nat \ {0}

VARIABLES
  account,      \* account[u]: the earning_accounts row
  events,       \* the committed earning_events
  withdrawals,  \* the committed earning_withdrawals
  tx,           \* tx[u]: the open transaction that has locked u's account
  lastEvent,    \* the last id of earning_events given to an insert
  lastRow,      \* the same of earning_withdrawals
  now,          \* the clock
  cursor,       \* the wallet: the last event id it read
  seen,         \* the ids of the events it was given
  racing,       \* ids its cursor passed while their transaction was open
  accepted,     \* the ids of the withdrawals it was given and accepted
  left          \* what is left of MaxLost

tables == <<account, events, withdrawals>>
wallet == <<cursor, seen, racing, accepted>>
vars == <<account, events, withdrawals, tx, lastEvent, lastRow, now,
          cursor, seen, racing, accepted, left>>

-----------------------------------------------------------------------------
(* Rows and transactions. *)

WithFee(a) == a.amount + Fee[a.network]

EventTypes == {"TaskIncome", "WithdrawalFeeIncome", "Withdraw", "WithdrawRefund"}

\* user is the owner of the account, even for the fee event, which has none.
Events == [id : Nat, type : EventTypes, user : Users, source : Nat, amount : Nat]
Rows == [id : Nat, auth : Auths, status : {"pending", "success", "failed"}, event : Nat, day : Nat]
EarningAccounts == [available : Nat, locked : Nat]

\* What a transaction has checked and written: auth is the message of a create,
\* start the start of the day its limits are counted from.
Transactions ==
  [step : {"idle", "ranged", "covered", "written"}, auth : SUBSET Auths, start : Nat,
   account : EarningAccounts, rows : SUBSET Rows, events : SUBSET Events]

NoTx(u) == [step |-> "idle", auth |-> {}, start |-> 0, account |-> account[u], rows |-> {}, events |-> {}]

Idle(u) == tx[u].step = "idle"

TypeOK ==
  /\ account \in [Users -> EarningAccounts]
  /\ events \subseteq Events
  /\ withdrawals \subseteq Rows
  /\ tx \in [Users -> Transactions]
  /\ lastEvent \in Nat /\ lastRow \in Nat
  /\ now \in Nat /\ left \in Nat
  /\ cursor \in Nat /\ seen \subseteq Nat /\ racing \subseteq Nat /\ accepted \subseteq Nat

Init ==
  /\ account = [u \in Users |-> [available |-> 0, locked |-> 0]]
  /\ events = {} /\ withdrawals = {}
  /\ tx = [u \in Users |-> NoTx(u)]
  /\ lastEvent = 0 /\ lastRow = 0
  /\ now = 0 /\ left = MaxLost
  /\ cursor = 0 /\ seen = {} /\ racing = {} /\ accepted = {}

Event(type, u, source, amount) ==
  [id |-> lastEvent + 1, type |-> type, user |-> u, source |-> source, amount |-> amount]

-----------------------------------------------------------------------------
(* Earnings: CreateTaskIncomeEarningTx in the settlement of a call. *)

\* idx_earning_events_type_source: an event is inserted once per source.
Free(type, source) == \A e \in events : ~(e.type = type /\ e.source = source)

CreateTaskIncomeEarning(i) ==
  LET row == [account[i.user] EXCEPT !.available = @ + i.amount]
  IN  /\ Idle(i.user)
      /\ i.amount > 0 /\ Free("TaskIncome", i.call)
      /\ tx' = [tx EXCEPT ![i.user] =
           [NoTx(i.user) EXCEPT !.step = "written", !.account = row,
              !.events = {Event("TaskIncome", i.user, i.call, i.amount)}]]
      /\ lastEvent' = lastEvent + 1
      /\ UNCHANGED <<tables, lastRow, now, wallet, left>>

-----------------------------------------------------------------------------
(* CreateWithdrawal *)

\* GetBenefitAddress
BenefitAddress(u) == IF Contract[u] = ZeroAddress THEN u ELSE Contract[u]

Fresh(a) == a.at <= now + MaxLead /\ now <= a.at + MaxAge

Today == now \div DayLength

\* The index ranges of ensureWithdrawalDailyLimitsTx; they have no upper end.
UserRange(a, start) ==
  {w \in withdrawals : w.auth.user = a.user /\ w.auth.network = a.network /\ w.day >= start}
BenefitRange(a, start) ==
  {w \in withdrawals : w.auth.to = a.to /\ w.auth.network = a.network /\ w.day >= start}

\* countNonFailedWithdrawals
Counted(rows) == Cardinality({w \in rows : w.status # "failed"})

\* The rows another transaction of v has locked, read or changed.
LockedRows(v) ==
  {w \in withdrawals :
     \/ \E a \in tx[v].auth : \/ w \in UserRange(a, tx[v].start)
                              \/ tx[v].step # "ranged" /\ w \in BenefitRange(a, tx[v].start)
     \/ \E r \in tx[v].rows : r.id = w.id}

\* A locking read waits for rows that others have locked, or inserted.
Readable(u, rows) == \A v \in Users \ {u} : rows \cap LockedRows(v) = {}

\* Up to the locking read of the user's range.
BeginCreate(a) ==
  /\ Idle(a.user)
  /\ a.amount >= Minimum[a.network]
  /\ Fresh(a) /\ BenefitAddress(a.user) = a.to
  /\ Readable(a.user, UserRange(a, Today))
  /\ Counted(UserRange(a, Today)) < MaxPerDay[a.network]
  /\ tx' = [tx EXCEPT ![a.user] =
       [NoTx(a.user) EXCEPT !.step = "ranged", !.auth = {a}, !.start = Today]]
  /\ UNCHANGED <<tables, lastEvent, lastRow, now, wallet, left>>

\* Mutant of NoneInserted: a plain read does not wait for open inserts.
NotWaiting(a) == TRUE

\* No open transaction has inserted a row in the range of a's benefit address.
NoneInserted(a) ==
  \A v \in Users \ {a.user} : \A r \in tx[v].rows :
    (\A w \in withdrawals : w.id # r.id) => ~(r.auth.to = a.to /\ r.auth.network = a.network)

\* ErrInsufficientEarnings otherwise.
Covered(a) == account[a.user].available >= WithFee(a)

\* The locking read of the range of the benefit address, and the balance.
LockBenefitRange(a) ==
  LET range == BenefitRange(a, tx[a.user].start)
  IN  /\ tx[a.user].step = "ranged" /\ a \in tx[a.user].auth
      /\ NoneInserted(a) /\ Readable(a.user, range)
      /\ Counted(range) < MaxPerDay[a.network]
      /\ Covered(a)
      /\ tx' = [tx EXCEPT ![a.user].step = "covered"]
      /\ UNCHANGED <<tables, lastEvent, lastRow, now, wallet, left>>

\* An insert waits for the others that have locked the range it falls into.
Insertable(a) ==
  \A v \in Users \ {a.user} : \A b \in tx[v].auth :
    ~(tx[v].step # "ranged" /\ b.to = a.to /\ b.network = a.network)

\* Mutant of Unused: no unique index on the fingerprint.
AnyUse(a) == TRUE

\* The unique authorization_fingerprint.
Unused(a) == \A w \in withdrawals : w.auth # a

InsertWithdrawal(a) ==
  LET u == a.user
  IN  /\ tx[u].step = "covered" /\ a \in tx[u].auth
      /\ Insertable(a) /\ Unused(a)
      /\ tx' = [tx EXCEPT ![u] =
           [tx[u] EXCEPT !.step = "written",
              !.account = [available |-> account[u].available - WithFee(a),
                           locked |-> account[u].locked + WithFee(a)],
              !.rows = {[id |-> lastRow + 1, auth |-> a, status |-> "pending",
                         event |-> lastEvent + 1, day |-> Today]},
              !.events = {Event("Withdraw", u, lastRow + 1, WithFee(a))}]]
      /\ lastEvent' = lastEvent + 1
      /\ lastRow' = lastRow + 1
      /\ UNCHANGED <<tables, now, wallet, left>>

-----------------------------------------------------------------------------
(* FulfillWithdrawal and RejectWithdrawal, called and repeated by the wallet. *)

\* Mutant of Open: a terminal row is settled again, as the other outcome too.
OpenAgain(w) == TRUE

\* A row of another status is left alone, with success or as a conflict.
Open(w) == w.status = "pending"

\* Both locks are held: the account's, then the row's.
Settling(w, status, row, evs) ==
  /\ Idle(w.auth.user)
  /\ w.id \in accepted
  /\ Readable(w.auth.user, {w})
  /\ Open(w)
  /\ account[w.auth.user].locked >= WithFee(w.auth)
  /\ tx' = [tx EXCEPT ![w.auth.user] =
       [NoTx(w.auth.user) EXCEPT !.step = "written", !.account = row,
          !.rows = {[w EXCEPT !.status = status]}, !.events = evs]]
  /\ lastEvent' = lastEvent + Cardinality(evs)
  /\ UNCHANGED <<tables, lastRow, now, wallet, left>>

FulfillWithdrawal(w) ==
  LET u == w.auth.user
      fee == Fee[w.auth.network]
  IN  Settling(w, "success",
        [account[u] EXCEPT !.locked = @ - WithFee(w.auth)],
        IF fee > 0 THEN {Event("WithdrawalFeeIncome", u, w.id, fee)} ELSE {})

\* Mutant of Restored: only the amount is given back.
RestoredAmount(row, a) == [available |-> row.available + a.amount, locked |-> row.locked - WithFee(a)]

Restored(row, a) == [available |-> row.available + WithFee(a), locked |-> row.locked - WithFee(a)]

RejectWithdrawal(w) ==
  LET u == w.auth.user
  IN  Settling(w, "failed", Restored(account[u], w.auth),
        {Event("WithdrawRefund", u, w.id, WithFee(w.auth))})

-----------------------------------------------------------------------------
(* The end of a transaction. *)

Commit(u) ==
  /\ tx[u].step = "written"
  /\ account' = [account EXCEPT ![u] = tx[u].account]
  /\ events' = events \cup tx[u].events
  /\ withdrawals' = {w \in withdrawals : \A r \in tx[u].rows : r.id # w.id} \cup tx[u].rows
  /\ tx' = [tx EXCEPT ![u] = [NoTx(u) EXCEPT !.account = tx[u].account]]
  /\ UNCHANGED <<lastEvent, lastRow, now, wallet, left>>

\* An error, a check that fails, a deadlock, a timeout, or a crash: the ids are spent.
Rollback(u) ==
  /\ ~Idle(u)
  /\ IF tx[u].step = "written" THEN left > 0 /\ left' = left - 1 ELSE UNCHANGED left
  /\ tx' = [tx EXCEPT ![u] = NoTx(u)]
  /\ UNCHANGED <<tables, lastEvent, lastRow, now, wallet>>

-----------------------------------------------------------------------------
(* The wallet's queries.  Every event is written as processed. *)

\* Mutant of Page: the newest rows first.
NewestPage(ids) == {i \in ids : Cardinality({k \in ids : k > i}) < PageLimit}

\* ORDER BY id ASC LIMIT
Page(ids) == {i \in ids : Cardinality({k \in ids : k < i}) < PageLimit}

\* ListProcessedEarningEventsForWallet; the wallet keeps the last id.
ListEvents ==
  LET page == Page({e.id : e \in {x \in events : x.id > cursor}})
      last == Max(page)
  IN  /\ page # {}
      /\ cursor' = last
      /\ seen' = seen \cup page
      /\ racing' = racing \cup
           {i \in UNION {{e.id : e \in tx[u].events} : u \in Users} : i < last}
      /\ UNCHANGED <<tables, tx, lastEvent, lastRow, now, accepted, left>>

\* ListPendingWithdrawalsForWallet from some start_id; the wallet accepts those
\* whose event its own copy of the ledger includes.
ListPendingWithdrawals(start) ==
  LET pending == {w \in withdrawals : w.status = "pending" /\ w.id > start}
      page == Page({w.id : w \in pending})
      new == {i \in page \ accepted : \E w \in pending : w.id = i /\ w.event <= cursor}
  IN  /\ new # {}
      /\ accepted' = accepted \cup new
      /\ UNCHANGED <<tables, tx, lastEvent, lastRow, now, cursor, seen, racing, left>>

-----------------------------------------------------------------------------
(* The clock. *)

Tick ==
  /\ now < MaxTime
  /\ now' = now + 1
  /\ UNCHANGED <<tables, tx, lastEvent, lastRow, wallet, left>>

-----------------------------------------------------------------------------
Next ==
  \/ \E i \in Incomes : CreateTaskIncomeEarning(i)
  \/ \E a \in Auths : BeginCreate(a) \/ LockBenefitRange(a) \/ InsertWithdrawal(a)
  \/ \E w \in withdrawals : FulfillWithdrawal(w) \/ RejectWithdrawal(w)
  \/ \E u \in Users : Commit(u) \/ Rollback(u)
  \/ ListEvents
  \/ \E start \in 0..lastRow : ListPendingWithdrawals(start)
  \/ Tick

Spec == Init /\ [][Next]_vars

-----------------------------------------------------------------------------
(* Safety. *)

Of(u, type) == {e \in events : e.user = u /\ e.type = type}
Mine(u, status) == {w \in withdrawals : w.auth.user = u /\ w.status = status}

\* Sums over events and over withdrawals.
Sum(evs) == Total([e \in evs |-> e.amount])
Promised(rows) == Total([w \in rows |-> WithFee(w.auth)])

\* The ledger explains the account: what is available is what was earned and
\* given back less what was withdrawn, and what is locked is what the pending
\* withdrawals wait for, however fulfil, reject and create race.
LedgerExplainsAccount ==
  \A u \in Users :
    /\ account[u].available + Sum(Of(u, "Withdraw")) = Sum(Of(u, "TaskIncome")) + Sum(Of(u, "WithdrawRefund"))
    /\ account[u].locked = Promised(Mine(u, "pending"))

\* A withdrawal is anchored by one Withdraw event, whose id its row carries;
\* it has a fee event exactly when it was paid and a refund exactly when it was
\* rejected, once and never both, whatever the wallet repeats.
SettledOnce ==
  \A w \in withdrawals :
    LET with(type) == {e \in events : e.type = type /\ e.source = w.id}
    IN  /\ {e.id : e \in with("Withdraw")} = {w.event}
        /\ Cardinality(with("WithdrawalFeeIncome"))
             = IF w.status = "success" /\ Fee[w.auth.network] > 0 THEN 1 ELSE 0
        /\ Cardinality(with("WithdrawRefund")) = IF w.status = "failed" THEN 1 ELSE 0

\* On no day has a user, or a benefit address that several users share, more
\* withdrawals on a network than the limit, even when creates run concurrently.
DailyLimits ==
  \A w \in withdrawals :
    LET day(range) == {x \in range : x.day = w.day}
    IN  /\ Counted(day(UserRange(w.auth, w.day))) <= MaxPerDay[w.auth.network]
        /\ Counted(day(BenefitRange(w.auth, w.day))) <= MaxPerDay[w.auth.network]

\* The wallet's copy of the ledger lacks no event that its cursor has passed but
\* those whose transaction was open while a later event was listed; and together
\* with these few, the earnings it was told of pay for all it paid and accepted
\* of a user, however creates, settlements and its two queries interleave.
WalletIsCovered ==
  /\ \A e \in events : e.id <= cursor => e.id \in seen \cup racing
  /\ \A u \in Users :
       LET passed == {e \in Of(u, "TaskIncome") : e.id \in seen \cup racing}
           owed == {w \in withdrawals : w.auth.user = u /\ w.id \in accepted /\ w.status # "failed"}
       IN  Sum(passed) >= Promised(owed)

\* What the wallet API promises: a later event is never exposed while an earlier
\* one is hidden.  It fails where an id is taken before, and committed after, the
\* event behind it was listed.
EarlierEventsAreShown == \A e \in events : e.id <= cursor => e.id \in seen

-----------------------------------------------------------------------------
(* The abstract promise. *)

Status(a) == {w.status : w \in {x \in withdrawals : x.auth = a}}

Promise == INSTANCE Payouts WITH
  OwnerOf <- [a \in Auths |-> a.user],
  TotalOf <- [a \in Auths |-> WithFee(a)],
  available <- [u \in Users |-> account[u].available],
  payout <- [a \in Auths |-> IF Status(a) = {} THEN "none"
                             ELSE IF "pending" \in Status(a) THEN "pending"
                             ELSE IF "success" \in Status(a) THEN "paid" ELSE "refunded"]

\* Every authorization takes its total out of the available earnings at most
\* once, and is then paid once or refunded once.
ImplementsPayouts == Promise!Spec
=============================================================================
