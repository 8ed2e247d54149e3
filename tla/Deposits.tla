------------------------------ MODULE Deposits ------------------------------
(***************************************************************************)
(* Deposits on several networks, each scanned by a processor of its own,   *)
(* credited with a reward for the referrer of the sender; the logins that  *)
(* register wallets, and their invite codes                                *)
(* (src/service/blockchain_processor.go, credits.go, referral.go).         *)
(*                                                                         *)
(* A deposit is one transaction, split where the processor of another      *)
(* network can come between: it inserts and locks the sender's account,    *)
(* reads the binding with a plain read, and locks the referrer's account.  *)
(* Under MySQL's REPEATABLE READ that plain read fixes what every later    *)
(* plain read of the transaction sees, the count of purchases too.         *)
(***************************************************************************)
EXTENDS Amounts, Sequences, FiniteSetsExt

CONSTANTS
  Wallets,       \* addresses that may log in or send tokens
  NoUser,        \* no referrer
  Older,         \* wallets that registered before there were invite codes
  Networks,      \* the keys of blockchains in the configuration
  Logs,          \* Transfer logs to the receiving address
  Confirmation,  \* Confirmation[n]: confirmation_blocks
  StartBlock,    \* StartBlock[n]: start_block_num
  LogRange,      \* LogRange[n]: log_block_range
  PerToken,      \* credits_per_token
  TokenUnit,     \* 10^decimals
  SignupBonus,   \* credits.signup_bonus
  InviteeBonus,  \* credits.referral.invitee_bonus
  Ratio,         \* deposit_reward_ratio, in parts of RatioUnit
  RatioUnit,     \* the denominator of all ratios
  Tiers,         \* purchase_bonus_tiers: records of min and extra
  MaxHead,       \* MaxHead[n], bound: the last block
  MaxCodes,      \* MaxCodes[w], bound: invite codes of a user
  MaxFaults      \* bound: calls that fail or lose their reply, crashes

\* checkCreditsConfig: no two tiers start at the same count, and a reward is never more than the deposit.
CreditsConfigIsChecked ==
  /\ \A s, t \in Tiers : s.min = t.min => s = t
  /\ Ratio + Total([t \in Tiers |-> t.extra]) <= RatioUnit

ASSUME DepositsAssumption ==
  /\ IsFiniteSet(Logs) /\ NoUser \notin Wallets /\ Older \subseteq Wallets
  /\ Logs \subseteq [network : Networks, block : Nat \ {0}, index : Nat, from : Wallets,
                     amount : Nat, valid : BOOLEAN]
  /\ Confirmation \in [Networks -> Nat] /\ StartBlock \in [Networks -> Nat]
  /\ LogRange \in [Networks -> Nat \ {0}]
  /\ PerToken \in Nat \ {0} /\ TokenUnit \in Nat \ {0} /\ RatioUnit \in Nat \ {0}
  /\ SignupBonus \in Nat /\ InviteeBonus \in Nat /\ Ratio \in Nat
  /\ IsFiniteSet(Tiers) /\ Tiers \subseteq [min : Nat \ {0}, extra : Nat]
  /\ CreditsConfigIsChecked
  /\ MaxHead \in [Networks -> Nat] /\ MaxCodes \in [Wallets -> Nat] /\ MaxFaults \in Nat

VARIABLES
  user,      \* user[w]: the users row and the referral_bindings row
  codes,     \* codes[w]: the active referral_codes
  issued,    \* issued[w]: how many codes w was ever given
  without,   \* without[w]: transactions that found w without an active code
  balance,   \* balance[w]: credit_accounts.balance
  events,    \* the credit_events
  deposits,  \* the deposits rows in the order of their commits
  rewards,   \* the referral_rewards rows
  head,      \* head[n]: the latest block
  cursor,    \* cursor[n]: blockchain_cursors.last_block_num
  proc,      \* proc[n]: the processor of n
  ignored,   \* logs that were passed over because their sender was unknown
  left       \* what is left of MaxFaults

accounts == <<user, codes, issued, without>>
ledger == <<balance, events, deposits, rewards>>
vars == <<user, codes, issued, without, balance, events, deposits, rewards,
          head, cursor, proc, ignored, left>>

-----------------------------------------------------------------------------
(* Amounts. *)

ConvertTokenAmountToCredits(amount) == (amount * PerToken) \div TokenUnit

Credits(log) == ConvertTokenAmountToCredits(log.amount)

\* PurchaseBonusExtra: every tier that is reached adds to the ratio.
Reached(prior) == {t \in Tiers : t.min <= prior}
PurchaseBonusExtra(prior) == Total([t \in Reached(prior) |-> t.extra])

\* floorCreditsTimesRatio
RewardFor(credits, prior) == (credits * (Ratio + PurchaseBonusExtra(prior))) \div RatioUnit

-----------------------------------------------------------------------------
(* State. *)

\* An event is identified by its type and what it refers to.
EventTypes == {"deposit", "signup", "invitee", "referral"}
Events == [type : EventTypes, user : Wallets, ref : Wallets \cup Logs, amount : Nat]

Rewards == [log : Logs, referrer : Wallets, prior : Nat, amount : Nat]

Steps == {"idle", "scanning", "inserted", "bound"}

\* todo are the logs of the range up to last that are left; read is how many of
\* the deposits the plain reads of its transaction see.
Processors == [step : Steps, todo : SUBSET Logs, last : Nat, read : Nat]
IdleProcessor == [step |-> "idle", todo |-> {}, last |-> 0, read |-> 0]

TypeOK ==
  /\ user \in [Wallets -> [known : BOOLEAN, referrer : Wallets \cup {NoUser}]]
  /\ codes \in [Wallets -> SUBSET Nat]
  /\ issued \in [Wallets -> Nat] /\ without \in [Wallets -> Nat]
  /\ balance \in [Wallets -> Nat]
  /\ \A e \in events : e.type \in EventTypes /\ e.user \in Wallets /\ e.amount \in Nat \ {0}
  /\ deposits \in Seq(Logs)
  /\ rewards \subseteq Rewards
  /\ head \in [Networks -> Nat] /\ cursor \in [Networks -> Nat]
  /\ proc \in [Networks -> Processors]
  /\ ignored \subseteq Logs
  /\ left \in Nat

Deposited == {deposits[i] : i \in DOMAIN deposits}

Init ==
  /\ user = [w \in Wallets |-> [known |-> w \in Older, referrer |-> NoUser]]
  /\ codes = [w \in Wallets |-> {}]
  /\ issued = [w \in Wallets |-> 0]
  /\ without = [w \in Wallets |-> 0]
  /\ balance = [w \in Wallets |-> 0]
  /\ events = {} /\ deposits = <<>> /\ rewards = {}
  /\ head = StartBlock /\ cursor = StartBlock
  /\ proc = [n \in Networks |-> IdleProcessor]
  /\ ignored = {}
  /\ left = MaxFaults

Take == left > 0 /\ left' = left - 1

Event(type, u, ref, amount) ==
  IF amount = 0 THEN {} ELSE {[type |-> type, user |-> u, ref |-> ref, amount |-> amount]}

-----------------------------------------------------------------------------
(* Logins and invite codes. *)

\* EnsureUserWithReferral without a usable code; a known wallet is left alone.
Register(w) ==
  /\ ~user[w].known
  /\ user' = [user EXCEPT ![w].known = TRUE]
  /\ balance' = [balance EXCEPT ![w] = SignupBonus]
  /\ events' = events \cup Event("signup", w, w, SignupBonus)
  /\ codes' = [codes EXCEPT ![w] = {1}]
  /\ issued' = [issued EXCEPT ![w] = 1]
  /\ UNCHANGED <<without, deposits, rewards, head, cursor, proc, ignored, left>>

\* The same with an active code of another user.
RegisterInvited(w, referrer, code) ==
  /\ ~user[w].known
  /\ code \in codes[referrer]
  /\ user' = [user EXCEPT ![w] = [known |-> TRUE, referrer |-> referrer]]
  /\ balance' = [balance EXCEPT ![w] = SignupBonus + InviteeBonus]
  /\ events' = events \cup Event("signup", w, w, SignupBonus) \cup Event("invitee", w, w, InviteeBonus)
  /\ codes' = [codes EXCEPT ![w] = {1}]
  /\ issued' = [issued EXCEPT ![w] = 1]
  /\ UNCHANGED <<without, deposits, rewards, head, cursor, proc, ignored, left>>

\* The bound on codes, the ones that are being created included.
MayHaveMore(w) == issued[w] + without[w] < MaxCodes[w]

\* The active code is revoked; bindings stay.
ResetReferralCode(w) ==
  /\ user[w].known /\ MayHaveMore(w)
  /\ codes' = [codes EXCEPT ![w] = {issued[w] + 1}]
  /\ issued' = [issued EXCEPT ![w] = @ + 1]
  /\ UNCHANGED <<user, without, ledger, head, cursor, proc, ignored, left>>

\* EnsureActiveReferralCode: the transaction reads that there is no code; no lock keeps it so.
FindNoReferralCode(w) ==
  /\ user[w].known /\ codes[w] = {} /\ MayHaveMore(w)
  /\ without' = [without EXCEPT ![w] = @ + 1]
  /\ UNCHANGED <<user, codes, issued, ledger, head, cursor, proc, ignored, left>>

\* The same, createActiveReferralCode: it adds one, also when another did so meanwhile.
CreateReferralCode(w) ==
  /\ without[w] > 0
  /\ codes' = [codes EXCEPT ![w] = @ \cup {issued[w] + 1}]
  /\ issued' = [issued EXCEPT ![w] = @ + 1]
  /\ without' = [without EXCEPT ![w] = @ - 1]
  /\ UNCHANGED <<user, ledger, head, cursor, proc, ignored, left>>

-----------------------------------------------------------------------------
(* The processors. *)

At(n, step) == proc[n].step = step

\* Mutant of ConfirmedTip: the latest block is scanned.
LatestTip(n) == head[n]

ConfirmedTip(n) == head[n] - Confirmation[n]

\* processNetworkBlockRange up to the answer with the logs of the range.
ScanRange(n) ==
  LET last == Min({ConfirmedTip(n), cursor[n] + LogRange[n]})
  IN  /\ At(n, "idle")
      /\ cursor[n] < ConfirmedTip(n)
      /\ proc' = [proc EXCEPT ![n] = [IdleProcessor EXCEPT !.step = "scanning", !.last = last,
           !.todo = {l \in Logs : l.network = n /\ l.block \in cursor[n] + 1 .. last}]]
      /\ UNCHANGED <<accounts, ledger, head, cursor, ignored, left>>

\* The logs come in the order of the chain.
IsNext(n, l) ==
  /\ l \in proc[n].todo
  /\ \A k \in proc[n].todo \ {l} : l.block < k.block \/ (l.block = k.block /\ l.index < k.index)

Handled(n, l) == [proc EXCEPT ![n] = [proc[n] EXCEPT !.step = "scanning", !.todo = @ \ {l}, !.read = 0]]

\* Unknown contracts, unmatched topics, zero amounts and senders, less than one
\* Credit, and logs that are recorded already.
IgnoreLog(n, l) ==
  /\ At(n, "scanning") /\ IsNext(n, l)
  /\ ~l.valid \/ l.amount = 0 \/ Credits(l) = 0 \/ l \in Deposited
  /\ proc' = Handled(n, l)
  /\ UNCHANGED <<accounts, ledger, head, cursor, ignored, left>>

IgnoreUnknownSender(n, l) ==
  /\ At(n, "scanning") /\ IsNext(n, l)
  /\ l.valid /\ Credits(l) > 0
  /\ ~user[l.from].known
  /\ proc' = Handled(n, l)
  /\ ignored' = ignored \cup {l}
  /\ UNCHANGED <<accounts, ledger, head, cursor, left>>

\* The account that a deposit in progress on m has locked.
Locks(m, w) == proc[m].step \in {"inserted", "bound"} /\ \E l \in Logs : IsNext(m, l) /\ l.from = w

Unlocked(n, w) == \A m \in Networks \ {n} : ~Locks(m, w)

\* Mutant of New: no unique index on (network, tx_hash, log_index).
NewAlways(l) == TRUE

\* idx_deposits_network_tx_log
New(l) == l \notin Deposited

\* ProcessDeposit: the deposit and its event are inserted, the account locked.
InsertDeposit(n, l) ==
  /\ At(n, "scanning") /\ IsNext(n, l)
  /\ l.valid /\ Credits(l) > 0 /\ user[l.from].known /\ New(l)
  /\ Unlocked(n, l.from)
  /\ proc' = [proc EXCEPT ![n].step = "inserted"]
  /\ UNCHANGED <<accounts, ledger, head, cursor, ignored, left>>

\* What the transaction for l writes for the sender.
CreditSender(l) == [balance EXCEPT ![l.from] = @ + Credits(l)]

DepositEvent(l) == Event("deposit", l.from, l, Credits(l))

\* After a commit the processor goes on, or loses the reply and gives up the tick.
Committed(n, l) ==
  \/ proc' = Handled(n, l) /\ UNCHANGED left
  \/ proc' = [proc EXCEPT ![n] = IdleProcessor] /\ Take

\* applyDepositReferralReward finds no binding.
CommitUnbound(n, l) ==
  /\ At(n, "inserted") /\ IsNext(n, l)
  /\ user[l.from].referrer = NoUser
  /\ balance' = CreditSender(l)
  /\ events' = events \cup DepositEvent(l)
  /\ deposits' = Append(deposits, l)
  /\ Committed(n, l)
  /\ UNCHANGED <<accounts, rewards, head, cursor, ignored>>

\* It finds one: what a later plain read will see is fixed now, before the lock.
ReadBinding(n, l) ==
  /\ At(n, "inserted") /\ IsNext(n, l)
  /\ user[l.from].referrer # NoUser
  /\ proc' = [proc EXCEPT ![n].step = "bound", ![n].read = Len(deposits)]
  /\ UNCHANGED <<accounts, ledger, head, cursor, ignored, left>>

\* Mutant of CountInviteePurchases: deposits of any user count.
CountAll(referrer, read) == read

\* CountInviteePurchases among the rows that the transaction sees.
CountInviteePurchases(referrer, read) ==
  Cardinality({i \in 1..read : user[deposits[i].from].referrer = referrer})

CreditReferrer(l, amount) == [CreditSender(l) EXCEPT ![user[l.from].referrer] = @ + amount]

\* The referrer's account is locked, the reward written, and all of it committed.
CommitReward(n, l) ==
  LET referrer == user[l.from].referrer
      prior == CountInviteePurchases(referrer, proc[n].read)
      amount == RewardFor(Credits(l), prior)
  IN  /\ At(n, "bound") /\ IsNext(n, l)
      /\ Unlocked(n, referrer)
      /\ balance' = CreditReferrer(l, amount)
      /\ events' = events \cup DepositEvent(l) \cup Event("referral", referrer, l, amount)
      /\ deposits' = Append(deposits, l)
      /\ rewards' = rewards \cup
           (IF amount = 0 THEN {}
            ELSE {[log |-> l, referrer |-> referrer, prior |-> prior, amount |-> amount]})
      /\ Committed(n, l)
      /\ UNCHANGED <<accounts, head, cursor, ignored>>

\* Mutant of AllHandled: the cursor moves before the logs are handled.
AnyTodo(n) == TRUE

AllHandled(n) == proc[n].todo = {}

\* The cursor is saved after the range, or is not; a lost reply does not matter.
SaveCursor(n) ==
  /\ At(n, "scanning") /\ AllHandled(n)
  /\ cursor' = [cursor EXCEPT ![n] = proc[n].last]
  /\ proc' = [proc EXCEPT ![n] = IdleProcessor]
  /\ UNCHANGED <<accounts, ledger, head, ignored, left>>

\* A failed call ends the tick, a crash the process: open transactions are
\* rolled back and the range is scanned again.
TickFails(n) ==
  /\ ~At(n, "idle")
  /\ Take
  /\ proc' = [proc EXCEPT ![n] = IdleProcessor]
  /\ UNCHANGED <<accounts, ledger, head, cursor, ignored>>

Mine(n) ==
  /\ head[n] < MaxHead[n]
  /\ head' = [head EXCEPT ![n] = @ + 1]
  /\ UNCHANGED <<accounts, ledger, cursor, proc, ignored, left>>

-----------------------------------------------------------------------------
ProcessorStep(n) ==
  \/ ScanRange(n)
  \/ \E l \in Logs : \/ IgnoreLog(n, l) \/ IgnoreUnknownSender(n, l) \/ InsertDeposit(n, l)
                     \/ CommitUnbound(n, l) \/ ReadBinding(n, l) \/ CommitReward(n, l)
  \/ SaveCursor(n)

Next ==
  \/ \E w \in Wallets : Register(w) \/ ResetReferralCode(w) \/ FindNoReferralCode(w) \/ CreateReferralCode(w)
  \/ \E w, r \in Wallets : \E code \in 1..MaxCodes[r] : RegisterInvited(w, r, code)
  \/ \E n \in Networks : ProcessorStep(n) \/ TickFails(n) \/ Mine(n)

Spec == Init /\ [][Next]_vars

\* The ticker of every network fires for as long as the process runs, and the
\* chain goes on; nobody has to log in.
FairSpec == Spec /\ \A n \in Networks : WF_vars(ProcessorStep(n)) /\ WF_vars(Mine(n))

-----------------------------------------------------------------------------
(* Properties. *)

\* The sum of the credit_events of a wallet.
EventsOf(w) == {e \in events : e.user = w}
Credited(w) == Total([e \in EventsOf(w) |-> e.amount])

\* No log is inserted twice.
DepositedOnce == \A i, j \in DOMAIN deposits : deposits[i] = deposits[j] => i = j

\* The credit events explain every balance, one event per type and source: a
\* log that is scanned again after a crash or a lost reply is credited once, to
\* its sender and to the referrer.
EventsExplainBalances ==
  /\ \A w \in Wallets : balance[w] = Credited(w)
  /\ DepositedOnce
  /\ \A l \in Deposited : DepositEvent(l) \subseteq events

\* The cursor never passes a log that was not handled: below it, every log with
\* a Credit's worth is credited or was sent by a wallet unknown then; and none is
\* credited before it is confirmed.
CursorPassesHandled ==
  /\ \A l \in Logs : l.block \in StartBlock[l.network] + 1 .. cursor[l.network] =>
       \/ l \in Deposited \cup ignored
       \/ ~l.valid \/ Credits(l) = 0
  /\ \A l \in Deposited : l.block + Confirmation[l.network] <= head[l.network]

\* The deposits of a referrer's invitees among the first s.
Purchases(referrer, s) == Cardinality({k \in 1..s : user[deposits[k].from].referrer = referrer})

\* The transactions that a reward's own can have missed: a wallet's account is
\* locked by one deposit at a time, and a network has one processor.
MayBeMissed(r, k) == deposits[k].from # r.log.from /\ deposits[k].network # r.log.network

\* The reward r of the i-th deposit is paid for exactly the purchases that had
\* committed before some earlier moment s, and every one between s and i is of
\* another wallet on another network.
IsPaidFor(r, i) ==
  /\ deposits[i] = r.log /\ user[r.log.from].referrer = r.referrer
  /\ \E s \in 0..(i - 1) : r.prior = Purchases(r.referrer, s) /\ \A k \in s + 1 .. i - 1 : MayBeMissed(r, k)
  /\ r.amount = RewardFor(Credits(r.log), r.prior)

\* A reward goes once, to the referrer of the sender of a deposit, at the tiers of
\* the purchases before it; the count leaves out none but the latest ones, and of
\* those only what other processors committed for other wallets meanwhile.
RewardsAreJustified ==
  /\ \A r \in rewards : \E i \in DOMAIN deposits : IsPaidFor(r, i)
  /\ \A r, s \in rewards : r.log = s.log => r = s

\* No other reward is written, and none that is due is missing.
RewardsAreEarned ==
  /\ RewardsAreJustified
  /\ \A l \in Deposited :
       user[l.from].referrer # NoUser /\ RewardFor(Credits(l), 0) > 0 => \E r \in rewards : r.log = l

\* What the documents and the comment at the lock promise: the count of a reward
\* is that of all purchases which committed before its deposit.  It holds where
\* one network is configured; on two, the snapshot is taken before the lock.
RewardsCountAll ==
  \A r \in rewards : \E i \in DOMAIN deposits :
    deposits[i] = r.log /\ r.prior = Purchases(r.referrer, i - 1)

\* A confirmed deposit of a wallet that is known when its block is reached is
\* credited in the end, after any number of failed ticks and whatever the
\* processors of other networks lock.
DepositsAreCredited ==
  \A l \in Logs :
    (/\ l.valid /\ Credits(l) > 0 /\ user[l.from].known
     /\ l.block > cursor[l.network] /\ l \notin ignored) ~> l \in Deposited
=============================================================================
