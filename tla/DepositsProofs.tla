--------------------------- MODULE DepositsProofs ---------------------------
(***************************************************************************)
(* Theorems about Deposits, for every set of networks, wallets and logs,   *)
(* every configuration and every number of faults: the cursor passes only  *)
(* what was handled, a log is inserted once, the events explain every      *)
(* balance, and every reward that is due is written, and no other.         *)
(***************************************************************************)
EXTENDS Deposits, AmountsProofs, FiniteSetTheorems, TLAPS

-----------------------------------------------------------------------------
(* The part of the state the proofs speak of. *)

Typed ==
  /\ user \in [Wallets -> [known : BOOLEAN, referrer : Wallets \cup {NoUser}]]
  /\ deposits \in Seq(Logs)
  /\ head \in [Networks -> Nat] /\ cursor \in [Networks -> Nat]
  /\ proc \in [Networks -> Processors]
  /\ ignored \subseteq Logs

\* A log the cursor may pass.
IsHandled(l) == l \in Deposited \cup ignored \/ ~l.valid \/ Credits(l) = 0

\* What a scan in progress on n knows: its range is confirmed, and what it has
\* not left to do of the range is handled.
ScanOf(n) ==
  /\ \A l \in proc[n].todo : l.network = n
  /\ proc[n].step # "idle" =>
       /\ proc[n].last + Confirmation[n] <= head[n]
       /\ \A l \in proc[n].todo : l.block <= proc[n].last
       /\ \A l \in Logs : l.network = n /\ l.block \in cursor[n] + 1 .. proc[n].last
                            => l \in proc[n].todo \/ IsHandled(l)

ScanInv == Typed /\ CursorPassesHandled /\ \A n \in Networks : ScanOf(n)

-----------------------------------------------------------------------------
(* The kinds of steps. *)

OtherScans(n) == \A m \in Networks : m # n => proc'[m] = proc[m] /\ cursor'[m] = cursor[m]

\* A step that no scan takes part in.
Aside == UNCHANGED <<deposits, cursor, proc, ignored>> /\ \A n \in Networks : head'[n] \in Nat /\ head[n] <= head'[n]

\* A step inside the transaction of one log.
Inside(n) ==
  /\ UNCHANGED <<deposits, cursor, head, ignored, user>> /\ OtherScans(n)
  /\ \E step \in {"inserted", "bound"}, read \in Nat :
       proc' = [proc EXCEPT ![n] = [proc[n] EXCEPT !.step = step, !.read = read]]
  /\ proc[n].step # "idle"

\* The rest of a log's range goes on, with the log handled.
Passes(n, l) ==
  /\ proc[n].step # "idle" /\ l \in proc[n].todo /\ l \in Logs
  /\ proc' = Handled(n, l) /\ UNCHANGED <<cursor, head, user>>

\* The scan ends, to be repeated from the cursor.
GivesUp(n) == proc' = [proc EXCEPT ![n] = IdleProcessor] /\ UNCHANGED <<cursor, head, user>>

\* A deposit is committed.
Commits(n, l) ==
  /\ proc[n].step # "idle" /\ l \in proc[n].todo /\ l \in Logs
  /\ deposits' = Append(deposits, l) /\ ignored' = ignored
  /\ (Passes(n, l) \/ GivesUp(n))

\* A log is passed over.
Skips(n, l) ==
  /\ deposits' = deposits /\ Passes(n, l)
  /\ \/ ignored' = ignored \cup {l}
     \/ ignored' = ignored /\ IsHandled(l)

Abandons(n) == GivesUp(n) /\ UNCHANGED <<deposits, ignored>>

ScanStep ==
  \/ Aside
  \/ \E n \in Networks : \/ ScanRange(n) \/ Inside(n) \/ SaveCursor(n) \/ Abandons(n)
                         \/ \E l \in Logs : Commits(n, l) \/ Skips(n, l)

\* A log without an amount is worth nothing.
LEMMA NoAmount ==
  ASSUME NEW l \in Logs, l.amount = 0
  PROVE  Credits(l) = 0
<1>1. PerToken \in Nat /\ TokenUnit \in Nat \ {0}
  BY DepositsAssumption
<1>2. 0 * PerToken = 0
  BY <1>1
<1>3. 0 \div TokenUnit = 0
  BY <1>1
<1>4. ConvertTokenAmountToCredits(0) = (0 * PerToken) \div TokenUnit
  BY DEF ConvertTokenAmountToCredits
<1>5. ConvertTokenAmountToCredits(0) = 0
  BY <1>2, <1>3, <1>4
<1> QED
  BY <1>5 DEF Credits

\* A count of purchases is a number.
LEMMA PurchasesTyped ==
  ASSUME NEW referrer, NEW s \in Nat
  PROVE  Purchases(referrer, s) \in Nat
<1>1. IsFiniteSet(1..s)
  BY FS_Interval
<1>2. IsFiniteSet({k \in 1..s : user[deposits[k].from].referrer = referrer})
  BY <1>1, FS_Subset
<1> QED
  BY <1>2, FS_CardinalityType DEF Purchases

\* The logins and codes leave the scans alone, and so do blocks.
LEMMA LoginsAside ==
  ASSUME Typed,
         \/ \E w \in Wallets : Register(w) \/ ResetReferralCode(w) \/ FindNoReferralCode(w) \/ CreateReferralCode(w)
         \/ \E w, r \in Wallets : \E code \in 1..MaxCodes[r] : RegisterInvited(w, r, code)
         \/ \E n \in Networks : Mine(n)
         \/ UNCHANGED vars
  PROVE  Aside
<1>1. ASSUME NEW n \in Networks, Mine(n) PROVE Aside
  BY <1>1 DEF Typed, Mine, Aside, accounts, ledger
<1>2. ASSUME UNCHANGED <<deposits, head, cursor, proc, ignored>> PROVE Aside
  BY <1>2 DEF Typed, Aside
<1> QED
  BY <1>1, <1>2 DEF Register, ResetReferralCode, FindNoReferralCode, CreateReferralCode, RegisterInvited,
                    ledger, vars

\* The insert and the read of the binding are steps inside a transaction.
LEMMA InsertIsInside ==
  ASSUME Typed, NEW n \in Networks, NEW l \in Logs, InsertDeposit(n, l)
  PROVE  Inside(n)
<1>1. /\ proc' = [proc EXCEPT ![n] = [proc[n] EXCEPT !.step = "inserted", !.read = proc[n].read]]
      /\ proc[n].read \in Nat
  <2>1. proc[n] \in [step : Steps, todo : SUBSET Logs, last : Nat, read : Nat]
    BY DEF Typed, Processors
  <2>2. [proc[n] EXCEPT !.step = "inserted"] = [proc[n] EXCEPT !.step = "inserted", !.read = proc[n].read]
    BY <2>1
  <2>3. proc' = [proc EXCEPT ![n] = [proc[n] EXCEPT !.step = "inserted"]]
    BY DEF InsertDeposit
  <2> QED
    BY <2>1, <2>2, <2>3
<1>2. OtherScans(n)
  BY <1>1 DEF InsertDeposit, OtherScans, Typed
<1>3. proc[n].step # "idle" /\ UNCHANGED <<deposits, cursor, head, ignored, user>>
  BY DEF InsertDeposit, At, accounts, ledger
<1> QED
  BY <1>1, <1>2, <1>3 DEF Inside

LEMMA ReadIsInside ==
  ASSUME Typed, NEW n \in Networks, NEW l \in Logs, ReadBinding(n, l)
  PROVE  Inside(n)
<1>1. Len(deposits) \in Nat
  BY DEF Typed
<1>2. proc' = [proc EXCEPT ![n] = [proc[n] EXCEPT !.step = "bound", !.read = Len(deposits)]]
  BY DEF ReadBinding, Typed, Processors
<1>3. OtherScans(n)
  BY <1>2 DEF ReadBinding, OtherScans, Typed
<1>4. proc[n].step # "idle" /\ UNCHANGED <<deposits, cursor, head, ignored, user>>
  BY DEF ReadBinding, At, accounts, ledger
<1> QED
  BY <1>1, <1>2, <1>3, <1>4 DEF Inside

\* With a reward or without one, the deposit is committed.
LEMMA CommitCommits ==
  ASSUME NEW n \in Networks, NEW l \in Logs, CommitUnbound(n, l) \/ CommitReward(n, l)
  PROVE  Commits(n, l)
BY DEF CommitUnbound, CommitReward, Committed, Commits, Passes, GivesUp, At, IsNext, accounts

\* Every step is of one of the kinds.
LEMMA NextIsScanStep ==
  ASSUME Typed, [Next]_vars
  PROVE  ScanStep
<1>1. ASSUME NEW n \in Networks, NEW l \in Logs, IgnoreLog(n, l) PROVE ScanStep
  <2>1. IsHandled(l)
    BY <1>1, NoAmount DEF IgnoreLog, IsHandled
  <2>2. Skips(n, l)
    BY <1>1, <2>1 DEF IgnoreLog, Skips, Passes, At, IsNext, accounts, ledger
  <2> QED
    BY <2>2 DEF ScanStep
<1>2. ASSUME NEW n \in Networks, NEW l \in Logs, IgnoreUnknownSender(n, l) PROVE ScanStep
  BY <1>2 DEF IgnoreUnknownSender, ScanStep, Skips, Passes, At, IsNext, accounts, ledger
<1>3. ASSUME NEW n \in Networks, NEW l \in Logs, InsertDeposit(n, l) PROVE ScanStep
  BY <1>3, InsertIsInside DEF ScanStep
<1>4. ASSUME NEW n \in Networks, NEW l \in Logs, ReadBinding(n, l) PROVE ScanStep
  BY <1>4, ReadIsInside DEF ScanStep
<1>5. ASSUME NEW n \in Networks, NEW l \in Logs, CommitUnbound(n, l) \/ CommitReward(n, l) PROVE ScanStep
  BY <1>5, CommitCommits DEF ScanStep
<1>6. ASSUME NEW n \in Networks, TickFails(n) PROVE ScanStep
  BY <1>6 DEF TickFails, ScanStep, Abandons, GivesUp, accounts, ledger
<1>7. ASSUME Aside PROVE ScanStep
  BY <1>7 DEF ScanStep
<1>8. ASSUME NEW n \in Networks, ScanRange(n) \/ SaveCursor(n) PROVE ScanStep
  BY <1>8 DEF ScanStep
<1> QED
  BY <1>1, <1>2, <1>3, <1>4, <1>5, <1>6, <1>7, <1>8, LoginsAside DEF Next, ProcessorStep

-----------------------------------------------------------------------------
(* The cursor. *)

\* The shape of a processor after each kind of step.
LEMMA PassedShape ==
  ASSUME Typed, NEW n \in Networks, NEW l, Passes(n, l)
  PROVE  /\ proc'[n].step = "scanning" /\ proc'[n].last = proc[n].last /\ proc'[n].todo = proc[n].todo \ {l}
         /\ proc'[n] \in Processors /\ proc' \in [Networks -> Processors] /\ OtherScans(n)
<1> DEFINE row == [proc[n] EXCEPT !.step = "scanning", !.todo = @ \ {l}, !.read = 0]
<1>1. row \in Processors /\ row.step = "scanning" /\ row.last = proc[n].last /\ row.todo = proc[n].todo \ {l}
  BY DEF Typed, Processors, Steps
<1>2. proc' = [proc EXCEPT ![n] = row]
  BY DEF Passes, Handled
<1> HIDE DEF row
<1> QED
  BY <1>1, <1>2 DEF Typed, OtherScans, Passes

\* A scan that gives up is idle.
LEMMA GivenUpShape ==
  ASSUME Typed, NEW n \in Networks, GivesUp(n)
  PROVE  /\ proc'[n].step = "idle" /\ proc'[n].todo = {}
         /\ proc' \in [Networks -> Processors] /\ OtherScans(n)
<1>1. IdleProcessor \in Processors /\ IdleProcessor.step = "idle" /\ IdleProcessor.todo = {}
  BY DEF IdleProcessor, Processors, Steps
<1> QED
  BY <1>1 DEF Typed, GivesUp, OtherScans

\* A step inside a transaction leaves the range as it is.
LEMMA InsideShape ==
  ASSUME Typed, NEW n \in Networks, Inside(n)
  PROVE  /\ proc'[n].last = proc[n].last /\ proc'[n].todo = proc[n].todo /\ proc[n].step # "idle"
         /\ proc' \in [Networks -> Processors]
<1>1. PICK step \in {"inserted", "bound"}, read \in Nat :
        proc' = [proc EXCEPT ![n] = [proc[n] EXCEPT !.step = step, !.read = read]]
  BY DEF Inside
<1> DEFINE row == [proc[n] EXCEPT !.step = step, !.read = read]
<1>2. row \in Processors /\ row.last = proc[n].last /\ row.todo = proc[n].todo
  BY DEF Typed, Processors, Steps
<1>3. proc' = [proc EXCEPT ![n] = row]
  <2> SUFFICES proc' = [proc EXCEPT ![n] = [proc[n] EXCEPT !.step = step, !.read = read]]
    OBVIOUS
  <2> QED
    BY <1>1
<1> HIDE DEF row
<1> QED
  BY <1>2, <1>3 DEF Typed, Inside

\* A range begins behind the cursor and ends where blocks are confirmed.
LEMMA BegunShape ==
  ASSUME Typed, NEW n \in Networks, ScanRange(n)
  PROVE  /\ proc' \in [Networks -> Processors] /\ OtherScans(n)
         /\ proc'[n].step = "scanning" /\ proc'[n].last \in Nat /\ proc'[n].last + Confirmation[n] <= head[n]
         /\ proc'[n].todo = {l \in Logs : l.network = n /\ l.block \in cursor[n] + 1 .. proc'[n].last}
<1> DEFINE last == Min({ConfirmedTip(n), cursor[n] + LogRange[n]})
           row == [IdleProcessor EXCEPT !.step = "scanning", !.last = last,
                     !.todo = {l \in Logs : l.network = n /\ l.block \in cursor[n] + 1 .. last}]
<1>1. /\ head[n] \in Nat /\ cursor[n] \in Nat /\ Confirmation[n] \in Nat /\ LogRange[n] \in Nat
      /\ cursor[n] < ConfirmedTip(n) /\ proc' = [proc EXCEPT ![n] = row] /\ UNCHANGED cursor
  BY DepositsAssumption DEF Typed, ScanRange, accounts, ledger
<1>2. last \in Nat /\ last <= ConfirmedTip(n)
  <2> DEFINE S == {ConfirmedTip(n), cursor[n] + LogRange[n]}
  <2>1. \E x \in S : \A y \in S : x <= y
    BY <1>1 DEF ConfirmedTip
  <2>2. last \in S /\ \A y \in S : last <= y
    BY <2>1 DEF Min
  <2> QED
    BY <1>1, <2>2 DEF ConfirmedTip
<1> HIDE DEF last
<1>3. /\ row \in Processors /\ row.step = "scanning" /\ row.last = last
      /\ row.todo = {l \in Logs : l.network = n /\ l.block \in cursor[n] + 1 .. last}
  BY <1>2 DEF IdleProcessor, Processors, Steps
<1> HIDE DEF row
<1>4. proc'[n] = row /\ proc' \in [Networks -> Processors] /\ OtherScans(n)
  BY <1>1, <1>3 DEF Typed, OtherScans
<1> QED
  BY <1>1, <1>2, <1>3, <1>4 DEF ConfirmedTip

\* A saved cursor is the end of the range.
LEMMA SavedShape ==
  ASSUME Typed, NEW n \in Networks, SaveCursor(n)
  PROVE  /\ proc'[n].step = "idle" /\ proc'[n].todo = {} /\ proc' \in [Networks -> Processors]
         /\ OtherScans(n) /\ cursor'[n] = proc[n].last /\ cursor' \in [Networks -> Nat]
         /\ proc[n].todo = {} /\ proc[n].step # "idle"
<1>1. IdleProcessor \in Processors /\ IdleProcessor.step = "idle" /\ IdleProcessor.todo = {}
  BY DEF IdleProcessor, Processors, Steps
<1>2. proc[n].last \in Nat
  BY DEF Typed, Processors
<1> QED
  BY <1>1, <1>2 DEF Typed, SaveCursor, OtherScans, At, AllHandled

\* What is deposited grows by the log of a commit.
LEMMA DepositedGrows ==
  ASSUME deposits \in Seq(Logs), NEW l \in Logs, deposits' = Append(deposits, l)
  PROVE  /\ Deposited' = Deposited \cup {l} /\ deposits' \in Seq(Logs)
         /\ Len(deposits') = Len(deposits) + 1 /\ deposits'[Len(deposits) + 1] = l
         /\ \A i \in DOMAIN deposits : deposits'[i] = deposits[i]
<1>1. /\ deposits' \in Seq(Logs) /\ Len(deposits') = Len(deposits) + 1 /\ Len(deposits) \in Nat
      /\ deposits'[Len(deposits) + 1] = l
      /\ \A i \in 1..Len(deposits) : deposits'[i] = deposits[i]
      /\ DOMAIN deposits = 1..Len(deposits) /\ DOMAIN deposits' = 1..Len(deposits')
  OBVIOUS
<1>2. Deposited' = {deposits'[i] : i \in DOMAIN deposits'}
  BY DEF Deposited
<1>3. \A x : x \in Deposited' <=> x \in Deposited \/ x = l
  BY <1>1, <1>2 DEF Deposited
<1> QED
  BY <1>1, <1>3

\* A scan that takes no part in a step keeps what it knows.
LEMMA ScanKept ==
  ASSUME Typed, NEW n \in Networks, ScanOf(n), proc'[n] = proc[n], cursor'[n] = cursor[n],
         head'[n] \in Nat, head[n] <= head'[n], Deposited \subseteq Deposited', ignored \subseteq ignored'
  PROVE  ScanOf(n)'
<1>1. \A l : IsHandled(l) => IsHandled(l)'
  BY DEF IsHandled
<1>2. head[n] \in Nat /\ Confirmation[n] \in Nat /\ proc[n].last \in Nat
  BY DepositsAssumption DEF Typed, Processors
<1> QED
  BY <1>1, <1>2 DEF ScanOf

\* The scan that is passed on, too.
LEMMA ScanPassed ==
  ASSUME Typed, NEW n \in Networks, ScanOf(n), NEW l \in Logs, Passes(n, l),
         IsHandled(l)', Deposited \subseteq Deposited', ignored \subseteq ignored'
  PROVE  ScanOf(n)'
<1>1. \A k : IsHandled(k) => IsHandled(k)'
  BY DEF IsHandled
<1>2. UNCHANGED <<cursor, head>> /\ proc[n].step # "idle"
  BY DEF Passes
<1> QED
  BY <1>1, <1>2, PassedShape DEF ScanOf

\* The first blocks are behind every cursor, and no scan has begun.
LEMMA ScanInit == Init => ScanInv
<1> SUFFICES ASSUME Init PROVE ScanInv
  OBVIOUS
<1>1. IdleProcessor \in Processors /\ IdleProcessor.step = "idle" /\ IdleProcessor.todo = {}
  BY DEF IdleProcessor, Processors, Steps
<1>2. Deposited = {}
  BY DEF Init, Deposited
<1>3. Typed
  BY <1>1, DepositsAssumption DEF Init, Typed
<1>4. \A l \in Logs : StartBlock[l.network] \in Nat /\ cursor[l.network] = StartBlock[l.network]
  BY DepositsAssumption DEF Init
<1>5. CursorPassesHandled
  BY <1>2, <1>4 DEF CursorPassesHandled
<1>6. \A n \in Networks : ScanOf(n)
  BY <1>1 DEF Init, ScanOf
<1> QED
  BY <1>3, <1>5, <1>6 DEF ScanInv

\* Every step keeps the cursors behind what is handled.
LEMMA ScanNext ==
  ASSUME ScanInv, Typed', ScanStep
  PROVE  ScanInv'
<1>0. Typed /\ CursorPassesHandled /\ \A n \in Networks : ScanOf(n)
  BY DEF ScanInv
<1>1. \A n \in Networks : head[n] \in Nat /\ cursor[n] \in Nat /\ Confirmation[n] \in Nat /\ proc[n].last \in Nat
  BY <1>0, DepositsAssumption DEF Typed, Processors
<1>2. \A l \in Logs : l.network \in Networks /\ l.block \in Nat /\ StartBlock[l.network] \in Nat
  BY DepositsAssumption
<1>3. ASSUME Deposited \subseteq Deposited', ignored \subseteq ignored', UNCHANGED cursor
      PROVE  \A l \in Logs : l.block \in StartBlock[l.network] + 1 .. cursor'[l.network] => IsHandled(l)'
  BY <1>0, <1>3 DEF CursorPassesHandled, IsHandled
<1>4. ASSUME UNCHANGED deposits, \A n \in Networks : head'[n] \in Nat /\ head[n] <= head'[n]
      PROVE  \A l \in Deposited' : l.block + Confirmation[l.network] <= head'[l.network]
  <2>1. Deposited' = Deposited /\ Deposited \subseteq Logs
    BY <1>0, <1>4 DEF Deposited, Typed
  <2> QED
    BY <1>0, <1>1, <1>2, <1>4, <2>1 DEF CursorPassesHandled
<1>5. ASSUME /\ \A l \in Logs : l.block \in StartBlock[l.network] + 1 .. cursor'[l.network] => IsHandled(l)'
             /\ \A l \in Deposited' : l.block + Confirmation[l.network] <= head'[l.network]
             /\ \A n \in Networks : ScanOf(n)'
      PROVE  ScanInv'
  BY <1>5 DEF ScanInv, CursorPassesHandled, IsHandled
<1>6. CASE Aside
  <2>1. Deposited' = Deposited
    BY <1>6 DEF Aside, Deposited
  <2>2. \A n \in Networks : ScanOf(n)'
    BY <1>0, <1>6, <2>1, ScanKept DEF Aside
  <2> QED
    BY <1>3, <1>4, <1>5, <1>6, <2>1, <2>2 DEF Aside
<1>7. ASSUME NEW n \in Networks, ScanRange(n) PROVE ScanInv'
  <2>1. UNCHANGED <<deposits, head, cursor, ignored>>
    BY <1>7 DEF ScanRange, accounts, ledger
  <2>2. Deposited' = Deposited
    BY <2>1 DEF Deposited
  <2>3. ScanOf(n)'
    BY <1>0, <1>7, <2>1, BegunShape DEF ScanOf
  <2>4. \A m \in Networks : ScanOf(m)'
    BY <1>0, <1>1, <1>7, <2>1, <2>2, <2>3, BegunShape, ScanKept DEF OtherScans
  <2> QED
    BY <1>1, <1>3, <1>4, <1>5, <2>1, <2>2, <2>4
<1>8. ASSUME NEW n \in Networks, Inside(n) PROVE ScanInv'
  <2>1. UNCHANGED <<deposits, head, cursor, ignored>> /\ OtherScans(n)
    BY <1>8 DEF Inside
  <2>2. Deposited' = Deposited
    BY <2>1 DEF Deposited
  <2>3. ScanOf(n)'
    <3>1. \A l : IsHandled(l)' <=> IsHandled(l)
      BY <2>1, <2>2 DEF IsHandled
    <3> QED
      BY <1>0, <1>8, <2>1, <3>1, InsideShape DEF ScanOf
  <2>4. \A m \in Networks : ScanOf(m)'
    BY <1>0, <1>1, <2>1, <2>2, <2>3, ScanKept DEF OtherScans
  <2> QED
    BY <1>1, <1>3, <1>4, <1>5, <2>1, <2>2, <2>4
<1>9. ASSUME NEW n \in Networks, SaveCursor(n) PROVE ScanInv'
  <2>1. UNCHANGED <<deposits, head, ignored>>
    BY <1>9 DEF SaveCursor, accounts, ledger
  <2>2. Deposited' = Deposited /\ \A l : IsHandled(l)' <=> IsHandled(l)
    BY <2>1 DEF Deposited, IsHandled
  <2>3. ScanOf(n)'
    BY <1>0, <1>9, SavedShape DEF ScanOf
  <2>4. \A m \in Networks : ScanOf(m)'
    BY <1>0, <1>1, <1>9, <2>1, <2>2, <2>3, SavedShape, ScanKept DEF OtherScans
  <2>5. ASSUME NEW l \in Logs, l.block \in StartBlock[l.network] + 1 .. cursor'[l.network]
        PROVE  IsHandled(l)
    <3>1. CASE l.block \in StartBlock[l.network] + 1 .. cursor[l.network]
      BY <1>0, <3>1 DEF CursorPassesHandled, IsHandled
    <3>2. CASE l.network = n /\ l.block \in cursor[n] + 1 .. proc[n].last
      BY <1>0, <1>9, <3>2, SavedShape DEF ScanOf
    <3>3. l.network # n => cursor'[l.network] = cursor[l.network]
      BY <1>0, <1>2, <1>9, SavedShape DEF OtherScans
    <3>4. l.network = n => cursor'[l.network] = proc[n].last
      BY <1>0, <1>9, SavedShape
    <3> QED
      BY <1>1, <1>2, <2>5, <3>1, <3>2, <3>3, <3>4
  <2> QED
    BY <1>1, <1>4, <1>5, <2>1, <2>2, <2>4, <2>5
<1>10. ASSUME NEW n \in Networks, Abandons(n) PROVE ScanInv'
  <2>1. UNCHANGED <<deposits, head, cursor, ignored>> /\ GivesUp(n)
    BY <1>10 DEF Abandons, GivesUp
  <2>2. Deposited' = Deposited
    BY <2>1 DEF Deposited
  <2>3. ScanOf(n)'
    BY <1>0, <2>1, GivenUpShape DEF ScanOf
  <2>4. \A m \in Networks : ScanOf(m)'
    BY <1>0, <1>1, <2>1, <2>2, <2>3, GivenUpShape, ScanKept DEF OtherScans
  <2> QED
    BY <1>1, <1>3, <1>4, <1>5, <2>1, <2>2, <2>4
<1>11. ASSUME NEW n \in Networks, NEW l \in Logs, Skips(n, l) PROVE ScanInv'
  <2>1. UNCHANGED <<deposits, head, cursor>> /\ Passes(n, l) /\ ignored \subseteq ignored'
    BY <1>11 DEF Skips, Passes
  <2>2. Deposited' = Deposited
    BY <2>1 DEF Deposited
  <2>3. IsHandled(l)'
    BY <1>11, <2>2 DEF Skips, IsHandled
  <2>4. ScanOf(n)'
    BY <1>0, <2>1, <2>2, <2>3, ScanPassed
  <2>5. \A m \in Networks : ScanOf(m)'
    BY <1>0, <1>1, <2>1, <2>2, <2>4, PassedShape, ScanKept DEF OtherScans
  <2> QED
    BY <1>1, <1>3, <1>4, <1>5, <2>1, <2>2, <2>5
<1>12. ASSUME NEW n \in Networks, NEW l \in Logs, Commits(n, l) PROVE ScanInv'
  <2>1. /\ UNCHANGED <<head, cursor, ignored>>
        /\ (Passes(n, l) \/ GivesUp(n))
        /\ deposits' = Append(deposits, l) /\ proc[n].step # "idle" /\ l \in proc[n].todo
    BY <1>12 DEF Commits, Passes, GivesUp
  <2>2. Deposited' = Deposited \cup {l}
    BY <1>0, <2>1, DepositedGrows DEF Typed
  <2>3. IsHandled(l)'
    BY <2>2 DEF IsHandled
  <2>4. ScanOf(n)'
    <3>1. CASE Passes(n, l)
      BY <1>0, <2>1, <2>2, <2>3, <3>1, ScanPassed
    <3>2. CASE GivesUp(n)
      BY <1>0, <3>2, GivenUpShape DEF ScanOf
    <3> QED
      BY <2>1, <3>1, <3>2
  <2>5. OtherScans(n)
    BY <1>0, <2>1, PassedShape, GivenUpShape
  <2>6. \A m \in Networks : ScanOf(m)'
    BY <1>0, <1>1, <2>1, <2>2, <2>4, <2>5, ScanKept DEF OtherScans
  <2>7. l.network = n /\ l.block + Confirmation[n] <= head[n]
    BY <1>0, <1>1, <1>2, <2>1 DEF ScanOf
  <2>8. \A k \in Deposited' : k.block + Confirmation[k.network] <= head'[k.network]
    BY <1>0, <2>1, <2>2, <2>7 DEF CursorPassesHandled
  <2> QED
    BY <1>3, <1>5, <2>1, <2>2, <2>6, <2>8
<1> QED
  BY <1>6, <1>7, <1>8, <1>9, <1>10, <1>11, <1>12 DEF ScanStep

\* The types the proofs need are kept.
LEMMA TypedNext ==
  ASSUME Typed, [Next]_vars
  PROVE  Typed'
<1> DEFINE UserRows == [Wallets -> [known : BOOLEAN, referrer : Wallets \cup {NoUser}]]
<1>1. user' \in UserRows
  <2>1. user \in UserRows
    BY DEF Typed
  <2>2. ASSUME NEW w \in Wallets, Register(w) PROVE user' \in UserRows
    <3>1. [user[w] EXCEPT !.known = TRUE] \in [known : BOOLEAN, referrer : Wallets \cup {NoUser}]
      BY <2>1
    <3>2. user' = [user EXCEPT ![w] = [user[w] EXCEPT !.known = TRUE]]
      BY <2>2 DEF Register
    <3> QED
      BY <2>1, <3>1, <3>2
  <2>3. ASSUME NEW w \in Wallets, NEW r \in Wallets, NEW code, RegisterInvited(w, r, code) PROVE user' \in UserRows
    BY <2>1, <2>3 DEF RegisterInvited
  <2>4. ASSUME UNCHANGED user PROVE user' \in UserRows
    BY <2>1, <2>4
  <2> HIDE DEF UserRows
  <2>5. ASSUME NEW n \in Networks, ProcessorStep(n) \/ TickFails(n) \/ Mine(n) PROVE UNCHANGED user
    BY <2>5 DEF ProcessorStep, ScanRange, IgnoreLog, IgnoreUnknownSender, InsertDeposit, CommitUnbound,
                ReadBinding, CommitReward, SaveCursor, TickFails, Mine, accounts
  <2>6. ASSUME NEW w \in Wallets, ResetReferralCode(w) \/ FindNoReferralCode(w) \/ CreateReferralCode(w)
        PROVE  UNCHANGED user
    BY <2>6 DEF ResetReferralCode, FindNoReferralCode, CreateReferralCode
  <2>7. UNCHANGED vars => UNCHANGED user
    BY DEF vars
  <2> QED
    BY <2>2, <2>3, <2>4, <2>5, <2>6, <2>7 DEF Next
<1>2. head' \in [Networks -> Nat]
  <2>1. ASSUME NEW n \in Networks, Mine(n) PROVE head' \in [Networks -> Nat]
    BY <2>1 DEF Typed, Mine
  <2>2. ASSUME NEW n \in Networks, ProcessorStep(n) \/ TickFails(n) PROVE UNCHANGED head
    BY <2>2 DEF ProcessorStep, ScanRange, IgnoreLog, IgnoreUnknownSender, InsertDeposit, CommitUnbound,
                ReadBinding, CommitReward, SaveCursor, TickFails
  <2>3. ASSUME NEW w \in Wallets, Register(w) \/ ResetReferralCode(w) \/ FindNoReferralCode(w) \/ CreateReferralCode(w)
        PROVE  UNCHANGED head
    BY <2>3 DEF Register, ResetReferralCode, FindNoReferralCode, CreateReferralCode
  <2>4. ASSUME NEW w \in Wallets, NEW r \in Wallets, NEW code, RegisterInvited(w, r, code) PROVE UNCHANGED head
    BY <2>4 DEF RegisterInvited
  <2>5. UNCHANGED vars => UNCHANGED head
    BY DEF vars
  <2>6. UNCHANGED head => head' \in [Networks -> Nat]
    BY DEF Typed
  <2> QED
    BY <2>1, <2>2, <2>3, <2>4, <2>5, <2>6 DEF Next
<1>3. ScanStep
  BY NextIsScanStep
<1> DEFINE Kept == /\ deposits' \in Seq(Logs) /\ cursor' \in [Networks -> Nat] /\ ignored' \subseteq Logs
                   /\ proc' \in [Networks -> Processors]
<1>4. Kept
  <2>1. CASE Aside
    BY <2>1 DEF Typed, Aside
  <2>2. ASSUME NEW n \in Networks, ScanRange(n) PROVE Kept
    BY <2>2, BegunShape DEF Typed, ScanRange, accounts, ledger
  <2>3. ASSUME NEW n \in Networks, Inside(n) PROVE Kept
    BY <2>3, InsideShape DEF Typed, Inside
  <2>4. ASSUME NEW n \in Networks, SaveCursor(n) PROVE Kept
    BY <2>4, SavedShape DEF Typed, SaveCursor, accounts, ledger
  <2>5. ASSUME NEW n \in Networks, Abandons(n) PROVE Kept
    BY <2>5, GivenUpShape DEF Typed, Abandons, GivesUp
  <2>6. ASSUME NEW n \in Networks, NEW l \in Logs, Skips(n, l) PROVE Kept
    BY <2>6, PassedShape DEF Typed, Skips, Passes
  <2>7. ASSUME NEW n \in Networks, NEW l \in Logs, Commits(n, l) PROVE Kept
    <3>1. deposits' \in Seq(Logs)
      BY <2>7, DepositedGrows DEF Typed, Commits
    <3> QED
      BY <2>7, <3>1, PassedShape, GivenUpShape DEF Typed, Commits, Passes, GivesUp
  <2> QED
    BY <1>3, <2>1, <2>2, <2>3, <2>4, <2>5, <2>6, <2>7 DEF ScanStep
<1> QED
  BY <1>1, <1>2, <1>4 DEF Typed

\* So every step keeps the invariant.
LEMMA ScanInvNext == ScanInv /\ [Next]_vars => ScanInv'
<1> SUFFICES ASSUME ScanInv, [Next]_vars PROVE ScanInv'
  OBVIOUS
<1>1. Typed /\ Typed'
  BY TypedNext DEF ScanInv
<1> QED
  BY <1>1, NextIsScanStep, ScanNext

\* On every network the cursor passes only logs that were credited, are worth
\* nothing, or came from a wallet unknown then, and none is credited before it
\* is confirmed: whatever fails, and wherever a tick or the process ends.
THEOREM CursorCorrect == Spec => []CursorPassesHandled
<1>1. ScanInv => CursorPassesHandled
  BY DEF ScanInv
<1> QED
  BY <1>1, ScanInit, ScanInvNext, PTL DEF Spec

-----------------------------------------------------------------------------
(* A log is inserted once. *)

InTransaction(n) == proc[n].step \in {"inserted", "bound"}

\* The log of an open transaction is not among the committed ones.
Fresh(n) == InTransaction(n) => \A l \in Logs : IsNext(n, l) => l \notin Deposited

OnceInv == ScanInv /\ DepositedOnce /\ \A n \in Networks : Fresh(n)

\* One log of a range is the next.
LEMMA NextIsUnique ==
  ASSUME ScanInv, NEW n \in Networks, NEW k \in Logs, NEW l \in Logs, IsNext(n, k), IsNext(n, l)
  PROVE  k = l
<1>1. k.block \in Nat /\ l.block \in Nat /\ k.index \in Nat /\ l.index \in Nat
  BY DepositsAssumption
<1>2. SUFFICES ASSUME k # l PROVE FALSE
  OBVIOUS
<1>3. l.block < k.block \/ (l.block = k.block /\ l.index < k.index)
  BY <1>2 DEF IsNext
<1>4. k.block < l.block \/ (k.block = l.block /\ k.index < l.index)
  BY <1>2 DEF IsNext
<1> QED
  BY <1>1, <1>3, <1>4

\* What may change between the transactions of two steps: nothing is committed,
\* and one that is open afterwards was open before or has just found its log new.
LEMMA OnceKept ==
  ASSUME OnceInv, ScanInv', UNCHANGED deposits,
         \A n \in Networks : InTransaction(n)' =>
           /\ proc'[n].todo = proc[n].todo
           /\ InTransaction(n) \/ \E l \in Logs : IsNext(n, l) /\ l \notin Deposited
  PROVE  OnceInv'
<1>1. Deposited' = Deposited /\ DepositedOnce'
  BY DEF OnceInv, Deposited, DepositedOnce
<1>2. ASSUME NEW n \in Networks, InTransaction(n)' PROVE Fresh(n)'
  <2>1. \A l : IsNext(n, l)' <=> IsNext(n, l)
    BY <1>2 DEF IsNext
  <2>2. \A l \in Logs : IsNext(n, l) => l \notin Deposited
    <3>1. CASE InTransaction(n)
      BY <3>1 DEF OnceInv, Fresh
    <3>2. ASSUME NEW k \in Logs, IsNext(n, k), k \notin Deposited
          PROVE  \A l \in Logs : IsNext(n, l) => l \notin Deposited
      BY <3>2, NextIsUnique DEF OnceInv
    <3> QED
      BY <1>2, <3>1, <3>2
  <2> QED
    BY <1>1, <2>1, <2>2 DEF Fresh
<1> QED
  BY <1>1, <1>2 DEF OnceInv, Fresh

\* A commit inserts the log of its own transaction, and of no other.
LEMMA OnceCommitted ==
  ASSUME OnceInv, ScanInv', NEW n \in Networks, NEW l \in Logs,
         InTransaction(n), IsNext(n, l), Commits(n, l)
  PROVE  OnceInv'
<1>1. Typed /\ l \notin Deposited /\ l \in proc[n].todo /\ deposits' = Append(deposits, l)
  BY DEF OnceInv, ScanInv, Fresh, IsNext, Commits
<1>2. /\ Deposited' = Deposited \cup {l} /\ deposits' \in Seq(Logs)
      /\ Len(deposits') = Len(deposits) + 1 /\ deposits'[Len(deposits) + 1] = l
      /\ \A i \in DOMAIN deposits : deposits'[i] = deposits[i]
  BY <1>1, DepositedGrows DEF Typed
<1>3. DepositedOnce'
  <2>1. \A i \in DOMAIN deposits : deposits[i] # l
    BY <1>1 DEF Deposited
  <2>2. /\ DOMAIN deposits = 1..Len(deposits) /\ DOMAIN deposits' = 1..Len(deposits') /\ Len(deposits) \in Nat
    BY <1>1, <1>2 DEF Typed
  <2> SUFFICES ASSUME NEW i \in DOMAIN deposits', NEW j \in DOMAIN deposits', deposits'[i] = deposits'[j]
               PROVE  i = j
    BY DEF DepositedOnce
  <2>3. /\ i \in DOMAIN deposits \/ i = Len(deposits) + 1
        /\ j \in DOMAIN deposits \/ j = Len(deposits) + 1
    BY <1>2, <2>2
  <2>4. i \in DOMAIN deposits /\ j \in DOMAIN deposits => deposits[i] = deposits[j]
    BY <1>2
  <2> QED
    BY <1>2, <2>1, <2>3, <2>4 DEF OnceInv, DepositedOnce
<1>4. proc'[n].step \in {"scanning", "idle"} /\ OtherScans(n)
  BY <1>1, PassedShape, GivenUpShape DEF Commits
<1>5. ~InTransaction(n)'
  BY <1>4 DEF InTransaction
<1>6. \A m \in Networks : m # n => l \notin proc[m].todo
  BY <1>1 DEF OnceInv, ScanInv, ScanOf
<1>7. ASSUME NEW m \in Networks, m # n PROVE Fresh(m)'
  <2>1. proc'[m] = proc[m]
    BY <1>4, <1>7 DEF OtherScans
  <2>2. InTransaction(m)' <=> InTransaction(m)
    BY <2>1 DEF InTransaction
  <2>3. \A k : IsNext(m, k)' <=> IsNext(m, k)
    BY <2>1 DEF IsNext
  <2>4. \A k : IsNext(m, k) => k # l
    BY <1>6, <1>7 DEF IsNext
  <2>5. Fresh(m)
    BY DEF OnceInv
  <2> QED
    BY <1>2, <2>2, <2>3, <2>4, <2>5 DEF Fresh
<1>8. Fresh(n)'
  BY <1>5 DEF Fresh
<1> QED
  BY <1>3, <1>7, <1>8 DEF OnceInv

\* Nothing is committed yet, and no transaction is open.
LEMMA OnceInit == Init => OnceInv
<1> SUFFICES ASSUME Init PROVE OnceInv
  OBVIOUS
<1>1. DepositedOnce
  BY DEF Init, DepositedOnce
<1>2. \A n \in Networks : Fresh(n)
  BY DEF Init, IdleProcessor, Fresh, InTransaction
<1> QED
  BY <1>1, <1>2, ScanInit DEF OnceInv

\* A step after which the processor of n is between two transactions, and that
\* commits nothing.
Between(n) == UNCHANGED deposits /\ OtherScans(n) /\ ~InTransaction(n)'

\* It opens no transaction.
LEMMA OnceBetween ==
  ASSUME OnceInv, ScanInv', NEW n \in Networks, Between(n)
  PROVE  OnceInv'
<1>1. ASSUME NEW m \in Networks, InTransaction(m)' PROVE proc'[m].todo = proc[m].todo /\ InTransaction(m)
  BY <1>1 DEF Between, OtherScans, InTransaction
<1> QED
  BY <1>1, OnceKept DEF Between

\* A step inside the transaction of n keeps it open, or opens it for a new log.
LEMMA OnceInside ==
  ASSUME OnceInv, ScanInv', NEW n \in Networks, Inside(n),
         InTransaction(n) \/ \E l \in Logs : IsNext(n, l) /\ l \notin Deposited
  PROVE  OnceInv'
<1>1. proc'[n].todo = proc[n].todo /\ OtherScans(n) /\ UNCHANGED deposits
  BY InsideShape DEF OnceInv, ScanInv, Inside
<1>2. ASSUME NEW m \in Networks, m # n, InTransaction(m)' PROVE proc'[m].todo = proc[m].todo /\ InTransaction(m)
  BY <1>1, <1>2 DEF OtherScans, InTransaction
<1> QED
  BY <1>1, <1>2, OnceKept

\* Every step keeps it.
LEMMA OnceNext == OnceInv /\ [Next]_vars => OnceInv'
<1> SUFFICES ASSUME OnceInv, [Next]_vars PROVE OnceInv'
  OBVIOUS
<1>0. Typed /\ ScanInv'
  BY ScanInvNext DEF OnceInv, ScanInv
<1>1. ASSUME NEW n \in Networks, NEW l \in Logs, InsertDeposit(n, l) PROVE OnceInv'
  <2>1. Inside(n)
    BY <1>0, <1>1, InsertIsInside
  <2>2. IsNext(n, l) /\ l \notin Deposited
    BY <1>1 DEF InsertDeposit, New
  <2> QED
    BY <1>0, <2>1, <2>2, OnceInside
<1>2. ASSUME NEW n \in Networks, NEW l \in Logs, ReadBinding(n, l) PROVE OnceInv'
  <2>1. Inside(n)
    BY <1>0, <1>2, ReadIsInside
  <2>2. InTransaction(n)
    BY <1>2 DEF ReadBinding, At, InTransaction
  <2> QED
    BY <1>0, <2>1, <2>2, OnceInside
<1>3. ASSUME NEW n \in Networks, NEW l \in Logs, CommitUnbound(n, l) \/ CommitReward(n, l) PROVE OnceInv'
  <2>1. Commits(n, l)
    BY <1>3, CommitCommits
  <2>2. InTransaction(n) /\ IsNext(n, l)
    BY <1>3 DEF CommitUnbound, CommitReward, At, InTransaction
  <2> QED
    BY <1>0, <2>1, <2>2, OnceCommitted
<1>4. ASSUME NEW n \in Networks, NEW l \in Logs, IgnoreLog(n, l) \/ IgnoreUnknownSender(n, l) PROVE OnceInv'
  <2>1. Passes(n, l) /\ UNCHANGED deposits
    BY <1>4 DEF IgnoreLog, IgnoreUnknownSender, Passes, At, IsNext, accounts, ledger
  <2>2. proc'[n].step = "scanning" /\ OtherScans(n)
    BY <1>0, <2>1, PassedShape
  <2>3. Between(n)
    BY <2>1, <2>2 DEF Between, InTransaction
  <2> QED
    BY <1>0, <2>3, OnceBetween
<1>5. ASSUME NEW n \in Networks, SaveCursor(n) PROVE OnceInv'
  <2>1. proc'[n].step = "idle" /\ OtherScans(n)
    BY <1>0, <1>5, SavedShape
  <2>2. Between(n)
    BY <1>5, <2>1 DEF Between, SaveCursor, InTransaction, ledger
  <2> QED
    BY <1>0, <2>2, OnceBetween
<1>6. ASSUME NEW n \in Networks, TickFails(n) PROVE OnceInv'
  <2>1. GivesUp(n) /\ UNCHANGED deposits
    BY <1>6 DEF TickFails, GivesUp, accounts, ledger
  <2>2. proc'[n].step = "idle" /\ OtherScans(n)
    BY <1>0, <2>1, GivenUpShape
  <2>3. Between(n)
    BY <2>1, <2>2 DEF Between, InTransaction
  <2> QED
    BY <1>0, <2>3, OnceBetween
<1>7. ASSUME NEW n \in Networks, ScanRange(n) PROVE OnceInv'
  <2>1. proc'[n].step = "scanning" /\ OtherScans(n)
    BY <1>0, <1>7, BegunShape
  <2>2. Between(n)
    BY <1>7, <2>1 DEF Between, ScanRange, InTransaction, ledger
  <2> QED
    BY <1>0, <2>2, OnceBetween
<1>8. ASSUME Aside PROVE OnceInv'
  <2>1. \A n \in Networks : InTransaction(n)' => proc'[n].todo = proc[n].todo /\ InTransaction(n)
    BY <1>8 DEF Aside, InTransaction
  <2> QED
    BY <1>0, <1>8, <2>1, OnceKept DEF Aside
<1> QED
  BY <1>0, <1>1, <1>2, <1>3, <1>4, <1>5, <1>6, <1>7, <1>8, LoginsAside DEF Next, ProcessorStep

\* No log is inserted twice, however often its range is scanned: after a crash,
\* a failed call or a commit whose reply was lost.
THEOREM OnceCorrect == Spec => []DepositedOnce
<1>1. OnceInv => DepositedOnce
  BY DEF OnceInv
<1> QED
  BY <1>1, OnceInit, OnceNext, PTL DEF Spec

-----------------------------------------------------------------------------
(* Amounts. *)

\* Credits and rewards are amounts, and a reward grows with the count.
LEMMA CreditsTyped ==
  ASSUME NEW l \in Logs
  PROVE  Credits(l) \in Nat
<1>1. l.amount \in Nat /\ PerToken \in Nat /\ TokenUnit \in Nat \ {0}
  BY DepositsAssumption
<1>2. l.amount * PerToken \in Nat
  BY <1>1
<1> QED
  BY <1>1, <1>2 DEF Credits, ConvertTokenAmountToCredits

LEMMA ExtraGrows ==
  ASSUME NEW prior \in Nat
  PROVE  /\ PurchaseBonusExtra(prior) \in Nat /\ PurchaseBonusExtra(0) \in Nat
         /\ PurchaseBonusExtra(0) <= PurchaseBonusExtra(prior)
<1> DEFINE f == [t \in Reached(prior) |-> t.extra]
           g == [t \in Reached(0) |-> t.extra]
<1>1. /\ Reached(prior) \subseteq Tiers /\ Reached(0) \subseteq Reached(prior)
      /\ IsFiniteSet(Reached(prior)) /\ \A t \in Tiers : t.extra \in Nat
  <2>1. IsFiniteSet(Tiers) /\ \A t \in Tiers : t.extra \in Nat /\ t.min \in Nat
    BY DepositsAssumption
  <2>2. Reached(prior) \subseteq Tiers /\ Reached(0) \subseteq Reached(prior)
    BY <2>1 DEF Reached
  <2> QED
    BY <2>1, <2>2, FS_Subset
<1>2. /\ f \in [Reached(prior) -> Nat] /\ g \in [Reached(0) -> Nat]
      /\ \A t \in Reached(0) : f[t] = g[t]
  BY <1>1
<1> HIDE DEF f, g
<1>3. Total(g) <= Total(f) /\ Total(g) \in Nat /\ Total(f) \in Nat
  BY <1>1, <1>2, TotalSubset
<1> QED
  BY <1>3 DEF PurchaseBonusExtra, f, g

LEMMA RewardGrows ==
  ASSUME NEW credits \in Nat, NEW prior \in Nat
  PROVE  /\ RewardFor(credits, prior) \in Nat /\ RewardFor(credits, 0) \in Nat
         /\ RewardFor(credits, 0) <= RewardFor(credits, prior)
<1> DEFINE a == Ratio + PurchaseBonusExtra(0)
           b == Ratio + PurchaseBonusExtra(prior)
<1>1. a \in Nat /\ b \in Nat /\ a <= b /\ RatioUnit \in Nat \ {0}
  BY ExtraGrows, DepositsAssumption
<1> HIDE DEF a, b
<1>2. credits * a \in Nat /\ credits * b \in Nat /\ credits * a <= credits * b
  BY <1>1
<1>3. /\ (credits * a) \div RatioUnit \in Nat /\ (credits * b) \div RatioUnit \in Nat
      /\ (credits * a) \div RatioUnit <= (credits * b) \div RatioUnit
  BY <1>1, <1>2
<1> QED
  BY <1>3 DEF RewardFor, a, b

-----------------------------------------------------------------------------
(* Sums of events. *)

SumFor(E, w) == Total([e \in {x \in E : x.user = w} |-> e.amount])

Amounts(E) == IsFiniteSet(E) /\ \A e \in E : e.amount \in Nat

\* No event is about the same thing.
Unseen(E, type, u, ref) == \A e \in E : ~(e.type = type /\ e.user = u /\ e.ref = ref)

\* The sum over a family of events is an amount.
LEMMA SumTyped ==
  ASSUME NEW E, Amounts(E), NEW w
  PROVE  IsFiniteSet({x \in E : x.user = w}) /\ SumFor(E, w) \in Nat
<1> DEFINE S == {x \in E : x.user = w}
           f == [e \in S |-> e.amount]
<1>1. IsFiniteSet(S)
  BY FS_Subset DEF Amounts
<1>2. f \in [S -> Nat]
  BY DEF Amounts
<1> HIDE DEF f
<1>3. Total(f) \in Nat
  BY <1>1, <1>2, TotalBounds
<1> QED
  BY <1>1, <1>2, <1>3 DEF SumFor, f

\* One more event adds its amount to the sum of its user, and to no other.
LEMMA SumOne ==
  ASSUME NEW E, Amounts(E), NEW e, e \notin E, e.amount \in Nat, NEW w
  PROVE  /\ Amounts(E \cup {e})
         /\ SumFor(E \cup {e}, w) = SumFor(E, w) + (IF e.user = w THEN e.amount ELSE 0)
<1> DEFINE S == {x \in E : x.user = w}
           T == {x \in E \cup {e} : x.user = w}
           f == [x \in S |-> x.amount]
           g == [x \in T |-> x.amount]
<1>1. Amounts(E \cup {e})
  BY FS_AddElement DEF Amounts
<1>2. f \in [S -> Nat] /\ IsFiniteSet(S) /\ g \in [T -> Nat] /\ SumFor(E, w) \in Nat
  <2>1. f \in [S -> Nat] /\ g \in [T -> Nat]
    BY <1>1 DEF Amounts
  <2>2. IsFiniteSet(S) /\ SumFor(E, w) \in Nat
    BY SumTyped
  <2> QED
    BY <2>1, <2>2
<1>3. SumFor(E, w) = Total(f) /\ SumFor(E \cup {e}, w) = Total(g)
  BY DEF SumFor
<1>4. CASE e.user = w
  <2>1. T = S \cup {e} /\ e \notin S /\ g[e] = e.amount /\ \A y \in S : f[y] = g[y]
    BY <1>4
  <2> HIDE DEF f, g, S, T
  <2>2. Total(g) = Total(f) + g[e]
    BY <1>2, <2>1, TotalExtend
  <2> QED
    BY <1>1, <1>3, <1>4, <2>1, <2>2
<1>5. CASE e.user # w
  <2>1. T = S
    BY <1>5
  <2> QED
    BY <1>1, <1>2, <1>3, <1>5, <2>1
<1> QED
  BY <1>4, <1>5

\* An event is written only if it has an amount, and adds it.
LEMMA SumEvent ==
  ASSUME NEW E, Amounts(E), NEW type, NEW u, NEW ref, NEW amount \in Nat, Unseen(E, type, u, ref), NEW w
  PROVE  /\ Amounts(E \cup Event(type, u, ref, amount))
         /\ SumFor(E \cup Event(type, u, ref, amount), w) = SumFor(E, w) + (IF u = w THEN amount ELSE 0)
         /\ SumFor(E, w) \in Nat
<1> DEFINE e == [type |-> type, user |-> u, ref |-> ref, amount |-> amount]
<1>0. SumFor(E, w) \in Nat
  BY SumTyped
<1>1. CASE amount = 0
  BY <1>0, <1>1 DEF Event
<1>2. CASE amount # 0
  <2>1. e.type = type /\ e.user = u /\ e.ref = ref /\ e.amount = amount
    OBVIOUS
  <2>2. Event(type, u, ref, amount) = {e}
    BY <1>2 DEF Event
  <2> HIDE DEF e
  <2>3. e \notin E
    BY <2>1 DEF Unseen
  <2> QED
    BY <1>0, <2>1, <2>2, <2>3, SumOne
<1> QED
  BY <1>1, <1>2

\* The members of an event's set.
LEMMA EventFields ==
  ASSUME NEW type, NEW u, NEW ref, NEW amount, NEW e \in Event(type, u, ref, amount)
  PROVE  e.type = type /\ e.user = u /\ e.ref = ref /\ e.amount = amount /\ amount # 0
BY DEF Event

-----------------------------------------------------------------------------
(* Who is known, and which transactions are open. *)

\* A known wallet keeps its row, and a deposit its place.
History ==
  /\ \A w \in Wallets : user[w].known => user'[w] = user[w]
  /\ \A i \in DOMAIN deposits : i \in DOMAIN deposits' /\ deposits'[i] = deposits[i]

\* Codes are made by the known; a binding names a known referrer.
WhoInv ==
  /\ codes \in [Wallets -> SUBSET Nat] /\ issued \in [Wallets -> Nat] /\ without \in [Wallets -> Nat]
  /\ \A w \in Wallets :
       /\ codes[w] # {} \/ without[w] > 0 => user[w].known
       /\ user[w].referrer # NoUser => user[w].known /\ user[user[w].referrer].known

SendersKnown == \A l \in Deposited : user[l.from].known

\* What committed after the read of n's transaction for l is of another wallet
\* and another network.
OthersSince(n, l) ==
  /\ proc[n].read <= Len(deposits)
  /\ \A k \in proc[n].read + 1 .. Len(deposits) : deposits[k].from # l.from /\ deposits[k].network # n

\* The sender of an open transaction is known.
Open(n) ==
  InTransaction(n) =>
    \A l \in Logs : IsNext(n, l) =>
      /\ user[l.from].known
      /\ proc[n].step = "bound" => user[l.from].referrer # NoUser /\ OthersSince(n, l)

\* Open transactions of two processors are about two wallets.
Apart(m, n) ==
  m # n /\ InTransaction(m) /\ InTransaction(n) =>
    \A k, l \in Logs : IsNext(m, k) /\ IsNext(n, l) => k.from # l.from

\* A log of a wallet.
LEMMA LogsTyped ==
  ASSUME NEW l \in Logs
  PROVE  l.from \in Wallets
BY DepositsAssumption

\* A transaction that is open in the same place stays as good, when what is
\* committed meanwhile is of others.
LEMMA OpenKept ==
  ASSUME Typed, Typed', SendersKnown, History, NEW n \in Networks, Open(n),
         proc'[n] = proc[n],
         \/ UNCHANGED deposits
         \/ \E x \in Logs :
              /\ deposits' = Append(deposits, x) /\ x.network # n
              /\ InTransaction(n) => \A l \in Logs : IsNext(n, l) => x.from # l.from
  PROVE  Open(n)'
<1>1. proc[n].read \in Nat /\ Len(deposits) \in Nat /\ deposits \in Seq(Logs)
  BY DEF Typed, Processors
<1>2. ASSUME InTransaction(n)', NEW l \in Logs, IsNext(n, l)'
      PROVE  /\ user'[l.from].known
             /\ proc'[n].step = "bound" => user'[l.from].referrer # NoUser /\ OthersSince(n, l)'
  <2>1. InTransaction(n) /\ IsNext(n, l)
    BY <1>2 DEF InTransaction, IsNext
  <2>2. user[l.from].known /\ user'[l.from] = user[l.from]
    BY <2>1, LogsTyped DEF Open, History
  <2>3. proc[n].step = "bound" => user[l.from].referrer # NoUser /\ OthersSince(n, l)
    BY <2>1 DEF Open
  <2>4. ASSUME OthersSince(n, l) PROVE OthersSince(n, l)'
    <3>1. CASE UNCHANGED deposits
      BY <2>4, <3>1 DEF OthersSince
    <3>2. ASSUME NEW x \in Logs, deposits' = Append(deposits, x), x.network # n, x.from # l.from
          PROVE  OthersSince(n, l)'
      <4>1. /\ Len(deposits') = Len(deposits) + 1 /\ deposits'[Len(deposits) + 1] = x
            /\ \A k \in 1..Len(deposits) : deposits'[k] = deposits[k]
        BY <1>1, <3>2
      <4>2. ASSUME NEW k \in proc[n].read + 1 .. Len(deposits')
            PROVE  deposits'[k].from # l.from /\ deposits'[k].network # n
        <5>1. CASE k = Len(deposits) + 1
          BY <3>2, <4>1, <5>1
        <5>2. CASE k # Len(deposits) + 1
          <6>1. k \in proc[n].read + 1 .. Len(deposits) /\ k \in 1..Len(deposits)
            BY <1>1, <4>1, <4>2, <5>2
          <6> QED
            BY <2>4, <4>1, <6>1 DEF OthersSince
        <5> QED
          BY <5>1, <5>2
      <4>3. proc'[n].read = proc[n].read /\ proc[n].read <= Len(deposits')
        BY <1>1, <2>4, <4>1 DEF OthersSince
      <4>4. \A k \in proc'[n].read + 1 .. Len(deposits') : deposits'[k].from # l.from /\ deposits'[k].network # n
        BY <4>2, <4>3
      <4> QED
        BY <4>3, <4>4 DEF OthersSince
    <3> QED
      BY <2>1, <3>1, <3>2
  <2> QED
    BY <2>2, <2>3, <2>4
<1> QED
  BY <1>2 DEF Open

\* Transactions that were open, and are about what they were, stay apart.
LEMMA ApartKept ==
  ASSUME NEW m \in Networks, NEW n \in Networks, Apart(m, n),
         InTransaction(m)' => InTransaction(m) /\ proc'[m].todo = proc[m].todo,
         InTransaction(n)' => InTransaction(n) /\ proc'[n].todo = proc[n].todo
  PROVE  Apart(m, n)'
BY DEF Apart, IsNext

\* A step that closes the transaction of n, or leaves it between two.
LEMMA OpenClosed ==
  ASSUME NEW n \in Networks, proc'[n].step \notin {"inserted", "bound"}
  PROVE  Open(n)'
BY DEF Open, InTransaction

-----------------------------------------------------------------------------
(* Steps as the accounts see them. *)

\* The logins that register nobody, and blocks.
Codes ==
  /\ UNCHANGED <<user, balance, events, deposits, rewards, proc>>

Registered(w) ==
  /\ w \in Wallets /\ ~user[w].known
  /\ \/ Register(w)
     \/ \E r \in Wallets : \E code : RegisterInvited(w, r, code)

\* A step of the processor of n that opens no transaction and commits nothing.
Scans(n) ==
  /\ UNCHANGED <<accounts, ledger>> /\ OtherScans(n)
  /\ proc'[n].step \notin {"inserted", "bound"}

AccountStep ==
  \/ Codes
  \/ \E w \in Wallets : Registered(w)
  \/ \E n \in Networks : \/ Scans(n)
                         \/ \E l \in Logs : \/ InsertDeposit(n, l) \/ ReadBinding(n, l)
                                            \/ CommitUnbound(n, l) \/ CommitReward(n, l)

LEMMA NextIsAccountStep ==
  ASSUME Typed, [Next]_vars
  PROVE  AccountStep
<1>1. ASSUME NEW n \in Networks, NEW l \in Logs, IgnoreLog(n, l) \/ IgnoreUnknownSender(n, l) PROVE Scans(n)
  <2>1. Passes(n, l) /\ UNCHANGED <<accounts, ledger>>
    BY <1>1 DEF IgnoreLog, IgnoreUnknownSender, Passes, At, IsNext, accounts, ledger
  <2> QED
    BY <2>1, PassedShape DEF Scans
<1>2. ASSUME NEW n \in Networks, SaveCursor(n) PROVE Scans(n)
  BY <1>2, SavedShape DEF Scans, SaveCursor
<1>3. ASSUME NEW n \in Networks, TickFails(n) PROVE Scans(n)
  <2>1. GivesUp(n) /\ UNCHANGED <<accounts, ledger>>
    BY <1>3 DEF TickFails, GivesUp, accounts
  <2> QED
    BY <2>1, GivenUpShape DEF Scans
<1>4. ASSUME NEW n \in Networks, ScanRange(n) PROVE Scans(n)
  BY <1>4, BegunShape DEF Scans, ScanRange
<1>5. ASSUME NEW w \in Wallets, Register(w) PROVE Registered(w)
  BY <1>5 DEF Registered, Register
<1>6. ASSUME NEW w \in Wallets, NEW r \in Wallets, NEW code, RegisterInvited(w, r, code) PROVE Registered(w)
  BY <1>6 DEF Registered, RegisterInvited
<1>7. ASSUME NEW w \in Wallets, ResetReferralCode(w) \/ FindNoReferralCode(w) \/ CreateReferralCode(w) PROVE Codes
  BY <1>7 DEF Codes, ResetReferralCode, FindNoReferralCode, CreateReferralCode, ledger
<1>8. ASSUME NEW n \in Networks, Mine(n) PROVE Codes
  BY <1>8 DEF Codes, Mine, accounts, ledger
<1>9. UNCHANGED vars => Codes
  BY DEF Codes, vars
<1> QED
  BY <1>1, <1>2, <1>3, <1>4, <1>5, <1>6, <1>7, <1>8, <1>9 DEF Next, ProcessorStep, AccountStep

\* What a registration leaves.
LEMMA RegisteredUser ==
  ASSUME Typed, WhoInv, NEW w \in Wallets, Registered(w)
  PROVE  /\ UNCHANGED <<deposits, rewards, proc, without>>
         /\ codes' = [codes EXCEPT ![w] = {1}] /\ issued' = [issued EXCEPT ![w] = 1]
         /\ \A v \in Wallets : v # w => user'[v] = user[v]
         /\ user'[w].known
         /\ user'[w].referrer # NoUser => user'[w].referrer # w /\ user[user'[w].referrer].known
<1>1. user[w] \in [known : BOOLEAN, referrer : Wallets \cup {NoUser}] /\ ~user[w].known
  BY DEF Typed, Registered
<1>2. CASE Register(w)
  <2>1. user' = [user EXCEPT ![w] = [user[w] EXCEPT !.known = TRUE]]
    BY <1>2 DEF Register
  <2>2. [user[w] EXCEPT !.known = TRUE].known /\ [user[w] EXCEPT !.known = TRUE].referrer = user[w].referrer
    BY <1>1
  <2>3. user[w].referrer = NoUser
    BY <1>1 DEF WhoInv
  <2> QED
    BY <1>2, <2>1, <2>2, <2>3 DEF Register, Typed
<1>3. ASSUME NEW r \in Wallets, NEW code, RegisterInvited(w, r, code)
      PROVE  /\ UNCHANGED <<deposits, rewards, proc, without>>
             /\ codes' = [codes EXCEPT ![w] = {1}] /\ issued' = [issued EXCEPT ![w] = 1]
             /\ \A v \in Wallets : v # w => user'[v] = user[v]
             /\ user'[w].known
             /\ user'[w].referrer # NoUser => user'[w].referrer # w /\ user[user'[w].referrer].known
  <2>1. user'[w] = [known |-> TRUE, referrer |-> r] /\ \A v \in Wallets : v # w => user'[v] = user[v]
    BY <1>3 DEF RegisterInvited, Typed
  <2>2. user[r].known /\ r # w
    BY <1>1, <1>3 DEF RegisterInvited, WhoInv
  <2> QED
    BY <1>3, <2>1, <2>2 DEF RegisterInvited
<1> QED
  BY <1>2, <1>3 DEF Registered

\* Logins only add rows, and commits only add deposits.
LEMMA HistoryKept ==
  ASSUME Typed, WhoInv, AccountStep
  PROVE  History
<1>1. CASE UNCHANGED <<user, deposits>>
  BY <1>1 DEF History
<1>2. ASSUME NEW w \in Wallets, Registered(w) PROVE History
  <2>1. UNCHANGED deposits /\ (\A v \in Wallets : v # w => user'[v] = user[v]) /\ ~user[w].known
    BY <1>2, RegisteredUser DEF Registered
  <2> QED
    BY <2>1 DEF History
<1>3. ASSUME NEW n \in Networks, NEW l \in Logs, CommitUnbound(n, l) \/ CommitReward(n, l) PROVE History
  <2>1. deposits' = Append(deposits, l) /\ UNCHANGED user
    BY <1>3 DEF CommitUnbound, CommitReward, accounts
  <2>2. /\ deposits' \in Seq(Logs) /\ Len(deposits') = Len(deposits) + 1 /\ Len(deposits) \in Nat
        /\ \A i \in DOMAIN deposits : deposits'[i] = deposits[i]
        /\ DOMAIN deposits = 1..Len(deposits)
    BY <2>1, DepositedGrows DEF Typed
  <2>3. DOMAIN deposits' = 1..Len(deposits')
    BY <2>2
  <2> QED
    BY <2>1, <2>2, <2>3 DEF History
<1>4. ASSUME NEW n \in Networks, NEW l \in Logs, InsertDeposit(n, l) \/ ReadBinding(n, l) PROVE History
  BY <1>1, <1>4 DEF InsertDeposit, ReadBinding, accounts, ledger
<1>5. ASSUME NEW n \in Networks, Scans(n) PROVE History
  BY <1>1, <1>5 DEF Scans, accounts, ledger
<1>6. CASE Codes
  BY <1>1, <1>6 DEF Codes
<1> QED
  BY <1>2, <1>3, <1>4, <1>5, <1>6 DEF AccountStep

\* Codes and bindings.
LEMMA WhoNext ==
  ASSUME Typed, Typed', WhoInv, [Next]_vars
  PROVE  WhoInv'
<1>1. CASE UNCHANGED <<user, codes, issued, without>>
  BY <1>1 DEF WhoInv
<1>2. ASSUME NEW w \in Wallets, Registered(w) PROVE WhoInv'
  <2>1. /\ without' = without
        /\ codes' = [codes EXCEPT ![w] = {1}] /\ issued' = [issued EXCEPT ![w] = 1]
        /\ \A v \in Wallets : v # w => user'[v] = user[v]
        /\ user'[w].known
        /\ user'[w].referrer # NoUser => user'[w].referrer # w /\ user[user'[w].referrer].known
    BY <1>2, RegisteredUser
  <2>2. codes' \in [Wallets -> SUBSET Nat] /\ issued' \in [Wallets -> Nat] /\ without' \in [Wallets -> Nat]
    BY <2>1 DEF WhoInv
  <2>3. ASSUME NEW v \in Wallets
        PROVE  codes'[v] # {} \/ without'[v] > 0 => user'[v].known
    BY <2>1, <2>3 DEF WhoInv
  <2>4. ASSUME NEW v \in Wallets, user'[v].referrer # NoUser
        PROVE  user'[v].known /\ user'[user'[v].referrer].known
    <3>1. user'[v].referrer \in Wallets
      BY <2>4 DEF Typed
    <3>2. CASE v = w
      BY <2>1, <2>4, <3>1, <3>2
    <3>3. CASE v # w
      <4>1. user'[v] = user[v] /\ user[v].known /\ user[user[v].referrer].known
        BY <2>1, <2>4, <3>3 DEF WhoInv
      <4> QED
        BY <2>1, <3>1, <4>1
    <3> QED
      BY <3>2, <3>3
  <2> QED
    BY <2>2, <2>3, <2>4 DEF WhoInv
<1>3. ASSUME NEW w \in Wallets, ResetReferralCode(w) PROVE WhoInv'
  <2>1. issued[w] + 1 \in Nat
    BY DEF WhoInv
  <2> QED
    BY <1>3, <2>1 DEF ResetReferralCode, WhoInv
<1>4. ASSUME NEW w \in Wallets, FindNoReferralCode(w) PROVE WhoInv'
  BY <1>4 DEF FindNoReferralCode, WhoInv
<1>5. ASSUME NEW w \in Wallets, CreateReferralCode(w) PROVE WhoInv'
  <2>1. issued[w] + 1 \in Nat /\ without[w] - 1 \in Nat /\ user[w].known /\ codes[w] \cup {issued[w] + 1} \in SUBSET Nat
    BY <1>5 DEF CreateReferralCode, WhoInv
  <2>2. /\ codes' = [codes EXCEPT ![w] = codes[w] \cup {issued[w] + 1}]
        /\ issued' = [issued EXCEPT ![w] = issued[w] + 1]
        /\ without' = [without EXCEPT ![w] = without[w] - 1]
        /\ UNCHANGED user
    BY <1>5 DEF CreateReferralCode
  <2> QED
    BY <2>1, <2>2 DEF WhoInv
<1>6. ASSUME NEW w \in Wallets, NEW r \in Wallets, NEW code, RegisterInvited(w, r, code) PROVE WhoInv'
  BY <1>2, <1>6 DEF Registered, RegisterInvited
<1>7. ASSUME NEW w \in Wallets, Register(w) PROVE WhoInv'
  BY <1>2, <1>7 DEF Registered, Register
<1>8. ASSUME NEW n \in Networks, ProcessorStep(n) \/ TickFails(n) \/ Mine(n) PROVE WhoInv'
  BY <1>1, <1>8 DEF ProcessorStep, ScanRange, IgnoreLog, IgnoreUnknownSender, InsertDeposit, CommitUnbound,
              ReadBinding, CommitReward, SaveCursor, TickFails, Mine, accounts
<1>9. UNCHANGED vars => WhoInv'
  BY <1>1 DEF vars
<1> QED
  BY <1>3, <1>4, <1>5, <1>6, <1>7, <1>8, <1>9 DEF Next

OpenInv ==
  /\ OnceInv /\ WhoInv /\ SendersKnown
  /\ \A n \in Networks : Open(n)
  /\ \A m, n \in Networks : Apart(m, n)

LEMMA OpenInit == Init => OpenInv
<1> SUFFICES ASSUME Init PROVE OpenInv
  OBVIOUS
<1>1. WhoInv
  BY DEF Init, WhoInv
<1>2. SendersKnown
  BY DEF Init, SendersKnown, Deposited
<1>3. \A n \in Networks : ~InTransaction(n)
  BY DEF Init, InTransaction, IdleProcessor
<1> QED
  BY <1>1, <1>2, <1>3, OnceInit DEF OpenInv, Open, Apart

\* Only what an open transaction is about is committed, and what is read when a
\* transaction goes on is still read when it ends.
LEMMA OpenNext == OpenInv /\ [Next]_vars => OpenInv'
<1> SUFFICES ASSUME OpenInv, [Next]_vars PROVE OpenInv'
  OBVIOUS
<1>0. /\ Typed /\ OnceInv /\ WhoInv /\ SendersKnown
      /\ \A n \in Networks : Open(n) /\ ScanOf(n) /\ \A m \in Networks : Apart(m, n)
  BY DEF OpenInv, OnceInv, ScanInv
<1>1. Typed' /\ OnceInv' /\ WhoInv' /\ AccountStep /\ History
  BY <1>0, TypedNext, OnceNext, WhoNext, NextIsAccountStep, HistoryKept
<1>2. Deposited' = Deposited => SendersKnown'
  <2>1. \A l \in Deposited : l.from \in Wallets
    <3>1. Deposited \subseteq Logs
      BY <1>0 DEF Typed, Deposited
    <3> QED
      BY <3>1, LogsTyped
  <2> QED
    BY <1>0, <1>1, <2>1 DEF SendersKnown, History
<1>3. UNCHANGED deposits => SendersKnown' /\ \A n \in Networks : proc'[n] = proc[n] => Open(n)'
  <2>1. UNCHANGED deposits => Deposited' = Deposited
    BY DEF Deposited
  <2> QED
    BY <1>0, <1>1, <1>2, <2>1, OpenKept
<1>4. \A m, n \in Networks : proc'[m] = proc[m] /\ proc'[n] = proc[n] => Apart(m, n)'
  BY <1>0, ApartKept DEF InTransaction
<1>5. CASE UNCHANGED <<deposits, proc>>
  BY <1>1, <1>3, <1>4, <1>5 DEF OpenInv
<1>6. ASSUME NEW w \in Wallets, Registered(w) PROVE OpenInv'
  BY <1>0, <1>5, <1>6, RegisteredUser
<1>7. ASSUME NEW n \in Networks, OtherScans(n), Open(n)', SendersKnown',
             \A m \in Networks : m # n => Open(m)' /\ Apart(m, n)' /\ Apart(n, m)'
      PROVE  OpenInv'
  <2>1. \A m, k \in Networks : Apart(m, k)'
    <3>1. Apart(n, n)'
      BY DEF Apart
    <3>2. \A m, k \in Networks : m # n /\ k # n => Apart(m, k)'
      BY <1>4, <1>7 DEF OtherScans
    <3> QED
      BY <1>7, <3>1, <3>2
  <2> QED
    BY <1>1, <1>7, <2>1 DEF OpenInv
<1>8. ASSUME NEW n \in Networks, ~InTransaction(n)' PROVE \A m \in Networks : Apart(m, n)' /\ Apart(n, m)'
  BY <1>8 DEF Apart
<1>9. ASSUME NEW n \in Networks, Scans(n) PROVE OpenInv'
  <2>1. UNCHANGED deposits /\ OtherScans(n) /\ Open(n)' /\ ~InTransaction(n)'
    BY <1>9, OpenClosed DEF Scans, ledger, InTransaction
  <2>2. \A m \in Networks : m # n => Open(m)'
    BY <1>3, <2>1 DEF OtherScans
  <2> QED
    BY <1>3, <1>7, <1>8, <2>1, <2>2
<1>10. ASSUME NEW n \in Networks, NEW l \in Logs, InsertDeposit(n, l) PROVE OpenInv'
  <2>1. UNCHANGED <<deposits, user>>
    BY <1>10 DEF InsertDeposit, ledger, accounts
  <2>2. Inside(n) /\ OtherScans(n) /\ proc'[n].todo = proc[n].todo
    BY <1>0, <1>10, InsertIsInside, InsideShape DEF Inside
  <2>3. proc'[n].step = "inserted"
    BY <1>0, <1>10 DEF InsertDeposit, Typed, Processors
  <2>4. \A k \in Logs : IsNext(n, k)' => k = l
    <3>1. \A k : IsNext(n, k)' => IsNext(n, k)
      BY <2>2 DEF IsNext
    <3>2. IsNext(n, l) /\ ScanInv
      BY <1>0, <1>10 DEF InsertDeposit, OnceInv
    <3> QED
      BY <3>1, <3>2, NextIsUnique
  <2>5. user'[l.from].known
    BY <1>10, <2>1 DEF InsertDeposit
  <2>6. Open(n)'
    BY <2>3, <2>4, <2>5 DEF Open
  <2>7. ASSUME NEW m \in Networks, m # n PROVE Open(m)' /\ Apart(m, n)' /\ Apart(n, m)'
    <3>1. Open(m)' /\ proc'[m] = proc[m]
      BY <1>3, <2>1, <2>2, <2>7 DEF OtherScans
    <3>2. \A k \in Logs : InTransaction(m) /\ IsNext(m, k) => k.from # l.from
      BY <1>10, <2>7 DEF InsertDeposit, Unlocked, Locks, InTransaction
    <3>3. \A k \in Logs : InTransaction(m)' /\ IsNext(m, k)' => k.from # l.from
      BY <3>1, <3>2 DEF InTransaction, IsNext
    <3> QED
      BY <2>4, <3>1, <3>3 DEF Apart
  <2> QED
    BY <1>3, <1>7, <2>1, <2>2, <2>6, <2>7
<1>11. ASSUME NEW n \in Networks, NEW l \in Logs, ReadBinding(n, l) PROVE OpenInv'
  <2>1. UNCHANGED <<user, deposits>>
    BY <1>11 DEF ReadBinding, ledger, accounts
  <2>2. Inside(n) /\ OtherScans(n) /\ proc'[n].todo = proc[n].todo
    BY <1>0, <1>11, ReadIsInside, InsideShape DEF Inside
  <2>3. proc'[n].read = Len(deposits) /\ user[l.from].referrer # NoUser
    <3>1. proc' = [proc EXCEPT ![n] = [proc[n] EXCEPT !.step = "bound", !.read = Len(deposits)]]
      BY <1>0, <1>11 DEF ReadBinding, Typed, Processors
    <3> QED
      BY <1>0, <1>11, <3>1 DEF Typed, Processors, ReadBinding
  <2>4. \A k \in Logs : IsNext(n, k)' => k = l
    <3>1. \A k : IsNext(n, k)' => IsNext(n, k)
      BY <2>2 DEF IsNext
    <3>2. IsNext(n, l) /\ ScanInv
      BY <1>0, <1>11 DEF ReadBinding, OnceInv
    <3> QED
      BY <3>1, <3>2, NextIsUnique
  <2>5. user[l.from].known /\ InTransaction(n)
    BY <1>0, <1>11 DEF ReadBinding, At, InTransaction, Open
  <2>6. OthersSince(n, l)'
    <3>1. Len(deposits) \in Nat
      BY <1>0 DEF Typed
    <3> QED
      BY <2>1, <2>3, <3>1 DEF OthersSince
  <2>7. Open(n)'
    BY <2>1, <2>3, <2>4, <2>5, <2>6 DEF Open
  <2>8. ASSUME NEW m \in Networks, m # n PROVE Open(m)' /\ Apart(m, n)' /\ Apart(n, m)'
    <3>1. Open(m)' /\ proc'[m] = proc[m]
      BY <1>3, <2>1, <2>2, <2>8 DEF OtherScans
    <3> QED
      BY <1>0, <2>2, <2>5, <3>1, ApartKept DEF InTransaction
  <2> QED
    BY <1>3, <1>7, <2>1, <2>2, <2>7, <2>8
<1>12. ASSUME NEW n \in Networks, NEW l \in Logs, CommitUnbound(n, l) \/ CommitReward(n, l) PROVE OpenInv'
  <2>1. Commits(n, l) /\ InTransaction(n) /\ IsNext(n, l)
    BY <1>12, CommitCommits DEF CommitUnbound, CommitReward, At, InTransaction
  <2>2. proc'[n].step \in {"scanning", "idle"} /\ OtherScans(n)
    BY <1>0, <2>1, PassedShape, GivenUpShape DEF Commits
  <2>3. Open(n)' /\ ~InTransaction(n)'
    BY <2>2, OpenClosed DEF InTransaction
  <2>4. Deposited' = Deposited \cup {l} /\ deposits' = Append(deposits, l)
    BY <1>0, <2>1, DepositedGrows DEF Commits, Typed
  <2>5. user[l.from].known /\ UNCHANGED user
    BY <1>0, <1>12 DEF CommitUnbound, CommitReward, At, InTransaction, Open, accounts
  <2>6. SendersKnown'
    BY <1>0, <2>4, <2>5 DEF SendersKnown
  <2>7. ASSUME NEW m \in Networks, m # n PROVE Open(m)'
    <3>1. l.network = n /\ proc'[m] = proc[m]
      BY <1>0, <2>1, <2>2, <2>7 DEF ScanOf, IsNext, OtherScans
    <3>2. InTransaction(m) => \A k \in Logs : IsNext(m, k) => l.from # k.from
      BY <1>0, <2>1, <2>7 DEF Apart
    <3> QED
      BY <1>0, <1>1, <2>4, <2>7, <3>1, <3>2, OpenKept
  <2> QED
    BY <1>7, <1>8, <2>2, <2>3, <2>6, <2>7
<1>13. Codes => OpenInv'
  BY <1>5 DEF Codes
<1> QED
  BY <1>1, <1>6, <1>9, <1>10, <1>11, <1>12, <1>13 DEF AccountStep

-----------------------------------------------------------------------------
(* Balances and events. *)

\* Every event is that of a known wallet; one about a log is that of a deposit.
EventsKnown ==
  \A e \in events :
    /\ e.user \in Wallets /\ user[e.user].known
    /\ e.type \in {"deposit", "referral"} => e.ref \in Deposited

LedgerInv ==
  /\ balance \in [Wallets -> Nat]
  /\ Amounts(events) /\ EventsKnown
  /\ \A w \in Wallets : balance[w] = SumFor(events, w)
  /\ \A l \in Deposited : DepositEvent(l) \subseteq events

LEMMA LedgerInit == Init => LedgerInv
<1> SUFFICES ASSUME Init PROVE LedgerInv
  OBVIOUS
<1>1. events = {} /\ Deposited = {} /\ balance \in [Wallets -> Nat]
  BY DEF Init, Deposited
<1>2. Amounts(events)
  BY <1>1, FS_EmptySet DEF Amounts
<1>3. ASSUME NEW w \in Wallets PROVE balance[w] = SumFor(events, w)
  <2> DEFINE S == {x \in events : x.user = w}
             f == [e \in S |-> e.amount]
  <2>1. f \in [S -> Nat] /\ \A x \in S : f[x] = 0
    BY <1>1
  <2> HIDE DEF f
  <2>2. Total(f) = 0
    BY <2>1, TotalZero
  <2> QED
    BY <2>2 DEF Init, SumFor, f
<1> QED
  BY <1>1, <1>2, <1>3 DEF LedgerInv, EventsKnown

\* A wallet nobody knows has no events.
LEMMA UnknownHasNothing ==
  ASSUME LedgerInv, NEW w \in Wallets, ~user[w].known
  PROVE  /\ SumFor(events, w) = 0
         /\ \A type, ref : Unseen(events, type, w, ref)
<1> DEFINE S == {x \in events : x.user = w}
           f == [e \in S |-> e.amount]
<1>1. S = {} /\ \A e \in events : e.user # w
  BY DEF LedgerInv, EventsKnown
<1>2. f \in [S -> Nat] /\ \A x \in S : f[x] = 0
  BY <1>1
<1> HIDE DEF f
<1>3. Total(f) = 0
  BY <1>2, TotalZero
<1> QED
  BY <1>1, <1>3 DEF SumFor, Unseen, f

\* What the bonuses of a new wallet do.
LEMMA LedgerRegistered ==
  ASSUME OpenInv, OpenInv', LedgerInv, History, NEW w \in Wallets, Registered(w)
  PROVE  LedgerInv'
<1>0. Typed /\ WhoInv /\ UNCHANGED deposits /\ ~user[w].known /\ user'[w].known
  BY RegisteredUser DEF OpenInv, OnceInv, ScanInv, Registered
<1>1. SignupBonus \in Nat /\ InviteeBonus \in Nat
  BY DepositsAssumption
<1>2. /\ Amounts(events) /\ balance \in [Wallets -> Nat]
      /\ SumFor(events, w) = 0 /\ \A type, ref : Unseen(events, type, w, ref)
      /\ \A v \in Wallets : balance[v] = SumFor(events, v)
  BY <1>0, UnknownHasNothing DEF LedgerInv
<1> DEFINE E == events \cup Event("signup", w, w, SignupBonus)
           F == E \cup Event("invitee", w, w, InviteeBonus)
<1>3. ASSUME NEW v
      PROVE  /\ Amounts(E) /\ SumFor(events, v) \in Nat
             /\ SumFor(E, v) = SumFor(events, v) + (IF w = v THEN SignupBonus ELSE 0)
  <2>1. Unseen(events, "signup", w, w)
    BY <1>2
  <2> QED
    BY <1>1, <1>2, <2>1, SumEvent
<1>4. Unseen(E, "invitee", w, w)
  <2>1. \A e \in Event("signup", w, w, SignupBonus) : e.type = "signup"
    BY EventFields
  <2> QED
    BY <1>2, <2>1 DEF Unseen
<1> HIDE DEF E
<1>5. ASSUME NEW v
      PROVE  /\ Amounts(F)
             /\ SumFor(F, v) = SumFor(E, v) + (IF w = v THEN InviteeBonus ELSE 0)
  <2>1. Amounts(E)
    BY <1>3
  <2> QED
    BY <1>1, <1>4, <2>1, SumEvent
<1> USE DEF E
<1>6. \A e \in F : e \in events \/ (e.user = w /\ e.type \notin {"deposit", "referral"})
  BY EventFields
<1> HIDE DEF E, F
<1>7. /\ Amounts(events') /\ balance' \in [Wallets -> Nat] /\ events \subseteq events'
      /\ \A v \in Wallets : balance'[v] = SumFor(events', v)
      /\ \A e \in events' : e \in events \/ (e.user = w /\ e.type \notin {"deposit", "referral"})
  <2>1. CASE Register(w)
    <3>1. events' = E /\ balance' = [balance EXCEPT ![w] = SignupBonus]
      BY <2>1 DEF Register, E
    <3>2. \A v \in Wallets : balance'[v] = SumFor(E, v)
      BY <1>1, <1>2, <1>3, <3>1
    <3>3. Amounts(E) /\ balance' \in [Wallets -> Nat]
      BY <1>1, <1>2, <1>3, <3>1
    <3> QED
      BY <1>6, <3>1, <3>2, <3>3 DEF E, F
  <2>2. ASSUME NEW r \in Wallets, NEW code, RegisterInvited(w, r, code)
        PROVE  events' = F /\ balance' = [balance EXCEPT ![w] = SignupBonus + InviteeBonus]
    BY <2>2 DEF RegisterInvited, E, F
  <2>3. CASE events' = F /\ balance' = [balance EXCEPT ![w] = SignupBonus + InviteeBonus]
    <3>1. \A v \in Wallets : balance'[v] = IF v = w THEN SignupBonus + InviteeBonus ELSE balance[v]
      BY <1>2, <2>3
    <3>2. \A v \in Wallets : balance'[v] = SumFor(F, v)
      BY <1>1, <1>2, <1>3, <1>5, <3>1
    <3>3. Amounts(F) /\ balance' \in [Wallets -> Nat]
      BY <1>1, <1>2, <1>5, <2>3
    <3> QED
      BY <1>6, <2>3, <3>2, <3>3 DEF E, F
  <2> QED
    BY <2>1, <2>2, <2>3 DEF Registered
<1>8. Deposited' = Deposited
  BY <1>0 DEF Deposited
<1>9. EventsKnown'
  BY <1>0, <1>7, <1>8 DEF EventsKnown, LedgerInv, History
<1>10. \A l \in Deposited' : DepositEvent(l) \subseteq events'
  BY <1>7, <1>8 DEF LedgerInv
<1> QED
  BY <1>7, <1>9, <1>10 DEF LedgerInv, DepositEvent

\* What the event of a deposit adds.
LEMMA DepositAdds ==
  ASSUME NEW l \in Logs, NEW v, Unseen(events, "deposit", l.from, l), Amounts(events), Credits(l) \in Nat
  PROVE  /\ Amounts(events \cup DepositEvent(l)) /\ SumFor(events, v) \in Nat
         /\ SumFor(events \cup DepositEvent(l), v) = SumFor(events, v) + (IF l.from = v THEN Credits(l) ELSE 0)
<1>1. SumFor(events, v) \in Nat
  BY SumEvent
<1>2. Amounts(events \cup Event("deposit", l.from, l, Credits(l)))
  BY SumEvent
<1>3. SumFor(events \cup Event("deposit", l.from, l, Credits(l)), v)
        = SumFor(events, v) + (IF l.from = v THEN Credits(l) ELSE 0)
  BY SumEvent
<1> QED
  BY <1>1, <1>2, <1>3 DEF DepositEvent

\* What the event of a reward adds.
LEMMA ReferralAdds ==
  ASSUME NEW E, Amounts(E), NEW u, NEW l, NEW amount \in Nat, Unseen(E, "referral", u, l), NEW w
  PROVE  /\ Amounts(E \cup Event("referral", u, l, amount))
         /\ SumFor(E \cup Event("referral", u, l, amount), w) = SumFor(E, w) + (IF u = w THEN amount ELSE 0)
<1>1. Amounts(E \cup Event("referral", u, l, amount))
  BY SumEvent
<1>2. SumFor(E \cup Event("referral", u, l, amount), w) = SumFor(E, w) + (IF u = w THEN amount ELSE 0)
  BY SumEvent
<1> QED
  BY <1>1, <1>2

\* What a commit does.
LEMMA LedgerCommitted ==
  ASSUME OpenInv, OpenInv', LedgerInv, History, NEW n \in Networks, NEW l \in Logs,
         CommitUnbound(n, l) \/ CommitReward(n, l)
  PROVE  LedgerInv'
<1>0. /\ Typed /\ WhoInv /\ Open(n) /\ InTransaction(n) /\ IsNext(n, l) /\ Fresh(n)
      /\ deposits' = Append(deposits, l) /\ UNCHANGED user
  BY DEF OpenInv, OnceInv, ScanInv, CommitUnbound, CommitReward, At, InTransaction, accounts
<1>1. /\ Deposited' = Deposited \cup {l} /\ l \notin Deposited
      /\ user[l.from].known /\ l.from \in Wallets /\ Credits(l) \in Nat
  BY <1>0, DepositedGrows, LogsTyped, CreditsTyped DEF Typed, Fresh, Open
<1>2. Amounts(events) /\ balance \in [Wallets -> Nat] /\ \A v \in Wallets : balance[v] = SumFor(events, v)
  BY DEF LedgerInv
<1> DEFINE E == events \cup DepositEvent(l)
<1>3. Unseen(events, "deposit", l.from, l)
  BY <1>1 DEF LedgerInv, EventsKnown, Unseen
<1>4. ASSUME NEW v
      PROVE  /\ Amounts(E) /\ SumFor(events, v) \in Nat
             /\ SumFor(E, v) = SumFor(events, v) + (IF l.from = v THEN Credits(l) ELSE 0)
  BY <1>1, <1>2, <1>3, DepositAdds
<1>5. \A e \in E : e \in events \/ (e.user = l.from /\ e.type = "deposit" /\ e.ref = l)
  BY EventFields DEF DepositEvent
<1>6. DepositEvent(l) \subseteq E /\ events \subseteq E
  OBVIOUS
<1> HIDE DEF E
<1> DEFINE Goal == /\ Amounts(events') /\ balance' \in [Wallets -> Nat] /\ E \subseteq events'
                   /\ \A v \in Wallets : balance'[v] = SumFor(events', v)
                   /\ \A e \in events' : \/ e \in events
                                         \/ e.user \in Wallets /\ user[e.user].known /\ e.ref = l
<1>7. ASSUME CommitUnbound(n, l) PROVE Goal
  <2>1. events' = E /\ balance' = [balance EXCEPT ![l.from] = balance[l.from] + Credits(l)]
    BY <1>7 DEF CommitUnbound, CreditSender, E
  <2>2. \A v \in Wallets : balance'[v] = balance[v] + (IF l.from = v THEN Credits(l) ELSE 0)
    BY <1>1, <1>2, <2>1
  <2>3. balance' \in [Wallets -> Nat] /\ \A v \in Wallets : balance'[v] = SumFor(E, v)
    BY <1>1, <1>2, <1>4, <2>1, <2>2
  <2> QED
    BY <1>1, <1>4, <1>5, <2>1, <2>3
<1>8. ASSUME CommitReward(n, l) PROVE Goal
  <2> DEFINE r == user[l.from].referrer
             prior == CountInviteePurchases(r, proc[n].read)
             amount == RewardFor(Credits(l), prior)
             F == E \cup Event("referral", r, l, amount)
  <2>1. r \in Wallets /\ user[r].known
    BY <1>0, <1>1, <1>8 DEF Open, Typed, CommitReward, At, WhoInv
  <2>2. amount \in Nat
    <3>1. prior \in Nat
      BY <1>0, PurchasesTyped DEF CountInviteePurchases, Purchases, Typed, Processors
    <3> QED
      BY <1>1, <3>1, RewardGrows
  <2>3. events' = F /\ balance' = CreditReferrer(l, amount)
    BY <1>8 DEF CommitReward, E
  <2> HIDE DEF amount
  <2>4. balance' = [[balance EXCEPT ![l.from] = balance[l.from] + Credits(l)] EXCEPT ![r] =
                      [balance EXCEPT ![l.from] = balance[l.from] + Credits(l)][r] + amount]
    BY <2>3 DEF CreditReferrer, CreditSender
  <2>5. Unseen(E, "referral", r, l)
    BY <1>1, <1>5 DEF LedgerInv, EventsKnown, Unseen
  <2>6. ASSUME NEW v
        PROVE  /\ Amounts(F) /\ SumFor(E, v) \in Nat
               /\ SumFor(F, v) = SumFor(E, v) + (IF r = v THEN amount ELSE 0)
    <3>1. Amounts(E) /\ SumFor(E, v) \in Nat
      BY <1>1, <1>4
    <3> HIDE DEF r
    <3>2. /\ Amounts(E \cup Event("referral", r, l, amount))
          /\ SumFor(E \cup Event("referral", r, l, amount), v) = SumFor(E, v) + (IF r = v THEN amount ELSE 0)
      BY <2>2, <2>5, <3>1, ReferralAdds
    <3> QED
      BY <3>1, <3>2
  <2>7. \A v \in Wallets : balance'[v] = balance[v] + (IF l.from = v THEN Credits(l) ELSE 0) + (IF r = v THEN amount ELSE 0)
    BY <1>1, <1>2, <2>1, <2>2, <2>4
  <2>8. balance' \in [Wallets -> Nat]
    BY <1>1, <1>2, <2>1, <2>2, <2>4
  <2>9. ASSUME NEW v \in Wallets PROVE balance'[v] = SumFor(F, v)
    <3>1. /\ balance[v] = SumFor(events, v) /\ SumFor(events, v) \in Nat
          /\ SumFor(E, v) = SumFor(events, v) + (IF l.from = v THEN Credits(l) ELSE 0)
      BY <1>2, <1>4
    <3>2. SumFor(F, v) = SumFor(E, v) + (IF r = v THEN amount ELSE 0)
      BY <2>6
    <3> HIDE DEF F, r
    <3> QED
      BY <2>7, <3>1, <3>2
  <2>10. \A e \in F : e \in E \/ (e.user = r /\ e.ref = l)
    BY EventFields
  <2>11. E \subseteq F
    OBVIOUS
  <2> HIDE DEF F, r
  <2> QED
    BY <1>1, <1>5, <2>1, <2>3, <2>6, <2>8, <2>9, <2>10, <2>11
<1>9. Goal
  BY <1>7, <1>8
<1>10. EventsKnown'
  BY <1>0, <1>1, <1>9 DEF EventsKnown, LedgerInv
<1>11. \A k \in Deposited' : DepositEvent(k) \subseteq events'
  BY <1>1, <1>6, <1>9 DEF LedgerInv
<1> QED
  BY <1>9, <1>10, <1>11 DEF LedgerInv, DepositEvent

LEMMA LedgerNext == OpenInv /\ LedgerInv /\ [Next]_vars => LedgerInv'
<1> SUFFICES ASSUME OpenInv, LedgerInv, [Next]_vars PROVE LedgerInv'
  OBVIOUS
<1>1. OpenInv' /\ Typed /\ WhoInv
  BY OpenNext DEF OpenInv, OnceInv, ScanInv
<1>2. AccountStep /\ History
  BY <1>1, NextIsAccountStep, HistoryKept
<1>3. CASE UNCHANGED <<balance, events, deposits>>
  <2>1. Deposited' = Deposited
    BY <1>3 DEF Deposited
  <2>2. EventsKnown'
    BY <1>2, <1>3, <2>1 DEF EventsKnown, LedgerInv, History
  <2> QED
    BY <1>3, <2>1, <2>2 DEF LedgerInv, DepositEvent
<1>4. ASSUME NEW n \in Networks, NEW l \in Logs, InsertDeposit(n, l) \/ ReadBinding(n, l) PROVE LedgerInv'
  BY <1>3, <1>4 DEF InsertDeposit, ReadBinding, ledger
<1>5. ASSUME NEW n \in Networks, Scans(n) PROVE LedgerInv'
  BY <1>3, <1>5 DEF Scans, ledger
<1>6. Codes => LedgerInv'
  BY <1>3 DEF Codes
<1> QED
  BY <1>1, <1>2, <1>4, <1>5, <1>6, LedgerRegistered, LedgerCommitted DEF AccountStep

\* The events explain every balance, one event per type and source, for any
\* logs, bindings and faults.
THEOREM BalancesExplained == Spec => []EventsExplainBalances
<1>1. OpenInv /\ LedgerInv => EventsExplainBalances
  <2>1. \A w : Credited(w) = SumFor(events, w)
    BY DEF Credited, EventsOf, SumFor
  <2> QED
    BY <2>1 DEF OpenInv, OnceInv, LedgerInv, EventsExplainBalances
<1> QED
  BY <1>1, OpenInit, OpenNext, LedgerInit, LedgerNext, PTL DEF Spec

-----------------------------------------------------------------------------
(* Rewards. *)

\* What one reward is for.
Justified(r) == \E i \in DOMAIN deposits : IsPaidFor(r, i)

Due(l) == user[l.from].referrer # NoUser /\ RewardFor(Credits(l), 0) > 0

RewardInv ==
  /\ rewards \subseteq Rewards
  /\ \A r \in rewards : Justified(r)
  /\ \A r, s \in rewards : r.log = s.log => r = s
  /\ \A l \in Deposited : Due(l) => \E r \in rewards : r.log = l

LEMMA RewardInit == Init => RewardInv
BY DEF Init, RewardInv, Deposited

\* What committed once is counted as before.
LEMMA PurchasesKept ==
  ASSUME Typed, SendersKnown, History, NEW s \in 0..Len(deposits), NEW referrer
  PROVE  Purchases(referrer, s)' = Purchases(referrer, s)
<1>1. ASSUME NEW k \in 1..s
      PROVE  deposits'[k] = deposits[k] /\ user'[deposits'[k].from] = user[deposits[k].from]
  <2>1. k \in DOMAIN deposits
    BY DEF Typed
  <2>2. deposits[k] \in Logs /\ deposits[k] \in Deposited /\ deposits'[k] = deposits[k]
    BY <2>1 DEF Typed, Deposited, History
  <2> QED
    BY <2>2, LogsTyped DEF SendersKnown, History
<1>2. {k \in 1..s : user'[deposits'[k].from].referrer = referrer}
        = {k \in 1..s : user[deposits[k].from].referrer = referrer}
  BY <1>1
<1> QED
  BY <1>2 DEF Purchases

\* A reward stays justified, and what is due of an old deposit stays the same.
LEMMA JustifiedKept ==
  ASSUME Typed, SendersKnown, History, RewardInv, NEW r \in rewards
  PROVE  Justified(r)' /\ r.log \in Deposited
<1>1. PICK i \in DOMAIN deposits : IsPaidFor(r, i)
  BY DEF RewardInv, Justified
<1>2. deposits[i] = r.log /\ user[r.log.from].referrer = r.referrer /\ r.amount = RewardFor(Credits(r.log), r.prior)
  BY <1>1 DEF IsPaidFor
<1>3. r.log \in Deposited /\ r.log.from \in Wallets
  BY <1>2, LogsTyped DEF Deposited, RewardInv, Rewards
<1>4. user'[r.log.from] = user[r.log.from]
  BY <1>3 DEF SendersKnown, History
<1>5. i \in DOMAIN deposits' /\ deposits'[i] = r.log
  BY <1>2 DEF History
<1>6. PICK s \in 0..(i - 1) : r.prior = Purchases(r.referrer, s) /\ \A k \in s + 1 .. i - 1 : MayBeMissed(r, k)
  BY <1>1 DEF IsPaidFor
<1>7. i \in 1..Len(deposits) /\ Len(deposits) \in Nat /\ s \in 0..Len(deposits)
  BY <1>6 DEF Typed
<1>8. r.prior = Purchases(r.referrer, s)'
  BY <1>6, <1>7, PurchasesKept
<1>9. \A k \in s + 1 .. i - 1 : MayBeMissed(r, k)'
  <2>1. \A k \in s + 1 .. i - 1 : k \in DOMAIN deposits
    BY <1>6, <1>7 DEF Typed
  <2> QED
    BY <1>6, <2>1 DEF MayBeMissed, History
<1>10. IsPaidFor(r, i)'
  BY <1>2, <1>4, <1>5, <1>6, <1>8, <1>9 DEF IsPaidFor
<1> QED
  BY <1>3, <1>5, <1>10 DEF Justified

LEMMA DueKept ==
  ASSUME Typed, SendersKnown, History, NEW l \in Deposited
  PROVE  Due(l)' <=> Due(l)
<1>1. l \in Logs
  BY DEF Typed, Deposited
<1>2. user'[l.from] = user[l.from]
  BY <1>1, LogsTyped DEF SendersKnown, History
<1> QED
  BY <1>2 DEF Due

\* A step that writes no reward and commits nothing a reward is due for.
LEMMA RewardsKept ==
  ASSUME Typed, SendersKnown, History, RewardInv, UNCHANGED rewards,
         \A l \in Deposited' : l \in Deposited \/ ~Due(l)'
  PROVE  RewardInv'
<1>1. \A r \in rewards : Justified(r)'
  BY JustifiedKept
<1>2. \A l \in Deposited : Due(l)' <=> Due(l)
  BY DueKept
<1> QED
  BY <1>1, <1>2 DEF RewardInv

\* The reward of a commit.
LEMMA RewardCommitted ==
  ASSUME OpenInv, RewardInv, History, NEW n \in Networks, NEW l \in Logs, CommitReward(n, l)
  PROVE  RewardInv'
<1>0. /\ Typed /\ WhoInv /\ SendersKnown /\ Open(n) /\ InTransaction(n) /\ IsNext(n, l) /\ Fresh(n)
      /\ deposits' = Append(deposits, l) /\ UNCHANGED user /\ proc[n].step = "bound"
  BY DEF OpenInv, OnceInv, ScanInv, CommitReward, At, InTransaction, accounts
<1> DEFINE read == proc[n].read
           referrer == user[l.from].referrer
           prior == CountInviteePurchases(referrer, read)
           amount == RewardFor(Credits(l), prior)
<1>1. /\ Deposited' = Deposited \cup {l} /\ l \notin Deposited /\ deposits \in Seq(Logs)
      /\ l.from \in Wallets /\ Credits(l) \in Nat /\ read \in Nat /\ Len(deposits) \in Nat
  BY <1>0, DepositedGrows, LogsTyped, CreditsTyped DEF Typed, Fresh, Processors
<1>2. /\ referrer \in Wallets /\ OthersSince(n, l)
      /\ prior = Purchases(referrer, read) /\ prior \in Nat
  <2>1. referrer \in Wallets /\ OthersSince(n, l)
    BY <1>0, <1>1 DEF Typed, Open
  <2>2. prior = Purchases(referrer, read)
    BY DEF CountInviteePurchases, Purchases
  <2> HIDE DEF prior, referrer, read
  <2> QED
    BY <1>1, <2>1, <2>2, PurchasesTyped
<1>3. amount \in Nat /\ RewardFor(Credits(l), 0) \in Nat /\ RewardFor(Credits(l), 0) <= amount
  BY <1>1, <1>2, RewardGrows
<1>4. PICK new : new = [log |-> l, referrer |-> referrer, prior |-> prior, amount |-> amount]
  OBVIOUS
<1>5. new.log = l /\ new.referrer = referrer /\ new.prior = prior /\ new.amount = amount
  BY <1>4
<1>6. new \in Rewards
  BY <1>1, <1>2, <1>3, <1>4 DEF Rewards
<1>7. rewards' = rewards \cup (IF amount = 0 THEN {} ELSE {new})
  BY <1>4 DEF CommitReward
<1>8. Justified(new)'
  <2>1. PICK last : last = Len(deposits) + 1
    OBVIOUS
  <2>2. /\ deposits'[last] = l /\ last \in DOMAIN deposits' /\ last - 1 = Len(deposits)
        /\ \A k \in 1..Len(deposits) : deposits'[k] = deposits[k]
    <3>1. /\ deposits' \in Seq(Logs) /\ Len(deposits') = Len(deposits) + 1 /\ deposits'[Len(deposits) + 1] = l
          /\ \A k \in DOMAIN deposits : deposits'[k] = deposits[k]
      BY <1>0, <1>1, DepositedGrows
    <3> QED
      BY <1>1, <2>1, <3>1
  <2>3. user'[l.from].referrer = referrer /\ l.network = n
    BY <1>0 DEF OpenInv, OnceInv, ScanInv, ScanOf, IsNext
  <2>4. PICK s : s = read
    OBVIOUS
  <2>0. s \in 0..(last - 1) /\ s \in 0..Len(deposits)
    BY <1>1, <1>2, <2>2, <2>4 DEF OthersSince
  <2>5. ASSUME NEW k \in s + 1 .. last - 1 PROVE MayBeMissed(new, k)'
    <3>1. deposits[k].from # l.from /\ deposits[k].network # n /\ deposits'[k] = deposits[k]
      BY <1>1, <1>2, <2>2, <2>4, <2>5 DEF OthersSince
    <3> HIDE DEF amount, prior, referrer, read
    <3> QED
      BY <1>5, <2>3, <3>1 DEF MayBeMissed
  <2> HIDE DEF amount, prior, referrer, read
  <2>6. new.prior = Purchases(new.referrer, s)'
    BY <1>0, <1>2, <1>5, <2>0, <2>4, PurchasesKept
  <2>7. new.amount = RewardFor(Credits(new.log), new.prior)
    BY <1>5 DEF amount
  <2>8. /\ deposits'[last] = new.log /\ user'[new.log.from].referrer = new.referrer
        /\ new.amount = RewardFor(Credits(new.log), new.prior)
    BY <1>5, <2>2, <2>3, <2>7
  <2>9. IsPaidFor(new, last)'
    BY <2>0, <2>5, <2>6, <2>8 DEF IsPaidFor
  <2> QED
    BY <2>2, <2>9 DEF Justified
<1> HIDE DEF amount, prior, referrer, read
<1>9. \A r \in rewards : Justified(r)' /\ r.log \in Deposited
  BY <1>0, JustifiedKept
<1>10. rewards' \subseteq Rewards /\ \A r \in rewards' : Justified(r)'
  BY <1>6, <1>7, <1>8, <1>9 DEF RewardInv
<1>11. \A r, s \in rewards' : r.log = s.log => r = s
  BY <1>1, <1>5, <1>7, <1>9 DEF RewardInv
<1>12. \A k \in Deposited' : Due(k)' => \E r \in rewards' : r.log = k
  <2>1. \A k \in Deposited : Due(k)' <=> Due(k)
    BY <1>0, DueKept
  <2>2. Due(l)' => \E r \in rewards' : r.log = l
    <3>1. Due(l)' => RewardFor(Credits(l), 0) > 0
      BY DEF Due
    <3> QED
      BY <1>3, <1>5, <1>7, <3>1
  <2> QED
    BY <1>1, <1>7, <2>1, <2>2 DEF RewardInv
<1> QED
  BY <1>10, <1>11, <1>12 DEF RewardInv

LEMMA RewardNext == OpenInv /\ RewardInv /\ [Next]_vars => RewardInv'
<1> SUFFICES ASSUME OpenInv, RewardInv, [Next]_vars PROVE RewardInv'
  OBVIOUS
<1>1. Typed /\ WhoInv /\ SendersKnown
  BY DEF OpenInv, OnceInv, ScanInv
<1>2. AccountStep /\ History
  BY <1>1, NextIsAccountStep, HistoryKept
<1>3. CASE UNCHANGED <<rewards, deposits>>
  <2>1. Deposited' = Deposited
    BY <1>3 DEF Deposited
  <2> QED
    BY <1>1, <1>2, <1>3, <2>1, RewardsKept
<1>4. ASSUME NEW n \in Networks, NEW l \in Logs, CommitUnbound(n, l) PROVE RewardInv'
  <2>1. deposits' = Append(deposits, l) /\ UNCHANGED <<user, rewards>> /\ user[l.from].referrer = NoUser
    BY <1>4 DEF CommitUnbound, accounts
  <2>2. Deposited' = Deposited \cup {l} /\ ~Due(l)'
    BY <1>1, <2>1, DepositedGrows DEF Typed, Due
  <2> QED
    BY <1>1, <1>2, <2>1, <2>2, RewardsKept
<1>5. ASSUME NEW n \in Networks, NEW l \in Logs, InsertDeposit(n, l) \/ ReadBinding(n, l) PROVE RewardInv'
  BY <1>3, <1>5 DEF InsertDeposit, ReadBinding, ledger
<1>6. ASSUME NEW n \in Networks, Scans(n) PROVE RewardInv'
  BY <1>3, <1>6 DEF Scans, ledger
<1>7. ASSUME NEW w \in Wallets, Registered(w) PROVE RewardInv'
  BY <1>1, <1>3, <1>7, RegisteredUser
<1>8. Codes => RewardInv'
  BY <1>3 DEF Codes
<1> QED
  BY <1>2, <1>4, <1>5, <1>6, <1>7, <1>8, RewardCommitted DEF AccountStep

\* Every deposit that is due a reward has one and no other has one; it is paid for
\* all the purchases that committed before it but the latest ones of other wallets
\* on other networks, for any logs, bindings and faults.
THEOREM RewardsCorrect == Spec => []RewardsAreEarned
<1>1. RewardInv => RewardsAreEarned
  BY DEF RewardInv, Due, Justified, RewardsAreEarned, RewardsAreJustified
<1> QED
  BY <1>1, OpenInit, OpenNext, RewardInit, RewardNext, PTL DEF Spec

\* Where one network is configured, nothing can commit between the read and the
\* lock, and the count is exact: what a documented reward needs.
THEOREM RewardsExactOnOneNetwork ==
  ASSUME \A m, n \in Networks : m = n
  PROVE  Spec => []RewardsCountAll
<1>1. OpenInv /\ RewardInv => RewardsCountAll
  <2> SUFFICES ASSUME OpenInv, RewardInv, NEW r \in rewards
               PROVE  \E i \in DOMAIN deposits : deposits[i] = r.log /\ r.prior = Purchases(r.referrer, i - 1)
    BY DEF RewardsCountAll
  <2>1. PICK i \in DOMAIN deposits : IsPaidFor(r, i)
    BY DEF RewardInv, Justified
  <2>2. PICK s \in 0..(i - 1) : r.prior = Purchases(r.referrer, s) /\ \A k \in s + 1 .. i - 1 : MayBeMissed(r, k)
    BY <2>1 DEF IsPaidFor
  <2>3. deposits \in Seq(Logs) /\ r.log \in Logs
    BY DEF OpenInv, OnceInv, ScanInv, Typed, RewardInv, Rewards
  <2>4. i \in 1..Len(deposits) /\ Len(deposits) \in Nat
    BY <2>3
  <2>5. ASSUME s # i - 1 PROVE FALSE
    <3>1. i - 1 \in s + 1 .. i - 1 /\ i - 1 \in DOMAIN deposits
      BY <2>2, <2>3, <2>4, <2>5
    <3>2. deposits[i - 1] \in Logs
      BY <2>3, <3>1
    <3>3. deposits[i - 1].network \in Networks /\ r.log.network \in Networks
      BY <2>3, <3>2, DepositsAssumption
    <3> QED
      BY <2>2, <3>1, <3>3 DEF MayBeMissed
  <2> QED
    BY <2>1, <2>2, <2>5 DEF IsPaidFor
<1> QED
  BY <1>1, OpenInit, OpenNext, RewardInit, RewardNext, PTL DEF Spec

-----------------------------------------------------------------------------
(* Types. *)

\* Every variable keeps its type, for any logs, bindings and faults.
THEOREM TypeCorrect == Spec => []TypeOK
<1> DEFINE Left == left \in Nat
           Positive == \A e \in events : e.type \in EventTypes /\ e.amount \in Nat \ {0}
<1>1. Init => Left /\ Positive
  BY DepositsAssumption DEF Init
<1>2. Left /\ [Next]_vars => Left'
  <2> SUFFICES ASSUME Left, [Next]_vars PROVE Left'
    OBVIOUS
  <2>1. UNCHANGED left => Left'
    OBVIOUS
  <2>2. Take => Left'
    BY DEF Take
  <2>3. ASSUME NEW n \in Networks, NEW l \in Logs, Committed(n, l) PROVE Left'
    BY <2>1, <2>2, <2>3 DEF Committed
  <2>4. ASSUME NEW n \in Networks, ProcessorStep(n) PROVE Left'
    BY <2>1, <2>3, <2>4 DEF ProcessorStep, ScanRange, IgnoreLog, IgnoreUnknownSender, InsertDeposit,
                ReadBinding, CommitUnbound, CommitReward, SaveCursor
  <2>5. ASSUME NEW n \in Networks, TickFails(n) \/ Mine(n) PROVE Left'
    BY <2>1, <2>2, <2>5 DEF TickFails, Mine
  <2>6. ASSUME NEW w \in Wallets,
               Register(w) \/ ResetReferralCode(w) \/ FindNoReferralCode(w) \/ CreateReferralCode(w)
        PROVE  Left'
    BY <2>1, <2>6 DEF Register, ResetReferralCode, FindNoReferralCode, CreateReferralCode
  <2>7. ASSUME NEW w, NEW r, NEW code, RegisterInvited(w, r, code) PROVE Left'
    BY <2>1, <2>7 DEF RegisterInvited
  <2>8. UNCHANGED vars => Left'
    BY <2>1 DEF vars
  <2> QED
    BY <2>4, <2>5, <2>6, <2>7, <2>8 DEF Next
<1>3. OpenInv /\ LedgerInv /\ Positive /\ [Next]_vars => Positive'
  <2> SUFFICES ASSUME OpenInv, Positive, AccountStep PROVE Positive'
    BY NextIsAccountStep DEF OpenInv, OnceInv, ScanInv
  <2>1. ASSUME NEW type \in EventTypes, NEW u, NEW ref, NEW amount \in Nat, NEW e \in Event(type, u, ref, amount)
        PROVE  e.type \in EventTypes /\ e.amount \in Nat \ {0}
    BY <2>1, EventFields
  <2>2. SignupBonus \in Nat /\ InviteeBonus \in Nat /\ {"deposit", "signup", "invitee", "referral"} = EventTypes
    BY DepositsAssumption DEF EventTypes
  <2>3. UNCHANGED events => Positive'
    OBVIOUS
  <2>4. ASSUME NEW w \in Wallets, Registered(w) PROVE Positive'
    <3>1. \A e \in events' : \/ e \in events \/ e \in Event("signup", w, w, SignupBonus)
                             \/ e \in Event("invitee", w, w, InviteeBonus)
      BY <2>4 DEF Registered, Register, RegisterInvited
    <3> QED
      BY <2>1, <2>2, <3>1
  <2>5. ASSUME NEW n \in Networks, NEW l \in Logs, CommitUnbound(n, l) \/ CommitReward(n, l) PROVE Positive'
    <3> DEFINE prior == CountInviteePurchases(user[l.from].referrer, proc[n].read)
               amount == RewardFor(Credits(l), prior)
    <3>0. prior \in Nat
      BY PurchasesTyped DEF CountInviteePurchases, Purchases, OpenInv, OnceInv, ScanInv, Typed, Processors
    <3>1. Credits(l) \in Nat /\ amount \in Nat
      BY <3>0, CreditsTyped, RewardGrows
    <3>2. \A e \in events' : \/ e \in events \/ e \in Event("deposit", l.from, l, Credits(l))
                             \/ e \in Event("referral", user[l.from].referrer, l, amount)
      BY <2>5 DEF CommitUnbound, CommitReward, DepositEvent
    <3> HIDE DEF amount
    <3> QED
      BY <2>1, <2>2, <3>1, <3>2
  <2> QED
    BY <2>3, <2>4, <2>5 DEF AccountStep, Codes, Scans, InsertDeposit, ReadBinding, ledger
<1>4. OpenInv /\ LedgerInv /\ RewardInv /\ Left /\ Positive => TypeOK
  BY DEF OpenInv, OnceInv, ScanInv, Typed, WhoInv, LedgerInv, EventsKnown, RewardInv, TypeOK
<1> HIDE DEF Left, Positive
<1> QED
  BY <1>1, <1>2, <1>3, <1>4, OpenInit, OpenNext, LedgerInit, LedgerNext, RewardInit, RewardNext, PTL DEF Spec
=============================================================================
