------------------------------- MODULE Kernel -------------------------------
(***************************************************************************)
(* What one occurrence of a transaction or schedule does to the balances:  *)
(* backend/internal/domain amounts.go, execution.go, transactions.go,      *)
(* transitions.go and accounts.go.                                         *)
(*                                                                         *)
(* A model is a record                                                     *)
(*   accounts  id -> [min, max, kind, enabled]       (-Unlimited,          *)
(*                                                    Unlimited: none)     *)
(*   txs       <<[id, src, dests, amount, at, posted, order, enabled,      *)
(*                claim, source, pending, void]>>                          *)
(*   rules     <<[id, src, dests, amount, freq, start, end, cap, priority, *)
(*                enabled]>>               (end 0: none; cap Unlimited)    *)
(*   checks    <<[account, balance, at, owner]>>                           *)
(*   terms     id -> [fixed, percent]      (accounts with payment terms)   *)
(*   purchases <<[id, src, cost, earliest, priority, enabled]>>            *)
(* src NoAccount is money from outside, dests <<>> money to outside.       *)
(* Money is whole numbers and a percentage is rounded down; an amount is   *)
(* one provider's value, the arithmetic expressions around it left out but *)
(* for the one a loan's interest is charged by.                            *)
(***************************************************************************)
EXTENDS Calendar, FiniteSets, SequencesExt

CONSTANTS
  Unlimited,   \* stands for +infinity: no cap, floor or ceiling
  NoAccount    \* the absent source

ASSUME UnlimitedAssumption == Unlimited \in Nat \ {0}

Least(a, b) == IF a <= b THEN a ELSE b
Most(a, b) == IF a >= b THEN a ELSE b
Infinite(x) == x >= Unlimited \div 2

-----------------------------------------------------------------------------
(* Constraints of accounts.                                                *)

WithdrawableAmount(m, bal, a) ==
  IF a \in DOMAIN m.accounts THEN Most(0, bal[a] - m.accounts[a].min) ELSE 0

Headroom(m, bal, a) ==
  IF a \in DOMAIN m.accounts THEN Most(0, m.accounts[a].max - bal[a]) ELSE 0

TotalDestinationHeadroom(m, bal, dests) ==
  FoldLeft(LAMBDA total, a : total + Headroom(m, bal, a), 0, dests)

NetWorth(m, bal) ==
  SumFunctionOnSet(bal, {a \in DOMAIN m.accounts : m.accounts[a].enabled})

IsExternalInflow(o) == o.src = NoAccount /\ o.dests # <<>>
IsExternalOutflow(o) == o.src # NoAccount /\ o.dests = <<>>
IsInternalTransfer(o) == o.src # NoAccount /\ o.dests # <<>>

-----------------------------------------------------------------------------
(* Amounts.  st is the simulation state: the balances, the amount and the  *)
(* date last realized per id, and what each id realized per calendar year. *)

Ids(m) == {m.txs[i].id : i \in DOMAIN m.txs} \cup {m.rules[i].id : i \in DOMAIN m.rules}
            \cup {m.purchases[i].id : i \in DOMAIN m.purchases}

InitialState(m, years) ==
  [bal |-> [a \in DOMAIN m.accounts |-> 0],
   known |-> {},
   latest |-> [i \in Ids(m) |-> 0],
   latestDate |-> [i \in Ids(m) |-> 0],
   year |-> [i \in Ids(m) |-> [y \in years |-> 0]]]

TermsMinimum(terms, balance) ==
  LET share == ((IF balance < 0 THEN -balance ELSE balance) * terms.percent) \div 100
  IN  Most(Most(0, terms.fixed), share)

Resolved(v) == [ok |-> TRUE, v |-> v]
Unresolved == [ok |-> FALSE, v |-> 0]

VolatileRate(amount) == amount.by = "occurrence-rate" /\ amount.volatility > 0

(* The raw amount of an occurrence: what its provider reads from the state *)
(* before it.  rate is the sampled annual rate, NoRate when none is.       *)
NoRate == -Unlimited

ResolveAmount(m, st, o, rate) ==
  LET amount == o.amount
      balance(a) == IF a \in DOMAIN st.bal THEN st.bal[a] ELSE 0
  IN
  CASE amount.by = "literal" -> Resolved(amount.value)
    [] amount.by = "model-value" ->
         Resolved(IF amount.id \in st.known THEN st.latest[amount.id] ELSE balance(amount.id))
    [] amount.by = "account-balance" -> Resolved(balance(amount.id))
    [] amount.by = "occurrence-rate" ->
         LET annual == IF amount.volatility > 0 /\ rate # NoRate THEN rate ELSE amount.value
         IN  Resolved((balance(amount.id) * annual) \div (100 * o.divisor))
    [] amount.by = "loan-interest" ->
         Resolved(((IF balance(amount.id) < 0 THEN -balance(amount.id) ELSE balance(amount.id)) * amount.value)
                    \div (100 * o.divisor))
    [] amount.by = "terms-minimum" ->
         IF amount.id \in DOMAIN m.terms
         THEN Resolved(TermsMinimum(m.terms[amount.id], balance(amount.id)))
         ELSE Unresolved
    [] amount.by = "late-fee" ->
         IF amount.id \notin DOMAIN m.terms THEN Unresolved
         ELSE Resolved(
           IF /\ st.latestDate[amount.payment] \div 100 = o.date \div 100
              /\ TermsMinimum(m.terms[amount.id], balance(amount.id)) > st.latest[amount.payment]
           THEN amount.value ELSE 0)
    [] amount.by = "balance-fee" ->
         Resolved(IF balance(amount.id) < amount.threshold THEN amount.value ELSE 0)

-----------------------------------------------------------------------------
(* Moving money.                                                           *)

(* What of a request the source's floor, the destinations' ceilings and    *)
(* the annual cap leave.                                                   *)
ResolveAccountTransaction(m, bal, o, requested, limit) ==
  IF requested = 0 \/ (o.src # NoAccount /\ o.src \notin DOMAIN m.accounts) THEN 0
  ELSE LET source == IF o.src = NoAccount THEN Unlimited ELSE WithdrawableAmount(m, bal, o.src)
           room == IF o.dests = <<>> THEN Unlimited ELSE TotalDestinationHeadroom(m, bal, o.dests)
       IN  Most(0, Least(requested, Least(limit, Least(source, room))))

(* Destinations fill in order, each to its ceiling. *)
ApplyAccountTransaction(m, bal, o, realized) ==
  LET debited == IF o.src = NoAccount THEN bal ELSE [bal EXCEPT ![o.src] = @ - realized]
      fill(acc, a) ==
        LET part == Least(acc.left, Headroom(m, acc.bal, a))
        IN  IF part <= 0 THEN acc
            ELSE [bal |-> [acc.bal EXCEPT ![a] = @ + part], left |-> acc.left - part]
  IN  IF realized <= 0 THEN bal
      ELSE FoldLeft(fill, [bal |-> debited, left |-> realized], o.dests).bal

(* A loss is taken from the destinations in order, each down to its floor. *)
TakeLoss(m, bal, o, loss) ==
  LET take(acc, a) ==
        LET part == Least(acc.left, WithdrawableAmount(m, acc.bal, a))
        IN  IF part <= 0 THEN acc
            ELSE [bal |-> [acc.bal EXCEPT ![a] = @ - part], left |-> acc.left - part]
  IN  FoldLeft(take, [bal |-> bal, left |-> loss], o.dests)

(* The amount a loss resolves to, before it is applied. *)
ResolveNegativeInflow(m, bal, o, requested) ==
  -FoldLeft(LAMBDA taken, a : taken + Least(-requested - taken, WithdrawableAmount(m, bal, a)), 0, o.dests)

ApplyNegativeInflow(m, bal, o, realized) ==
  IF realized >= 0 THEN bal ELSE TakeLoss(m, bal, o, -realized).bal

Moved(bal, after) == [a \in DOMAIN bal |-> after[a] - bal[a]]

Observe(st, o, realized, after) ==
  [st EXCEPT !.bal = after, !.known = @ \cup {o.id}, !.latest[o.id] = realized,
             !.latestDate[o.id] = o.date, !.year[o.id][YearOf(o.date)] = @ + realized]

(* A loss is remembered as the latest amount and leaves the cap alone. *)
ObserveLoss(st, o, realized, after) ==
  [st EXCEPT !.bal = after, !.known = @ \cup {o.id}, !.latest[o.id] = realized]

(* Mutant: the cap counts the current occurrence alone. *)
AnnualCapWhole(st, o) == o.cap

AnnualCapRemaining(st, o) ==
  IF Infinite(o.cap) THEN Unlimited ELSE Most(0, o.cap - st.year[o.id][YearOf(o.date)])

(* The event an occurrence leaves and the state after it. *)
Event(st, o, requested, realized, after, next) ==
  [ok |-> TRUE, st |-> next,
   event |-> [id |-> o.id, date |-> o.date, at |-> o.at, kind |-> o.kind, requested |-> requested,
              realized |-> realized, moved |-> Moved(st.bal, after)]]

LoseTo(st, o, raw, realized, after) == Event(st, o, raw, realized, after, ObserveLoss(st, o, realized, after))
MoveTo(st, o, requested, realized, after) == Event(st, o, requested, realized, after, Observe(st, o, realized, after))

Lose(m, st, o, raw, realized) == LoseTo(st, o, raw, realized, ApplyNegativeInflow(m, st.bal, o, realized))
Move(m, st, o, requested, realized) ==
  MoveTo(st, o, requested, realized, ApplyAccountTransaction(m, st.bal, o, realized))

(* One occurrence against the live state: a historical actual moved what   *)
(* it says, anything else moves what the constraints leave.                *)
ApplyPreparedExecution(m, st, o, historical, raw) ==
  IF raw < 0 /\ IsExternalInflow(o)
  THEN Lose(m, st, o, raw, ResolveNegativeInflow(m, st.bal, o, raw))
  ELSE Move(m, st, o, Most(0, raw),
            IF historical THEN Most(0, raw)
            ELSE ResolveAccountTransaction(m, st.bal, o, Most(0, raw), AnnualCapRemaining(st, o)))

(* The sampled rate of the year an occurrence falls in; a volatile amount  *)
(* without one is an error of the preparation.                             *)
SampledRate(sample, start, o) ==
  LET index == ProjectionYearIndex(start, o.date) + 1
  IN  IF ~sample.on \/ ~VolatileRate(o.amount) THEN Resolved(NoRate)
      ELSE IF o.id \in DOMAIN sample.rates /\ index <= Len(sample.rates[o.id])
      THEN Resolved(sample.rates[o.id][index]) ELSE Unresolved

WithRate(m, st, o, rate) == IF rate.ok THEN ResolveAmount(m, st, o, rate.v) ELSE Unresolved

WithAmount(m, st, o, historical, raw) ==
  IF raw.ok THEN ApplyPreparedExecution(m, st, o, historical, raw.v)
  ELSE [ok |-> FALSE, st |-> st, event |-> <<>>]

ExecuteTransaction(m, sample, start, st, o, historical) ==
  WithAmount(m, st, o, historical, WithRate(m, st, o, SampledRate(sample, start, o)))
=============================================================================
