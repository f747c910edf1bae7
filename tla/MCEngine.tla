------------------------------ MODULE MCEngine ------------------------------
(* Small financial models for the engine: every combination of a few       *)
(* schedules, transactions and observations around a start day at the end  *)
(* of a month in a leap year.                                              *)
EXTENDS MonteCarlo, ModelValidation

Start == 20240131

Lit(v) == [by |-> "literal", value |-> v, id |-> "", volatility |-> 0]
Bal(a) == [by |-> "account-balance", value |-> 0, id |-> a, volatility |-> 0]
Rate(a, v, vol) == [by |-> "occurrence-rate", value |-> v, id |-> a, volatility |-> vol]
Latest(i) == [by |-> "model-value", value |-> 0, id |-> i, volatility |-> 0]
Minimum(a) == [by |-> "terms-minimum", value |-> 0, id |-> a, volatility |-> 0]
LateFee(a, p, v) == [by |-> "late-fee", value |-> v, id |-> a, payment |-> p, volatility |-> 0]
BalanceFee(a, t, v) == [by |-> "balance-fee", value |-> v, id |-> a, threshold |-> t, volatility |-> 0]

Accounts ==
  [a \in {"cash", "card", "save"} |->
     CASE a = "cash" -> [min |-> 0, max |-> Unlimited, kind |-> "cash", enabled |-> TRUE]
       [] a = "card" -> [min |-> -40, max |-> 0, kind |-> "debt", enabled |-> TRUE]
       [] a = "save" -> [min |-> 5, max |-> 30, kind |-> "cash", enabled |-> TRUE]]

Rule(id, src, dests, amount, freq, start, end, cap, priority) ==
  [id |-> id, src |-> src, dests |-> dests, amount |-> amount, freq |-> freq, start |-> start,
   end |-> end, cap |-> cap, priority |-> priority, enabled |-> TRUE]

Tx(id, src, dests, amount, at, claim) ==
  [id |-> id, src |-> src, dests |-> dests, amount |-> amount, at |-> at, posted |-> at, order |-> 0,
   enabled |-> TRUE, claim |-> claim, source |-> "user", pending |-> FALSE, void |-> FALSE]

Check(a, v, at, owner) == [account |-> a, balance |-> v, at |-> at, owner |-> owner]

FirstRules ==
  {<<>>,
   <<Rule("pay", NoAccount, <<"save", "cash">>, Lit(20), "quarterly", 20231130, 0, 60, 1)>>,
   <<Rule("pay", NoAccount, <<"cash">>, Lit(7), "weekly", 20240124, 20240301, Unlimited, 1)>>,
   <<Rule("pay", "cash", <<"save">>, Latest("t1"), "annual", 20240131, 0, 25, 0)>>}

SecondRules ==
  {<<>>,
   <<Rule("bill", "card", <<>>, Bal("cash"), "quarterly", 20240131, 0, Unlimited, 0)>>,
   <<Rule("bill", "cash", <<"card">>, Minimum("card"), "monthly", 20240131, 20240531, Unlimited, 2)>>,
   <<Rule("bill", NoAccount, <<"save", "cash">>, Rate("cash", 40, 10), "quarterly", 20240131, 0, Unlimited, 1)>>}

ThirdRules ==
  {<<>>,
   <<Rule("fee", "cash", <<>>, LateFee("card", "bill", 3), "monthly", 20240131, 20240430, Unlimited, 3)>>,
   <<Rule("fee", "cash", <<>>, BalanceFee("cash", 20, 2), "annual", 20240131, 0, Unlimited, 0)>>}

FirstTxs ==
  {<<Tx("t1", NoAccount, <<"cash">>, Lit(30), at, NoClaim)>> :
     at \in {Midnight(20240115) + 1, Midnight(Start), DayClose(Start)}}
  \cup {<<Tx("t1", NoAccount, <<"cash">>, Lit(30), Midnight(Start), [rule |-> "pay", date |-> d])>> :
          d \in {20240131, 20240229}}
  \cup {<<>>}

SecondTxs ==
  {<<>>,
   <<Tx("t2", "cash", <<"save">>, Lit(50), Midnight(Start) + 2, NoClaim)>>,
   <<Tx("t2", "cash", <<>>, Bal("cash"), Midnight(20240310), NoClaim)>>,
   <<[Tx("t2", "cash", <<>>, Lit(9), Midnight(20240110), NoClaim) EXCEPT !.enabled = FALSE]>>}

ChecksPool ==
  {<<>>,
   <<Check("cash", 100, Midnight(Start) + 1, TRUE)>>,
   <<Check("cash", 60, DayClose(20240115), FALSE), Check("card", -35, Midnight(20240120), FALSE)>>,
   <<Check("cash", 80, Midnight(20240120), TRUE), Check("save", 28, Midnight(Start) + 2, FALSE),
     Check("cash", 10, Midnight(20231215), TRUE)>>,
   <<Check("cash", 50, Midnight(20240201), FALSE)>>}

Purchase(id, src, cost, earliest, priority) ==
  [id |-> id, src |-> src, cost |-> cost, earliest |-> earliest, priority |-> priority, enabled |-> TRUE]

PurchasePool ==
  {<<>>,
   <<Purchase("p1", "cash", 25, 20240101, 2), Purchase("p2", "cash", 10, 20240415, 1)>>,
   <<Purchase("p1", "save", 12, 20240131, 1), Purchase("p2", "cash", 40, 20240201, 1)>>,
   <<[Purchase("p1", "cash", 5, 20240101, 0) EXCEPT !.enabled = FALSE], Purchase("p2", "cash", 100, 20240131, 1)>>}

ModelOf(rules, txs, checks, purchases) ==
  [accounts |-> Accounts, txs |-> txs, rules |-> rules, checks |-> checks, loans |-> <<>>,
   terms |-> ("card" :> [fixed |-> 4, percent |-> 20]), purchases |-> purchases]

MCModels ==
  {m \in {ModelOf(r1 \o r2, t1, c, p) :
             r1 \in FirstRules, r2 \in SecondRules, t1 \in FirstTxs, c \in ChecksPool, p \in PurchasePool}
        \cup {ModelOf(r2 \o r3, t2, c, p) :
             r2 \in SecondRules, r3 \in ThirdRules, t2 \in SecondTxs, c \in ChecksPool, p \in PurchasePool}
        \cup {[ModelOf(r2 \o r3, <<>>, c, <<>>) EXCEPT !.terms = <<>>] :
             r2 \in SecondRules, r3 \in ThirdRules, c \in ChecksPool} :
     ValidFinanceModel(m)}

Request(m, cut, horizon, draws, plan) ==
  [model |-> m, start |-> Start, cut |-> cut, horizon |-> horizon, draws |-> draws, plan |-> plan,
   session |-> NoSession]

PlainRequests ==
  {r \in {Request(m, cut, 1, draws, NoPlan) :
     m \in MCModels, cut \in {Midnight(Start) + 1, DayClose(Start)}, draws \in {<<>>, <<-60, 50>>}} :
     r.draws # <<>> => Volatile(r.model) # {}}

(* Models and plans for financial independence, in smaller units of money. *)
FIAccounts(floor) ==
  [a \in {"cash", "fund", "save"} |->
     CASE a = "save" -> [min |-> floor, max |-> 300, kind |-> "cash", enabled |-> TRUE]
       [] OTHER -> [min |-> 0, max |-> Unlimited, kind |-> "cash", enabled |-> TRUE]]

FIModel(floor, job, fund) ==
  [accounts |-> FIAccounts(floor), txs |-> <<>>, purchases |-> <<>>, terms |-> <<>>, loans |-> <<>>,
   rules |-> <<Rule("job", NoAccount, <<"cash">>, Lit(job), "monthly", 20240115, 20250601, 700, 0),
               Rule("growth", NoAccount, <<"fund">>, Rate("fund", 60, 5), "quarterly", 20240210, 0, Unlimited, 1),
               Rule("refill", "cash", <<"save">>, Lit(25), "quarterly", 20240131, 0, Unlimited, 2)>>,
   checks |-> <<Check("cash", 700, Midnight(Start), TRUE), Check("fund", fund, Midnight(20240101), FALSE),
                Check("save", 300, Midnight(Start), TRUE)>>]

Source(type, id, included, rate) == [type |-> type, id |-> id, included |-> included, rate |-> rate]

FIPlan(sources, target, growth, minimum, years, policy) ==
  [sources |-> sources, rate |-> 20, continuing |-> {"growth", "refill", "gone"}, target |-> target,
   growth |-> growth, basis |-> IF growth = 5 THEN "candidate" ELSE "projection-start",
   minimum |-> minimum, years |-> years, policy |-> policy]

SourcesPool ==
  {<<Source("asset", "fund", TRUE, 0), Source("cashflow", "job", TRUE, 0), Source("asset", "save", FALSE, 0)>>,
   <<Source("asset", "save", TRUE, 50), Source("asset", "fund", TRUE, 30), Source("asset", "gone", TRUE, 0)>>}

FIRequests ==
  {Request(FIModel(0, 40, fund), DayClose(Start), 2, <<>>, FIPlan(sources, target, growth, 1000, 1, policy)) :
     fund \in {900, 2100}, sources \in SourcesPool, target \in {480, 720}, growth \in {5, 10},
     policy \in {"preserve-nominal", "preserve-real"}}
  \cup
  {Request(FIModel(0, 90, fund), Midnight(Start) + 1, 2, draws, FIPlan(sources, 600, 0, 0, years, "allow-drawdown")) :
     fund \in {900, 1700}, sources \in SourcesPool, draws \in {<<>>, <<-20, 30>>}, years \in {1, 2}}

(* Sessions over a volatile and a steady model. *)
SessionModel(rules) == ModelOf(rules, <<>>, <<Check("cash", 100, Midnight(Start) + 1, TRUE)>>, <<>>)

Steady == Rule("pay", NoAccount, <<"cash">>, Lit(20), "quarterly", 20240131, 0, Unlimited, 1)
Swinging(id) == Rule(id, NoAccount, <<"cash">>, Rate("cash", 40, 10), "annual", 20240331, 0, Unlimited, 1)

Threshold == <<[type |-> "net-worth-threshold", target |-> 150],
               [type |-> "what-if", disabled |-> {"pay"}, added |-> <<>>]>>
Balance == <<[type |-> "account-balance", account |-> "cash", target |-> 170],
             [type |-> "what-if", disabled |-> {}, added |-> <<Swinging("more")>>]>>

SessionOf(runs, bad, instances) ==
  [runs |-> runs, draws |-> <<-60, 50, 10, 5, 90, -20>>, bad |-> bad, instances |-> instances]

SessionRequests ==
  {[Request(SessionModel(rules), Midnight(Start) + 1, 1, <<>>, NoPlan) EXCEPT !.session = session] :
     rules \in {<<Steady, Swinging("market")>>, <<Steady>>},
     session \in {SessionOf(5, {}, Threshold), SessionOf(6, {1}, Balance), SessionOf(0, {}, Balance)}}

MCRequests == PlainRequests \cup FIRequests \cup SessionRequests

(* An asset with a floor above zero that is filled up again every quarter. *)
FloorRequests ==
  {Request(FIModel(250, 40, 900), DayClose(Start), 2, <<>>,
           FIPlan(<<Source("asset", "save", TRUE, 50)>>, 96, 0, 0, 2, "allow-drawdown"))}

GapRequests == FloorRequests \cup PlainRequests
=============================================================================
