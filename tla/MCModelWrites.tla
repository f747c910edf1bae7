---------------------------- MODULE MCModelWrites ---------------------------
(* Small models and the requests made of them: two clients, few rows, and  *)
(* a projection of two years from a start day at the end of a month.       *)
EXTENDS ModelWrites

MCStart == 20240131
Ten == Midnight(20240110)

Lit(v) == [by |-> "literal", value |-> v, id |-> "", volatility |-> 0]
Latest(i) == [by |-> "model-value", value |-> 0, id |-> i, volatility |-> 0]
Minimum(a) == [by |-> "terms-minimum", value |-> 0, id |-> a, volatility |-> 0]

Cash(min) == [min |-> min, max |-> Unlimited, kind |-> "cash", enabled |-> TRUE]
Debt == [min |-> -Unlimited, max |-> 0, kind |-> "debt", enabled |-> TRUE]

Rule(id, src, dests, amount, freq, start, priority) ==
  [id |-> id, src |-> src, dests |-> dests, amount |-> amount, freq |-> freq, start |-> start,
   end |-> 0, cap |-> Unlimited, priority |-> priority, enabled |-> TRUE]

Tx(id, src, dests, amount, at, posted) ==
  [id |-> id, src |-> src, dests |-> dests, amount |-> amount, at |-> Midnight(at), posted |-> Midnight(posted),
   order |-> 0, enabled |-> TRUE, claim |-> NoClaim, source |-> "user", pending |-> FALSE, void |-> FALSE]

Check(a, v, at) == [account |-> a, balance |-> v, at |-> at, owner |-> TRUE]
Purchase(id, src, cost, priority) ==
  [id |-> id, src |-> src, cost |-> cost, earliest |-> 20240601, priority |-> priority, enabled |-> TRUE]
Eval(id, accounts) == [id |-> id, accounts |-> accounts]
Claim(rule, date) == [rule |-> rule, date |-> date]

Ask(op, id, row) == [op |-> op, id |-> id, row |-> row]
Scope(m, budget, requests) == [model |-> m, requests |-> requests, left |-> budget]

Pay == Rule("pay", NoAccount, <<"cash">>, Lit(20), "annual", 20240331, 0)
Put == Rule("put", "cash", <<"save">>, Lit(5), "annual", 20240331, 1)

Base ==
  [accounts |-> "cash" :> Cash(0) @@ "save" :> Cash(-20), listed |-> <<"cash", "save">>,
   txs |-> <<>>, rules |-> <<Pay, Put>>, checks |-> <<Check("cash", 50, Ten)>>, terms |-> <<>>, purchases |-> <<>>,
   loans |-> <<>>, evals |-> <<>>, links |-> {}]

T1 == Tx("t1", NoAccount, <<"cash">>, Lit(7), 20240310, 20240312)
T2 == Tx("t2", "cash", <<>>, Latest("t1"), 20250120, 20250210)
Held == [Tx("t3", "cash", <<>>, Lit(9), 20240301, 20240301) EXCEPT
           !.source = "banksync", !.pending = TRUE, !.posted = 0, !.enabled = FALSE]

Transactions ==
  Scope([Base EXCEPT !.txs = <<T1, Held>>], 3,
        {Ask("record", "t2", T2),
         Ask("record", "t4", [Tx("t4", "cash", <<"save">>, Lit(3), 20240331, 20250331) EXCEPT !.claim = Claim("pay", 20250331)]),
         Ask("record", "t8", [Tx("t8", "cash", <<"save">>, Lit(3), 20250331, 20250331) EXCEPT !.claim = Claim("pay", 20240331)]),
         Ask("amend", "t1", [claim |-> Claim("pay", 20240331)]),
         Ask("amend", "t3", [claim |-> Claim("put", 20250331)]),
         Ask("amend", "t1", [claim |-> NoClaim]),
         Ask("amend", "t1", [at |-> Midnight(20250801), enabled |-> FALSE]),
         Ask("delete", "t1", <<>>),
         Ask("move", "t3", "t1"),
         Ask("delete rule", "pay", <<>>)})

Schedules ==
  Scope([Base EXCEPT !.txs = <<T1>>], 3,
        {Ask("create rule", "more", Rule("more", "cash", <<"save">>, Latest("pay"), "quarterly", 20250430, -1)),
         Ask("start rule", "t1", Rule("more", NoAccount, <<>>, Lit(0), "annual", 20240310, 0)),
         Ask("amend rule", "put", [amount |-> Latest("t1")]),
         Ask("amend rule", "pay", [start |-> 20250228, freq |-> "quarterly"]),
         Ask("move rule", "put", "pay"),
         Ask("end rule", "pay", Tx("t5", NoAccount, <<>>, Lit(0), 20240401, 20240401)),
         Ask("delete rule", "pay", <<>>),
         Ask("amend", "t1", [claim |-> Claim("put", 20240331)])})

Accounts ==
  Scope([Base EXCEPT !.rules = <<Pay>>, !.evals = <<Eval("e1", {"save"}), Eval("e2", {"cash"})>>], 3,
        {Ask("create account", "box", [account |-> Cash(0), checks |-> <<Check("box", 4, Ten + 5)>>]),
         Ask("update account", "cash", [account |-> [Cash(0) EXCEPT !.max = 60], checks |-> <<>>]),
         Ask("delete account", "save", <<>>),
         Ask("move account", "save", "cash"),
         Ask("save check", "cash", Check("cash", 30, Ten + 9)),
         Ask("delete check", "cash", Check("cash", 50, Ten)),
         Ask("create rule", "put", Put),
         Ask("update evaluation", "e1", Eval("e1", {"cash"})),
         Ask("delete evaluation", "e1", <<>>),
         Ask("move evaluation", "e2", "e1")})

Purchases ==
  Scope([Base EXCEPT !.purchases = <<Purchase("p1", "cash", 9, 4), Purchase("p2", "save", 5, 4)>>, !.rules = <<Pay>>], 3,
        {Ask("create purchase", "p3", Purchase("p3", "cash", 2, -1)),
         Ask("update purchase", "p2", Purchase("p2", "cash", 6, -1)),
         Ask("delete purchase", "p1", <<>>),
         Ask("move purchase", "p2", "p1"),
         Ask("create evaluation", "e1", Eval("e1", {"save"})),
         Ask("create evaluation", "p3", Eval("p3", {"cash"})),
         Ask("delete account", "save", <<>>)})

LoanOf(rate, payment, enabled) ==
  [rate |-> rate, payment |-> payment, freq |-> "annual", start |-> 20240430, funding |-> "cash",
   enabled |-> enabled, owed |-> 40, interest |-> 0, at |-> Ten + 3, record |-> ~enabled]
House == [interest |-> "due", charge |-> "grow", payment |-> "down"]
WithHouse == LET b == InPlace(Base, BuildLoan("house", House, LoanOf(10, 8, TRUE)), TRUE)
             IN  [upsertCheckpoints(BundleAccounts(Base, b), b.checks) EXCEPT !.rules = @ \o b.rules]

Loans ==
  Scope(WithHouse, 3,
        {Ask("update loan", "house", LoanOf(10, 4, FALSE)),
         Ask("delete loan", "house", <<>>),
         Ask("amend rule", "down", [start |-> 20240531]),
         Ask("update account", "due", [account |-> [Debt EXCEPT !.min = -90], checks |-> <<>>]),
         Ask("record", "t1", Tx("t1", "cash", <<"house">>, Lit(6), 20240301, 20240301)),
         Ask("record", "t6", [Tx("t6", "cash", <<"due">>, Lit(8), 20240430, 20240430) EXCEPT !.claim = Claim("down", 20240430)]),
         Ask("create loan", "car", LoanOf(5, 3, TRUE)) @@ [loan |-> [interest |-> "owe", charge |-> "up", payment |-> "off"]]})

Terms ==
  Scope([Base EXCEPT !.accounts = @ @@ ("card" :> Debt), !.listed = Append(@, "card"),
                     !.terms = "card" :> [fixed |-> 4, percent |-> 20],
                     !.rules = <<Pay, Rule("bill", "cash", <<"card">>, Minimum("card"), "quarterly", 20240430, 1)>>], 3,
        {Ask("save terms", "card", [fixed |-> 9, percent |-> 0]),
         Ask("save terms", "cash", [fixed |-> 9, percent |-> 0]),
         Ask("delete terms", "card", <<>>),
         Ask("amend rule", "bill", [amount |-> Lit(2)]),
         Ask("create rule", "more", Rule("more", "card", <<>>, Lit(30), "annual", 20250228, -1))})

Manual ==
  [Base EXCEPT !.accounts = @ @@ ("bank" :> Cash(0)), !.listed = Append(@, "bank"), !.links = {"bank"},
               !.txs = <<T1>>, !.evals = <<Eval("e1", {"cash"})>>, !.purchases = <<Purchase("p1", "cash", 9, 0)>>,
               !.rules = <<Pay, Put, Rule("feed", "bank", <<"cash">>, Lit(2), "annual", 20250228, 2)>>]

Superseding ==
  Scope(Manual, 2,
        {Ask("supersede", "cash", "bank"),
         Ask("supersede", "save", "bank"),
         Ask("amend", "t1", [claim |-> Claim("feed", 20250228)]),
         Ask("save check", "bank", Check("bank", 8, Ten + 4)),
         Ask("record", "t7", Tx("t7", "bank", <<>>, Lit(1), 20250301, 20250301))})

Back == Rule("put", "save", <<"cash">>, Lit(5), "annual", 20240331, 1)

Imported ==
  [Base EXCEPT !.txs = <<T1, [Held EXCEPT !.claim = Claim("put", 20240331)]>>, !.rules = <<Back, Pay>>,
               !.purchases = <<Purchase("p1", "cash", 9, 4)>>, !.evals = <<Eval("e1", {"save"})>>]

Document ==
  [Imported EXCEPT !.accounts = "box" :> Cash(0) @@ "cash" :> Cash(-5), !.listed = <<"box", "cash">>,
                   !.rules = <<Rule("new", "cash", <<"box">>, Latest("t1"), "annual", 20240331, 3), Pay>>,
                   !.txs = <<[Held EXCEPT !.claim = Claim("new", 20240331)], T1>>,
                   !.checks = <<Check("box", 3, Ten + 1)>>,
                   !.purchases = <<Purchase("p2", "box", 3, 1), Purchase("p1", "cash", 8, 2)>>,
                   !.evals = <<Eval("e2", {"box"}), Eval("e1", {"cash"})>>]

Imports ==
  Scope(Imported, 2,
        {Ask("import", "", Document),
         Ask("import", "", [Imported EXCEPT !.rules = <<Pay>>,
                                      !.txs = <<T1, [Held EXCEPT !.claim = Claim("pay", 20250331)]>>]),
         Ask("delete", "t1", <<>>),
         Ask("delete evaluation", "e1", <<>>),
         Ask("delete account", "save", <<>>)})

(* Documents that remove a pinned account, or keep a row that is pending   *)
(* and no longer stored, beside other requests.                            *)
WithCard == [Base EXCEPT !.accounts = @ @@ ("card" :> Debt), !.listed = Append(@, "card"),
                         !.terms = "card" :> [fixed |-> 4, percent |-> 20],
                         !.purchases = <<Purchase("p1", "save", 9, 4)>>]

Pinning ==
  Scope(WithCard, 2,
        {Ask("import", "", Base),
         Ask("import", "", [Base EXCEPT !.accounts = "cash" :> Cash(0), !.listed = <<"cash">>, !.rules = <<Pay>>,
                                        !.purchases = <<Purchase("p1", "cash", 9, 1)>>]),
         Ask("delete terms", "card", <<>>),
         Ask("delete purchase", "p1", <<>>)})

Resettling ==
  Scope([Base EXCEPT !.txs = <<T1, Held>>], 3,
        {Ask("import", "", [Base EXCEPT !.txs = <<T1, Held>>]),
         Ask("delete", "t3", <<>>),
         Ask("amend", "t3", [posted |-> Midnight(20240305)]),
         Ask("amend", "t1", [claim |-> Claim("pay", 20240331)])})

(* The properties without their exceptions.                                *)
RowsCurrentEverywhere == SlicesCurrent(Slices)
WritesSoundAlways ==
  ~overlapped /\ (\A c \in Clients : client[c].phase # "saving") => ValidFinancialModel(model)
Never(m, doc) == FALSE
ImportLandsAlways == [][ImportsEnd(Never)]_vars

MCScopes ==
  {Transactions, Schedules, Accounts, Purchases, Loans, Terms, Superseding, Imports, Pinning, Resettling}
=============================================================================
