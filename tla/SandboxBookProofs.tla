-------------------------- MODULE SandboxBookProofs --------------------------
(***************************************************************************)
(* Theorems about SandboxBook for every set of threads, orders, keys and   *)
(* requests.                                                               *)
(***************************************************************************)
EXTENDS SandboxBook, SumProofs

\* A thread at one of these labels works on an order.
Working ==
  PCs \ {"idle", "fill_loop", "close_loop", "cancel_loop", "modify_commit"}

ThreadsOK ==
  /\ pc \in [Threads -> PCs]
  /\ loc \in [Threads -> Locals]
  /\ \A t \in Threads : pc[t] \in Working => loc[t].cur \in Orders

TablesOK ==
  /\ orders \in [Orders -> Row]
  /\ trades \in [Orders -> Seq(Trade)]
  /\ lost \in [Orders -> Seq(Trade)]
  /\ pos \in [Keys -> PosRow]

FundsOK == available \in Int /\ used \in Nat /\ realized \in Int

\* TypeOK is not inductive: an action that looks up orders[loc[t].cur] is only
\* well typed because a working thread has a current order.
TypeInv == FundsOK /\ TablesOK /\ ThreadsOK

-----------------------------------------------------------------------------
(* The helpers *)

\* Rounding a natural number of paise gives a natural number of paise.
LEMMA RoundNat ==
  ASSUME NEW n \in Nat, NEW d \in Nat \ {0}
  PROVE  Round(n, d) \in Nat
<1>1. n \div d \in Nat
  BY SMT
<1>2. QED
  BY <1>1 DEF Round

\* compute_required_margin is a natural number.
LEMMA RequiredMarginNat ==
  ASSUME NEW k \in Keys, NEW a \in Actions, NEW price \in Nat, NEW qty \in Int
  PROVE  RequiredMargin(k, a, price, qty) \in Nat
<1>1. Leverage[k][a] \in Nat \ {0}
  BY KeysAssumption
<1>2. CASE price <= 0 \/ qty <= 0
  BY <1>2 DEF RequiredMargin
<1>3. CASE price > 0 /\ qty > 0
  <2>1. price * qty \in Nat
    BY <1>3
  <2>2. Round(price * qty, Leverage[k][a]) \in Nat
    BY <1>1, <2>1, RoundNat
  <2>3. QED
    BY <1>3, <2>2 DEF RequiredMargin
<1>4. QED
  BY <1>2, <1>3

\* A fresh set of locals is well typed.
LEMMA FreshType ==
  ASSUME NEW op \in AllOps \cup {"none", "engine"},
         NEW work \in SUBSET (Orders \X Row),
         NEW closing \in SUBSET (Keys \X Int)
  PROVE  Fresh(op, work, closing) \in Locals
BY DEF Fresh, Locals, PosRow, NoPosition

\* Moving a thread to a label with well-typed locals keeps ThreadsOK.
LEMMA GotoThreads ==
  ASSUME ThreadsOK, NEW t \in Threads, NEW label \in PCs, NEW l \in Locals,
         label \in Working => l.cur \in Orders, Goto(t, label, l)
  PROVE  ThreadsOK'
BY DEF ThreadsOK, Goto

\* Returning to the enclosing loop keeps ThreadsOK.
LEMMA ReturnThreads ==
  ASSUME ThreadsOK, NEW t \in Threads,
         NEW work \in SUBSET (Orders \X Row),
         NEW closing \in SUBSET (Keys \X Int),
         Return(t, work, closing)
  PROVE  ThreadsOK'
<1>1. loc[t].op \in AllOps \cup {"none", "engine"}
  BY DEF ThreadsOK, Locals
<1>2. /\ Fresh(loc[t].op, work, closing) \in Locals
      /\ Fresh(loc[t].op, {}, closing) \in Locals
      /\ Fresh("none", {}, {}) \in Locals
  BY <1>1, FreshType
<1>3. {"fill_loop", "cancel_loop", "close_loop", "idle"} \subseteq PCs \ Working
  BY DEF PCs, Working
<1>4. PICK label \in {"fill_loop", "cancel_loop", "close_loop", "idle"}, l \in Locals :
        Goto(t, label, l)
  BY <1>2 DEF Return
<1>5. QED
  BY <1>3, <1>4, GotoThreads

\* _fill_price yields a price or none.
LEMMA FillPriceType ==
  ASSUME NEW r \in Row, NEW ltp \in Nat
  PROVE  FillPrice(r, ltp) \in Nat \cup {NoFill}
BY DEF FillPrice, Row, NoFill, PriceTypes

\* apply_fill writes well-typed columns and returns well-typed amounts when the
\* fill is not in the direction of an open position.
LEMMA FilledType ==
  ASSUME NEW book \in PosRow, NEW a \in Actions, NEW qty \in Nat,
         NEW price \in Nat, NEW om \in Nat
  PROVE  Filled(book, a, qty, price, om)
           \in [net : Int, avg : Nat, margin : Nat, rel : Nat, gain : Int]
<1> DEFINE net == book.net + Signed(a, qty)
           offset == Least(Abs(book.net), qty)
           prorata == IF book.margin > 0 THEN Round(book.margin * offset, Abs(book.net)) ELSE 0
           gain == (IF book.net > 0 THEN price - book.avg ELSE book.avg - price) * offset
<1>1. /\ book.net \in Int /\ book.avg \in Nat /\ book.margin \in Nat
      /\ net \in Int /\ offset \in Nat /\ offset <= qty
  BY DEF PosRow, Signed, Least, Abs
<1>2. gain \in Int
  BY <1>1
<1>3. book.net # 0 => prorata \in Nat
  <2>1. CASE book.net # 0 /\ book.margin > 0
    <3>1. Abs(book.net) \in Nat \ {0} /\ book.margin * offset \in Nat
      BY <1>1, <2>1 DEF Abs
    <3>2. Round(book.margin * offset, Abs(book.net)) \in Nat
      BY <3>1, RoundNat
    <3>3. QED
      BY <2>1, <3>2
  <2>2. CASE ~(book.margin > 0)
    BY <2>2
  <2>3. QED
    BY <2>1, <2>2
<1>4. CASE book.net = 0
  BY <1>1, <1>4 DEF Filled
<1>5. CASE book.net # 0 /\ net = 0
  BY <1>1, <1>2, <1>5 DEF Filled
<1>6. CASE book.net # 0 /\ net # 0 /\ qty > offset
  BY <1>1, <1>2, <1>6 DEF Filled
<1>7. CASE book.net # 0 /\ net # 0 /\ qty = offset
  <2>1. prorata \in Nat
    BY <1>3, <1>7
  <2>2. Filled(book, a, qty, price, om) =
          [net |-> net, avg |-> book.avg,
           margin |-> IF prorata <= book.margin THEN book.margin - prorata ELSE 0,
           rel |-> prorata, gain |-> gain]
    BY <1>1, <1>7 DEF Filled
  <2>3. QED
    BY <1>1, <1>2, <2>1, <2>2
<1>8. QED
  BY <1>1, <1>4, <1>5, <1>6, <1>7

-----------------------------------------------------------------------------
(* Type correctness *)

\* Writing a row of a request is well typed.
LEMMA OrderRowType ==
  ASSUME NEW r, r.key \in Keys, r.action \in Actions, r.qty \in Int,
         r.ptype \in PriceTypes, r.price \in Nat, r.trig \in Nat
  PROVE  OrderRow(r, "placing") \in Row /\ OrderRow(r, "unused") \in Row
BY DEF OrderRow, Row, Statuses

\* Taking an order id for a request keeps the types (place_order is entered).
LEMMA BeginType ==
  ASSUME TypeInv, NEW c \in Clients, NEW o \in Orders, NEW r,
         r.key \in Keys, r.action \in Actions, r.qty \in Int,
         r.ptype \in PriceTypes, r.price \in Nat, r.trig \in Nat,
         NEW op \in AllOps \cup {"none", "engine"},
         NEW closing \in SUBSET (Keys \X Int),
         Begin(c, o, r, op, closing)
  PROVE  TypeInv'
<1>1. TablesOK'
  <2>1. OrderRow(r, "placing") \in Row
    BY OrderRowType
  <2>2. QED
    BY <2>1 DEF Begin, TypeInv, TablesOK
<1>2. ThreadsOK'
  <2>1. Fresh(op, {}, closing) \in Locals
    BY FreshType
  <2>2. /\ [Fresh(op, {}, closing) EXCEPT !.cur = o] \in Locals
        /\ [Fresh(op, {}, closing) EXCEPT !.cur = o].cur = o
    BY <2>1 DEF Locals
  <2>3. QED
    BY <2>2, GotoThreads DEF Begin, TypeInv, Threads, PCs
<1>3. QED
  BY <1>1, <1>2 DEF Begin, TypeInv, FundsOK, funds

\* Writing a rejected row keeps the types.
LEMMA RejectType ==
  ASSUME TypeInv, NEW c \in Clients, loc[c].cur \in Orders, Reject(c)
  PROVE  TypeInv'
<1>1. TablesOK'
  BY DEF Reject, TypeInv, TablesOK, Row, Statuses
<1>2. ThreadsOK'
  BY ReturnThreads DEF Reject, TypeInv, ThreadsOK, Locals, Threads
<1>3. QED
  BY <1>1, <1>2 DEF Reject, TypeInv, FundsOK, funds

\* An exception out of _try_fill_order keeps the types.
LEMMA RaiseType ==
  ASSUME TypeInv, NEW t \in Threads, loc[t].cur \in Orders, Raise(t)
  PROVE  TypeInv'
<1>1. TablesOK'
  <2>1. [qty |-> loc[t].qty, price |-> loc[t].px] \in Trade
    BY DEF TypeInv, ThreadsOK, Locals, Trade
  <2>2. QED
    BY <2>1 DEF Raise, TypeInv, TablesOK
<1>2. ThreadsOK'
  BY ReturnThreads DEF Raise, TypeInv
<1>3. QED
  BY <1>1, <1>2 DEF Raise, TypeInv, FundsOK, funds

\* An action that only moves the thread to well-typed locals.
LEMMA GotoType ==
  ASSUME TypeInv, NEW t \in Threads, NEW label \in PCs, NEW l \in Locals,
         label \in Working => l.cur \in Orders, Goto(t, label, l),
         UNCHANGED <<funds, tables>>
  PROVE  TypeInv'
<1>1. ThreadsOK'
  BY GotoThreads DEF TypeInv
<1>2. QED
  BY <1>1 DEF TypeInv, FundsOK, TablesOK, funds, tables

\* The book of a new user is well typed.
LEMMA InitType == Init => TypeInv
<1> SUFFICES ASSUME Init PROVE TypeInv
  OBVIOUS
<1>1. FundsOK
  BY InputsAssumption DEF Init, FundsOK
<1>2. TablesOK
  <2>1. PICK k \in Keys :
          orders = [o \in Orders |->
                      OrderRow([key |-> k, action |-> "BUY", qty |-> 0,
                                ptype |-> "MARKET", price |-> 0, trig |-> 0], "unused")]
    BY DEF Init
  <2>2. orders \in [Orders -> Row]
    BY <2>1 DEF OrderRow, Row, Statuses, Actions, PriceTypes
  <2>3. QED
    BY <2>2 DEF Init, TablesOK, NoPosition, PosRow
<1>3. ThreadsOK
  <2>1. Fresh("none", {}, {}) \in Locals
    BY FreshType
  <2>2. QED
    BY <2>1 DEF Init, ThreadsOK, PCs, Working
<1>4. QED
  BY <1>1, <1>2, <1>3 DEF TypeInv

\* Every step of a request thread keeps the types.
LEMMA ClientType ==
  ASSUME TypeInv, NEW c \in Clients, ClientStep(c)
  PROVE  TypeInv'
<1> USE DEF Threads
<1>0. /\ loc[c] \in Locals /\ pc[c] \in PCs
      /\ pc[c] \in Working => loc[c].cur \in Orders
      /\ orders \in [Orders -> Row] /\ pos \in [Keys -> PosRow]
  BY DEF TypeInv, ThreadsOK, TablesOK
<1>1. ASSUME NEW o \in Orders, NEW r \in Requests, PlaceOrder(c, o, r)
      PROVE  TypeInv'
  BY <1>1, BeginType, InputsAssumption DEF PlaceOrder, Request, AllOps
<1>2. ASSUME NEW o \in Orders, NEW r \in Requests, NEW n \in Targets,
             PlaceSmartOrder(c, o, r, n)
      PROVE  TypeInv'
  <2> DEFINE delta == n - pos[r.key].net
             q == [r EXCEPT !.action = IF delta > 0 THEN "BUY" ELSE "SELL",
                            !.qty = Abs(delta)]
  <2>1. r \in Request /\ delta \in Int /\ Abs(delta) \in Int
    BY <1>0, InputsAssumption DEF Request, PosRow, Abs
  <2>2. q \in Request
    BY <2>1 DEF Request, Actions
  <2>3. Begin(c, o, q, "smart", {})
    BY <1>2 DEF PlaceSmartOrder
  <2> HIDE DEF q
  <2>4. QED
    BY <2>2, <2>3, BeginType DEF Request, AllOps
<1>3. ASSUME NEW k \in Keys, ClosePosition(c, k)
      PROVE  TypeInv'
  <2>1. Fresh("close", {}, {<<k, pos[k].net>>}) \in Locals
    BY <1>0, FreshType DEF PosRow, AllOps
  <2>2. QED
    BY <1>3, <2>1, GotoType DEF ClosePosition, PCs, Working
<1>4. CASE CloseAllPositions(c)
  <2> DEFINE listed == {<<k, pos[k].net>> : k \in {j \in Keys : pos[j].net # 0}}
  <2>1. Fresh("closeall", {}, listed) \in Locals
    BY <1>0, FreshType DEF PosRow, AllOps
  <2>2. QED
    BY <1>4, <2>1, GotoType DEF CloseAllPositions, PCs, Working
<1>5. ASSUME NEW o \in Orders, CloseNext(c, o)
      PROVE  TypeInv'
  <2>1. PICK x \in loc[c].closing :
          Begin(c, o, [key |-> x[1], action |-> Opposite(x[2]), qty |-> Abs(x[2]),
                       ptype |-> "MARKET", price |-> 0, trig |-> 0],
                loc[c].op, loc[c].closing \ {x})
    BY <1>5 DEF CloseNext
  <2>2. /\ x[1] \in Keys /\ x[2] \in Int
        /\ loc[c].closing \ {x} \in SUBSET (Keys \X Int)
        /\ loc[c].op \in AllOps \cup {"none", "engine"}
    BY <1>0, <2>1 DEF Locals
  <2>3. Opposite(x[2]) \in Actions /\ Abs(x[2]) \in Int
    BY <2>2 DEF Opposite, Actions, Abs
  <2>4. QED
    BY <2>1, <2>2, <2>3, BeginType DEF PriceTypes
<1>6. CASE Validate(c)
  <2>1. loc[c].cur \in Orders
    BY <1>0, <1>6 DEF Validate, Working, PCs
  <2>2. PICK ltp \in Ltps, late \in BOOLEAN :
          \/ Reject(c)
          \/ /\ Goto(c, "size", [loc[c] EXCEPT !.px =
                     IF orders[loc[c].cur].ptype \in {"MARKET", "SL-M"}
                     THEN ltp ELSE orders[loc[c].cur].price])
             /\ UNCHANGED <<funds, tables>>
    BY <1>6 DEF Validate
  <2>3. CASE Reject(c)
    BY <2>1, <2>3, RejectType
  <2>4. ASSUME NEW p \in Nat, Goto(c, "size", [loc[c] EXCEPT !.px = p]),
               UNCHANGED <<funds, tables>>
        PROVE  TypeInv'
    <3>1. [loc[c] EXCEPT !.px = p] \in Locals /\ [loc[c] EXCEPT !.px = p].cur \in Orders
      BY <1>0, <2>1, <2>4 DEF Locals
    <3>2. QED
      BY <2>4, <3>1, GotoType DEF PCs
  <2>5. (IF orders[loc[c].cur].ptype \in {"MARKET", "SL-M"}
         THEN ltp ELSE orders[loc[c].cur].price) \in Nat
    BY <1>0, <2>1, InputsAssumption DEF Row
  <2>6. QED
    BY <2>2, <2>3, <2>4, <2>5
<1>7. CASE SizeMargin(c)
  <2> DEFINE r == orders[loc[c].cur]
             m == RequiredMargin(r.key, r.action, loc[c].px, MarginedQty(pos[r.key].net, r))
  <2>1. loc[c].cur \in Orders /\ r \in Row
    BY <1>0, <1>7 DEF SizeMargin, Working, PCs
  <2>2. MarginedQty(pos[r.key].net, r) \in Int /\ loc[c].px \in Nat
    BY <1>0, <2>1 DEF MarginedQty, Row, PosRow, Abs, Locals
  <2>3. m \in Nat
    BY <2>1, <2>2, RequiredMarginNat DEF Row
  <2>4. Goto(c, "block", [loc[c] EXCEPT !.amt = m]) /\ UNCHANGED <<funds, tables>>
    BY <1>7 DEF SizeMargin
  <2> HIDE DEF m
  <2>5. [loc[c] EXCEPT !.amt = m] \in Locals /\ [loc[c] EXCEPT !.amt = m].cur \in Orders
    BY <1>0, <2>1, <2>3 DEF Locals
  <2>6. QED
    BY <2>4, <2>5, GotoType DEF PCs
<1>8. CASE BlockMargin(c)
  <2>1. loc[c].cur \in Orders /\ loc[c].amt \in Nat
    BY <1>0, <1>8 DEF BlockMargin, Working, PCs, Locals
  <2>2. CASE Reject(c)
    BY <2>1, <2>2, RejectType
  <2>3. CASE /\ available' = available - loc[c].amt
             /\ used' = used + loc[c].amt
             /\ Goto(c, "create", loc[c])
             /\ UNCHANGED <<realized, tables>>
    <3>1. ThreadsOK'
      BY <1>0, <2>1, <2>3, GotoThreads DEF TypeInv, PCs
    <3>2. QED
      BY <2>1, <2>3, <3>1 DEF TypeInv, FundsOK, TablesOK, tables
  <2>4. QED
    BY <1>8, <2>2, <2>3 DEF BlockMargin
<1>9. CASE CreateOrder(c)
  <2> DEFINE o == loc[c].cur
             row == [orders[o] EXCEPT
                       !.status = IF orders[o].ptype \in {"SL", "SL-M"}
                                  THEN "trigger_pending" ELSE "open",
                       !.margin = loc[c].amt]
  <2>1. o \in Orders /\ loc[c].amt \in Nat /\ loc[c].closing \in SUBSET (Keys \X Int)
    BY <1>0, <1>9 DEF CreateOrder, Working, PCs, Locals
  <2>2. row \in Row
    BY <1>0, <2>1 DEF Row, Statuses
  <2>3. /\ orders' = [orders EXCEPT ![o] = row]
        /\ Return(c, {<<o, row>>}, loc[c].closing)
        /\ UNCHANGED <<funds, trades, pos, lost>>
    BY <1>9 DEF CreateOrder
  <2> HIDE DEF row, o
  <2>4. TablesOK'
    BY <2>2, <2>3 DEF TypeInv, TablesOK
  <2>5. ThreadsOK'
    BY <2>1, <2>2, <2>3, ReturnThreads DEF TypeInv
  <2>6. QED
    BY <2>3, <2>4, <2>5 DEF TypeInv, FundsOK, funds
<1>10. ASSUME NEW o \in Orders, CancelOrder(c, o) \/ ModifyOrder(c, o)
       PROVE  TypeInv'
  <2>1. /\ [Fresh("cancel", {}, {}) EXCEPT !.cur = o] \in Locals
        /\ [Fresh("cancel", {}, {}) EXCEPT !.cur = o].cur = o
    <3>1. Fresh("cancel", {}, {}) \in Locals
      BY FreshType DEF AllOps
    <3>2. QED
      BY <1>10, <3>1 DEF Locals
  <2>2. Fresh("modify", {<<o, orders[o]>>}, {}) \in Locals
    BY <1>0, <1>10, FreshType DEF AllOps
  <2>3. CASE CancelOrder(c, o)
    BY <1>10, <2>1, <2>3, GotoType DEF CancelOrder, PCs
  <2>4. CASE ModifyOrder(c, o)
    BY <1>10, <2>2, <2>4, GotoType DEF ModifyOrder, PCs, Working
  <2>5. QED
    BY <1>10, <2>3, <2>4
<1>11. CASE CancelAllOrders(c)
  <2> DEFINE listed == {<<o, orders[o]>> : o \in {p \in Orders : orders[p].status \in Pending}}
  <2>1. Fresh("cancelall", listed, {}) \in Locals
    BY <1>0, FreshType DEF AllOps
  <2>2. QED
    BY <1>11, <2>1, GotoType DEF CancelAllOrders, PCs, Working
<1>12. CASE CancelNext(c)
  <2>1. PICK x \in loc[c].work :
          /\ UNCHANGED <<funds, tables>>
          /\ \/ Return(c, loc[c].work \ {x}, {})
             \/ Goto(c, "cancel_commit", [loc[c] EXCEPT !.cur = x[1], !.work = @ \ {x}])
    BY <1>12 DEF CancelNext
  <2>2. x[1] \in Orders /\ loc[c].work \ {x} \in SUBSET (Orders \X Row)
    BY <1>0, <2>1 DEF Locals
  <2>3. /\ [loc[c] EXCEPT !.cur = x[1], !.work = @ \ {x}] \in Locals
        /\ [loc[c] EXCEPT !.cur = x[1], !.work = @ \ {x}].cur = x[1]
    BY <1>0, <2>2 DEF Locals
  <2>4. ThreadsOK'
    <3>1. CASE Return(c, loc[c].work \ {x}, {})
      BY <2>2, <3>1, ReturnThreads DEF TypeInv
    <3>2. CASE Goto(c, "cancel_commit", [loc[c] EXCEPT !.cur = x[1], !.work = @ \ {x}])
      BY <2>2, <2>3, <3>2, GotoThreads DEF TypeInv, PCs
    <3>3. QED
      BY <2>1, <3>1, <3>2
  <2>5. QED
    BY <2>1, <2>4 DEF TypeInv, FundsOK, TablesOK, funds, tables
<1>13. CASE CancelCommit(c)
  <2> DEFINE o == loc[c].cur
  <2>1. /\ o \in Orders /\ loc[c].work \in SUBSET (Orders \X Row)
        /\ orders[o].margin \in Nat
    BY <1>0, <1>13 DEF CancelCommit, Working, PCs, Locals, Row
  <2>2. TablesOK'
    <3>1. [orders[o] EXCEPT !.status = "cancelled"] \in Row
      BY <1>0, <2>1 DEF Row, Statuses
    <3>2. /\ orders' = [orders EXCEPT ![o] = [orders[o] EXCEPT !.status = "cancelled"]]
          /\ UNCHANGED <<trades, pos, lost>>
      BY <1>13 DEF CancelCommit
    <3>3. QED
      BY <2>1, <3>1, <3>2 DEF TypeInv, TablesOK
  <2>3. /\ [loc[c] EXCEPT !.amt = orders[o].margin] \in Locals
        /\ [loc[c] EXCEPT !.amt = orders[o].margin].cur = o
    BY <1>0, <2>1 DEF Locals
  <2>4. ThreadsOK'
    <3>1. CASE Goto(c, "cancel_release", [loc[c] EXCEPT !.amt = orders[o].margin])
      BY <2>1, <2>3, <3>1, GotoThreads DEF TypeInv, PCs
    <3>2. CASE Return(c, loc[c].work, {})
      BY <2>1, <3>2, ReturnThreads DEF TypeInv
    <3>3. QED
      BY <1>13, <3>1, <3>2 DEF CancelCommit
  <2>5. QED
    BY <1>13, <2>2, <2>4 DEF CancelCommit, TypeInv, FundsOK, funds
<1>14. CASE CancelRelease(c)
  <2>1. loc[c].amt \in Nat /\ loc[c].work \in SUBSET (Orders \X Row)
    BY <1>0 DEF Locals
  <2>2. ThreadsOK'
    BY <1>14, <2>1, ReturnThreads DEF CancelRelease, TypeInv
  <2>3. QED
    BY <1>14, <2>1, <2>2 DEF CancelRelease, ReleaseMargin, TypeInv, FundsOK, TablesOK, tables
<1>15. ASSUME NEW ch \in Changes, ModifyCommit(c, ch)
       PROVE  TypeInv'
  <2>1. PICK x \in loc[c].work :
          orders' = [orders EXCEPT ![x[1]] =
            [orders[x[1]] EXCEPT
               !.qty = Written(x[2].qty, IF ch.qty # 0 THEN ch.qty ELSE x[2].qty, orders[x[1]].qty),
               !.price = Written(x[2].price, ch.price, orders[x[1]].price),
               !.trig = Written(x[2].trig, ch.trig, orders[x[1]].trig),
               !.ptype = Written(x[2].ptype, ch.ptype, orders[x[1]].ptype)]]
    BY <1>15 DEF ModifyCommit
  <2>2. x[1] \in Orders /\ x[2] \in Row /\ ch \in Change
    BY <1>0, <1>15, <2>1, InputsAssumption DEF Locals
  <2> DEFINE o == x[1]
             row == [orders[o] EXCEPT
               !.qty = Written(x[2].qty, IF ch.qty # 0 THEN ch.qty ELSE x[2].qty, orders[o].qty),
               !.price = Written(x[2].price, ch.price, orders[o].price),
               !.trig = Written(x[2].trig, ch.trig, orders[o].trig),
               !.ptype = Written(x[2].ptype, ch.ptype, orders[o].ptype)]
  <2>3. row \in Row
    BY <1>0, <2>2 DEF Row, Change, Written
  <2>4. orders' = [orders EXCEPT ![o] = row] /\ UNCHANGED <<trades, pos, lost>>
    BY <1>15, <2>1 DEF ModifyCommit
  <2>5. TablesOK'
    <3> HIDE DEF row, o
    <3>1. QED
      BY <2>3, <2>4 DEF TypeInv, TablesOK
  <2>6. ThreadsOK'
    BY <1>15, ReturnThreads DEF ModifyCommit, TypeInv
  <2>7. QED
    BY <1>15, <2>5, <2>6 DEF ModifyCommit, TypeInv, FundsOK, funds
<1>16. QED
  BY <1>1, <1>2, <1>3, <1>4, <1>5, <1>6, <1>7, <1>8, <1>9, <1>10, <1>11, <1>12,
     <1>13, <1>14, <1>15 DEF ClientStep

\* Listing the pending orders keeps the types.
LEMMA EngineType ==
  ASSUME TypeInv, NEW e \in Engines, ListPending(e)
  PROVE  TypeInv'
<1> DEFINE listed == {<<o, orders[o]>> : o \in {p \in Orders : orders[p].status \in Pending}}
<1>1. Fresh("engine", listed, {}) \in Locals
  <2>1. listed \in SUBSET (Orders \X Row)
    BY DEF TypeInv, TablesOK
  <2>2. QED
    BY <2>1, FreshType
<1>2. QED
  BY <1>1, GotoType DEF ListPending, PCs, Working, Threads

\* Every step of _try_fill_order keeps the types.
LEMMA FillType ==
  ASSUME TypeInv, NEW t \in Threads, FillStep(t)
  PROVE  TypeInv'
<1>0. /\ loc[t] \in Locals /\ pc[t] \in PCs
      /\ pc[t] \in Working => loc[t].cur \in Orders
      /\ orders \in [Orders -> Row] /\ pos \in [Keys -> PosRow]
      /\ loc[t].work \in SUBSET (Orders \X Row)
      /\ loc[t].closing \in SUBSET (Keys \X Int)
  BY DEF TypeInv, ThreadsOK, TablesOK, Locals
<1>1. CASE TryFill(t)
  <2>1. PICK x \in loc[t].work, ltp \in Ltps :
          LET o == x[1]
              price == FillPrice(x[2], ltp)
          IN  /\ UNCHANGED <<funds, tables>>
              /\ \/ Return(t, loc[t].work \ {x}, loc[t].closing)
                 \/ /\ price # NoFill /\ orders[o].qty > 0
                    /\ Goto(t, "fill", [loc[t] EXCEPT !.cur = o, !.px = price,
                                                     !.qty = orders[o].qty,
                                                     !.amt = x[2].margin,
                                                     !.work = @ \ {x}])
    BY <1>1 DEF TryFill
  <2> DEFINE o == x[1]
             price == FillPrice(x[2], ltp)
             l == [loc[t] EXCEPT !.cur = o, !.px = price, !.qty = orders[o].qty,
                                 !.amt = x[2].margin, !.work = @ \ {x}]
  <2>2. /\ o \in Orders /\ x[2] \in Row /\ x[2].margin \in Nat
        /\ orders[o].qty \in Int /\ ltp \in Nat
        /\ loc[t].work \ {x} \in SUBSET (Orders \X Row)
    BY <1>0, <2>1, InputsAssumption DEF Row
  <2>3. price \in Nat \cup {NoFill}
    BY <2>2, FillPriceType
  <2>4. ThreadsOK'
    <3>1. CASE Return(t, loc[t].work \ {x}, loc[t].closing)
      BY <1>0, <2>2, <3>1, ReturnThreads DEF TypeInv
    <3>2. CASE price # NoFill /\ orders[o].qty > 0 /\ Goto(t, "fill", l)
      <4>1. price \in Nat /\ orders[o].qty \in Nat
        BY <2>2, <2>3, <3>2
      <4> HIDE DEF price
      <4>2. l \in Locals /\ l.cur = o
        BY <1>0, <2>2, <4>1 DEF Locals
      <4> HIDE DEF l
      <4>3. QED
        BY <2>2, <3>2, <4>2, GotoThreads DEF TypeInv, PCs
    <3>3. QED
      BY <2>1, <3>1, <3>2
  <2>5. QED
    BY <2>1, <2>4 DEF TypeInv, FundsOK, TablesOK, funds, tables
<1>2. CASE FillCommit(t)
  <2>1. loc[t].cur \in Orders
    BY <1>0, <1>2 DEF FillCommit, Working, PCs
  <2>2. [qty |-> loc[t].qty, price |-> loc[t].px] \in Trade
    BY <1>0 DEF Locals, Trade
  <2>3. [orders[loc[t].cur] EXCEPT !.status = "complete"] \in Row
    BY <1>0, <2>1 DEF Row, Statuses
  <2>4. TablesOK'
    BY <1>2, <2>1, <2>2, <2>3 DEF FillCommit, TypeInv, TablesOK
  <2>5. ThreadsOK'
    BY <1>0, <1>2, <2>1, GotoThreads DEF FillCommit, TypeInv, PCs
  <2>6. QED
    BY <1>2, <2>4, <2>5 DEF FillCommit, TypeInv, FundsOK, funds
<1>3. CASE ApplySelect(t)
  <2> DEFINE book == pos[orders[loc[t].cur].key]
  <2>1. loc[t].cur \in Orders /\ book \in PosRow
    BY <1>0, <1>3 DEF ApplySelect, Working, PCs, Row
  <2>2. /\ [loc[t] EXCEPT !.book = book] \in Locals
        /\ [loc[t] EXCEPT !.book = book].cur = loc[t].cur
    BY <1>0, <2>1 DEF Locals
  <2>3. CASE Raise(t)
    BY <2>1, <2>3, RaiseType
  <2>4. CASE Goto(t, "write", [loc[t] EXCEPT !.book = book]) /\ UNCHANGED <<funds, tables>>
    BY <2>1, <2>2, <2>4, GotoType DEF PCs
  <2>5. QED
    BY <1>3, <2>3, <2>4 DEF ApplySelect
<1>4. CASE ApplyCommit(t)
  <2> DEFINE o == loc[t].cur
             k == orders[o].key
             book == loc[t].book
             f == Filled(book, orders[o].action, loc[t].qty, loc[t].px, loc[t].amt)
             row == [exists |-> TRUE, net |-> f.net,
                     avg |-> Written(book.avg, f.avg, pos[k].avg),
                     margin |-> Written(book.margin, f.margin, pos[k].margin)]
  <2>1. o \in Orders /\ k \in Keys /\ book \in PosRow /\ pos[k] \in PosRow
    BY <1>0, <1>4 DEF ApplyCommit, Working, PCs, Row, Locals
  <2>2. f \in [net : Int, avg : Nat, margin : Nat, rel : Nat, gain : Int]
    BY <1>0, <2>1, FilledType DEF Row, Locals
  <2>3. CASE Raise(t)
    BY <2>1, <2>3, RaiseType
  <2>4. CASE /\ pos' = [pos EXCEPT ![k] = row]
             /\ IF f.rel > 0 \/ f.gain # 0
                THEN Goto(t, "release", [loc[t] EXCEPT !.amt = f.rel, !.gain = f.gain])
                ELSE Return(t, loc[t].work, loc[t].closing)
             /\ UNCHANGED <<funds, orders, trades, lost>>
    <3> HIDE DEF f
    <3>1. row \in PosRow
      BY <2>1, <2>2 DEF PosRow, Written
    <3>2. TablesOK'
      BY <2>1, <2>4, <3>1 DEF TypeInv, TablesOK
    <3>3. /\ [loc[t] EXCEPT !.amt = f.rel, !.gain = f.gain] \in Locals
          /\ [loc[t] EXCEPT !.amt = f.rel, !.gain = f.gain].cur = o
      BY <1>0, <2>2 DEF Locals
    <3>4. ThreadsOK'
      <4>1. CASE Goto(t, "release", [loc[t] EXCEPT !.amt = f.rel, !.gain = f.gain])
        BY <2>1, <3>3, <4>1, GotoThreads DEF TypeInv, PCs
      <4>2. CASE Return(t, loc[t].work, loc[t].closing)
        BY <1>0, <4>2, ReturnThreads DEF TypeInv
      <4>3. QED
        BY <2>4, <4>1, <4>2
    <3>5. QED
      BY <2>4, <3>2, <3>4 DEF TypeInv, FundsOK, funds
  <2>5. QED
    BY <1>4, <2>3, <2>4 DEF ApplyCommit
<1>5. CASE FillRelease(t)
  <2>1. loc[t].amt \in Nat /\ loc[t].gain \in Int
    BY <1>0 DEF Locals
  <2>2. ThreadsOK'
    BY <1>0, <1>5, ReturnThreads DEF FillRelease, TypeInv
  <2>3. FundsOK'
    BY <1>5, <2>1 DEF FillRelease, ReleaseMargin, TypeInv, FundsOK
  <2>4. QED
    BY <1>5, <2>2, <2>3 DEF FillRelease, TypeInv, TablesOK, tables
<1>6. QED
  BY <1>1, <1>2, <1>3, <1>4, <1>5 DEF FillStep

\* The type invariant is inductive.
LEMMA NextType == TypeInv /\ [Next]_vars => TypeInv'
<1> SUFFICES ASSUME TypeInv, [Next]_vars PROVE TypeInv'
  OBVIOUS
<1>1. CASE Next
  BY <1>1, ClientType, EngineType, FillType DEF Next
<1>2. CASE UNCHANGED vars
  BY <1>2 DEF vars, TypeInv, FundsOK, TablesOK, ThreadsOK
<1>3. QED
  BY <1>1, <1>2

\* The book is well typed in every behaviour: prices, margins and quantities that
\* reach the tables are natural numbers, and no handler works on a missing order.
THEOREM TypeCorrect == Spec => []TypeOK
<1>1. TypeInv => TypeOK
  BY DEF TypeInv, FundsOK, TablesOK, ThreadsOK, TypeOK
<1>2. QED
  BY <1>1, InitType, NextType, PTL DEF Spec

\* The inductive form of type correctness, cited by the theorems below.
THEOREM TypeInvariance == Spec => []TypeInv
BY InitType, NextType, PTL DEF Spec

-----------------------------------------------------------------------------
(* The funds row *)

\* What a step does to the funds row: nothing, a block out of cash that is
\* there, or a release.
FundsStep ==
  \/ UNCHANGED funds
  \/ \E amt \in Nat \ {0} : /\ amt <= available
                          /\ available' = available - amt /\ used' = used + amt
                          /\ realized' = realized
  \/ \E amt \in Nat, pnl \in Int : ReleaseMargin(amt, pnl)

\* Every step of the book moves the funds row in one of these three ways: only
\* block_margin and release_margin write it.
LEMMA NextFunds == TypeInv /\ [Next]_vars => FundsStep
<1> SUFFICES ASSUME TypeInv, [Next]_vars PROVE FundsStep
  OBVIOUS
<1> USE DEF FundsStep
<1>0. \A t \in Threads : loc[t].amt \in Nat /\ loc[t].gain \in Int
  BY DEF TypeInv, ThreadsOK, Locals
<1>1. ASSUME NEW c \in Clients, ClientStep(c)
      PROVE  FundsStep
  <2>1. CASE BlockMargin(c)
    <3>1. CASE Reject(c)
      BY <3>1 DEF Reject
    <3>2. CASE /\ loc[c].amt > 0 => available >= loc[c].amt
               /\ available' = available - loc[c].amt
               /\ used' = used + loc[c].amt
               /\ UNCHANGED <<realized, tables>>
      <4>1. loc[c].amt \in Nat /\ available \in Int /\ used \in Nat
        BY <1>0 DEF Threads, TypeInv, FundsOK
      <4>2. CASE loc[c].amt = 0
        BY <3>2, <4>1, <4>2 DEF funds
      <4>3. CASE loc[c].amt # 0
        BY <3>2, <4>1, <4>3
      <4>4. QED
        BY <4>2, <4>3
    <3>3. QED
      BY <2>1, <3>1, <3>2 DEF BlockMargin
  <2>2. CASE CancelRelease(c)
    BY <1>0, <2>2 DEF CancelRelease, Threads
  <2>3. CASE ~BlockMargin(c) /\ ~CancelRelease(c)
    BY <1>1, <2>3 DEF ClientStep, PlaceOrder, PlaceSmartOrder, Begin, ClosePosition,
       CloseAllPositions, CloseNext, Validate, Reject, SizeMargin, CreateOrder,
       CancelOrder, CancelAllOrders, CancelNext, CancelCommit, ModifyOrder, ModifyCommit
  <2>4. QED
    BY <2>1, <2>2, <2>3
<1>2. ASSUME NEW e \in Engines, ListPending(e)
      PROVE  FundsStep
  BY <1>2 DEF ListPending
<1>3. ASSUME NEW t \in Threads, FillStep(t)
      PROVE  FundsStep
  <2>1. CASE FillRelease(t)
    BY <1>0, <2>1 DEF FillRelease
  <2>2. CASE ~FillRelease(t)
    BY <1>3, <2>2 DEF FillStep, TryFill, FillCommit, ApplySelect, ApplyCommit, Raise
  <2>3. QED
    BY <2>1, <2>2
<1>4. CASE UNCHANGED vars
  BY <1>4 DEF vars, funds
<1>5. QED
  BY <1>1, <1>2, <1>3, <1>4 DEF Next

\* Under every interleaving of any number of threads, no step destroys money:
\* cash and blocked margin together never fall below the starting capital plus
\* the booked PnL.
THEOREM EquityIsNeverDestroyed == Spec => []EquityNeverDestroyed
<1>1. Init => EquityNeverDestroyed
  BY InputsAssumption DEF Init, EquityNeverDestroyed
<1>2. TypeInv /\ EquityNeverDestroyed /\ [Next]_vars => EquityNeverDestroyed'
  <2> SUFFICES ASSUME TypeInv, EquityNeverDestroyed, FundsStep
               PROVE  EquityNeverDestroyed'
    BY NextFunds
  <2>1. available \in Int /\ used \in Nat /\ realized \in Int /\ Capital \in Nat
    BY InputsAssumption DEF TypeInv, FundsOK
  <2>2. QED
    BY <2>1 DEF FundsStep, ReleaseMargin, EquityNeverDestroyed, funds
<1>3. QED
  BY <1>1, <1>2, TypeInvariance, PTL DEF Spec

\* The book implements the margin ledger: blocks are covered by cash and exact,
\* releases never give back less than they take, for every set of threads.
THEOREM FundsRowImplementsLedger == Spec => FundsRowIsALedger
<1>1. Init => Ledger!Init
  BY DEF Init, Ledger!Init
<1>2. TypeInv /\ [Next]_vars => [Ledger!Next]_(Ledger!lvars)
  <2> SUFFICES ASSUME TypeInv, FundsStep
               PROVE  [Ledger!Next]_(Ledger!lvars)
    BY NextFunds
  <2>1. available \in Int /\ used \in Nat /\ realized \in Int
    BY DEF TypeInv, FundsOK
  <2>2. CASE UNCHANGED funds
    BY <2>2 DEF funds, Ledger!lvars
  <2>3. ASSUME NEW amt \in Nat \ {0}, amt <= available,
               available' = available - amt, used' = used + amt, realized' = realized
        PROVE  Ledger!Block
    BY <2>1, <2>3 DEF Ledger!Block
  <2>4. ASSUME NEW amt \in Nat, NEW pnl \in Int, ReleaseMargin(amt, pnl)
        PROVE  Ledger!Release
    BY <2>1, <2>4 DEF ReleaseMargin, Ledger!Release
  <2>5. QED
    BY <2>2, <2>3, <2>4 DEF FundsStep, Ledger!Next
<1>3. QED
  BY <1>1, <1>2, TypeInvariance, PTL DEF Spec, FundsRowIsALedger, Ledger!Spec

-----------------------------------------------------------------------------
(* Acceptance before execution *)

Early == {"unused", "placing", "rejected"}
Placing == {"validate", "size", "block", "create"}
Finishing == {"fill", "cancel_commit"}

\* OnlyAcceptedOrdersTrade is not inductive: a late rejection must not meet an
\* order that has traded.  What rules it out is that the order a request is
\* placing is its own, and that a fill or a cancel has seen an accepted row.
AcceptInv ==
  /\ \A o \in Orders : trades[o] # <<>> => orders[o].status \notin Early
  /\ \A t \in Threads : pc[t] \in Placing => orders[loc[t].cur].status = "placing"
  /\ \A t \in Threads : pc[t] \in Finishing => orders[loc[t].cur].status \notin Early
  /\ \A t, u \in Threads :
       (t # u /\ pc[t] \in Placing /\ pc[u] \in Placing) => loc[t].cur # loc[u].cur

\* Thread t is the only one that moved.
OnlyMoved(t) == \A u \in Threads \ {t} : pc'[u] = pc[u] /\ loc'[u] = loc[u]

\* Every row keeps its status, and no trade is written.
SameOrders ==
  /\ \A o \in Orders : orders'[o].status = orders[o].status
  /\ trades' = trades

\* Goto moves one thread.
LEMMA GotoMoves ==
  ASSUME TypeInv, NEW t \in Threads, NEW label, NEW l, Goto(t, label, l)
  PROVE  OnlyMoved(t) /\ pc'[t] = label /\ loc'[t] = l
BY DEF TypeInv, ThreadsOK, Goto, OnlyMoved

\* Return leaves the thread at rest or at the head of a loop.
LEMMA ReturnMoves ==
  ASSUME TypeInv, NEW t \in Threads, NEW work, NEW closing, Return(t, work, closing)
  PROVE  OnlyMoved(t) /\ pc'[t] \notin Placing \cup Finishing
BY GotoMoves DEF Return, Placing, Finishing

\* A thread that leaves for a label outside placing, filling and cancelling, with
\* every status as it was, disturbs nothing.
LEMMA LeaveAccept ==
  ASSUME TypeInv, AcceptInv, NEW t \in Threads, OnlyMoved(t), SameOrders,
         pc'[t] \notin Placing \cup Finishing
  PROVE  AcceptInv'
<1>1. \A u \in Threads : (pc[u] \in Placing \cup Finishing) => loc[u].cur \in Orders
  BY DEF TypeInv, ThreadsOK, Working, PCs, Placing, Finishing
<1>2. QED
  BY <1>1 DEF AcceptInv, OnlyMoved, SameOrders

\* A request that goes on placing its own order disturbs nothing.
LEMMA AdvanceAccept ==
  ASSUME TypeInv, AcceptInv, NEW t \in Threads, OnlyMoved(t), SameOrders,
         pc[t] \in Placing, pc'[t] \in Placing, loc'[t].cur = loc[t].cur
  PROVE  AcceptInv'
<1>1. \A u \in Threads : (pc[u] \in Placing \cup Finishing) => loc[u].cur \in Orders
  BY DEF TypeInv, ThreadsOK, Working, PCs, Placing, Finishing
<1>2. pc'[t] \notin Finishing
  BY DEF Placing, Finishing
<1>3. QED
  BY <1>1, <1>2 DEF AcceptInv, OnlyMoved, SameOrders

\* A thread that takes up a pending order to fill or cancel it disturbs nothing.
LEMMA TakeAccept ==
  ASSUME TypeInv, AcceptInv, NEW t \in Threads, OnlyMoved(t), SameOrders,
         pc'[t] \in Finishing, loc'[t].cur \in Orders,
         orders[loc'[t].cur].status \in Pending
  PROVE  AcceptInv'
<1>1. \A u \in Threads : (pc[u] \in Placing \cup Finishing) => loc[u].cur \in Orders
  BY DEF TypeInv, ThreadsOK, Working, PCs, Placing, Finishing
<1>2. pc'[t] \notin Placing
  BY DEF Placing, Finishing
<1>3. orders[loc'[t].cur].status \notin Early
  BY DEF Pending, Early
<1>4. QED
  BY <1>1, <1>2, <1>3 DEF AcceptInv, OnlyMoved, SameOrders

\* A write to the row a thread works on, of a status that no longer belongs to
\* placing, keeps the invariant when the thread leaves the row.
LEMMA WriteAccept ==
  ASSUME TypeInv, AcceptInv, NEW t \in Threads, OnlyMoved(t),
         pc[t] \in Placing \cup Finishing, pc'[t] \notin Placing \cup Finishing,
         \A o \in Orders \ {loc[t].cur} :
            orders'[o].status = orders[o].status /\ trades'[o] = trades[o],
         \/ orders'[loc[t].cur].status \notin Early
         \/ pc[t] \in Placing /\ trades'[loc[t].cur] = trades[loc[t].cur]
  PROVE  AcceptInv'
<1>1. \A u \in Threads : (pc[u] \in Placing \cup Finishing) => loc[u].cur \in Orders
  BY DEF TypeInv, ThreadsOK, Working, PCs, Placing, Finishing
<1>2. "placing" \in Early
  BY DEF Early
<1>3. \A u \in Threads \ {t} : pc[u] \in Placing => loc[u].cur # loc[t].cur
  BY <1>2 DEF AcceptInv, Placing, Finishing
<1>4. \A u \in Threads \ {t} :
        (pc[u] \in Finishing /\ pc[t] \in Placing) => loc[u].cur # loc[t].cur
  BY <1>2 DEF AcceptInv
<1>5. pc[t] \in Placing => trades[loc[t].cur] = <<>>
  BY <1>1, <1>2 DEF AcceptInv
<1>6. QED
  BY <1>1, <1>3, <1>4, <1>5 DEF AcceptInv, OnlyMoved

\* A request takes an order id that no thread works on and no trade has.
LEMMA BeginAccept ==
  ASSUME TypeInv, AcceptInv, NEW c \in Threads, NEW o \in Orders, NEW r, NEW op,
         NEW closing, Begin(c, o, r, op, closing)
  PROVE  AcceptInv'
<1>1. \A u \in Threads : (pc[u] \in Placing \cup Finishing) => loc[u].cur \in Orders
  BY DEF TypeInv, ThreadsOK, Working, PCs, Placing, Finishing
<1>2. /\ OnlyMoved(c) /\ pc'[c] = "validate" /\ loc'[c].cur = o
      /\ trades' = trades
  BY GotoMoves DEF Begin, Fresh
<1>3. /\ \A p \in Orders \ {o} : orders'[p] = orders[p]
      /\ orders'[o].status = "placing"
  BY DEF Begin, OrderRow, TypeInv, TablesOK
<1>4. /\ trades[o] = <<>>
      /\ \A u \in Threads : pc[u] \in Placing \cup Finishing => loc[u].cur # o
  BY DEF Begin, AcceptInv, Early
<1>5. "validate" \in Placing /\ "validate" \notin Finishing
  BY DEF Placing, Finishing
<1>6. QED
  BY <1>1, <1>2, <1>3, <1>4, <1>5 DEF AcceptInv, OnlyMoved

\* A rejection is written to the request's own order, which has no trade.
LEMMA RejectAccept ==
  ASSUME TypeInv, AcceptInv, NEW c \in Threads, pc[c] \in Placing, Reject(c)
  PROVE  AcceptInv'
<1>1. OnlyMoved(c) /\ pc'[c] \notin Placing \cup Finishing
  BY ReturnMoves DEF Reject
<1>2. trades' = trades /\ \A o \in Orders \ {loc[c].cur} : orders'[o] = orders[o]
  BY DEF Reject, TypeInv, TablesOK
<1>3. QED
  BY <1>1, <1>2, WriteAccept

\* Every step of a request thread keeps AcceptInv.
LEMMA ClientAccept ==
  ASSUME TypeInv, AcceptInv, NEW c \in Clients, ClientStep(c)
  PROVE  AcceptInv'
<1>0. c \in Threads
  BY DEF Threads
<1>1. ASSUME NEW o \in Orders, NEW r \in Requests, PlaceOrder(c, o, r)
      PROVE  AcceptInv'
  BY <1>0, <1>1, BeginAccept DEF PlaceOrder
<1>2. ASSUME NEW o \in Orders, NEW r \in Requests, NEW n \in Targets,
             PlaceSmartOrder(c, o, r, n)
      PROVE  AcceptInv'
  BY <1>0, <1>2, BeginAccept DEF PlaceSmartOrder
<1>3. ASSUME NEW o \in Orders, CloseNext(c, o)
      PROVE  AcceptInv'
  BY <1>0, <1>3, BeginAccept DEF CloseNext
<1>4. ASSUME \/ CloseAllPositions(c)
             \/ \E k \in Keys : ClosePosition(c, k)
             \/ CancelAllOrders(c)
             \/ \E o \in Orders : ModifyOrder(c, o)
      PROVE  AcceptInv'
  <2>1. \E label \in {"close_loop", "cancel_loop", "modify_commit"} : \E l :
          Goto(c, label, l) /\ UNCHANGED <<orders, trades>>
    BY <1>4 DEF CloseAllPositions, ClosePosition, CancelAllOrders, ModifyOrder, tables
  <2>2. OnlyMoved(c) /\ SameOrders /\ pc'[c] \notin Placing \cup Finishing
    BY <1>0, <2>1, GotoMoves DEF SameOrders, Placing, Finishing
  <2>3. QED
    BY <1>0, <2>2, LeaveAccept
<1>5. CASE Validate(c)
  <2>1. pc[c] \in Placing
    BY <1>5 DEF Validate, Placing
  <2>2. CASE Reject(c)
    BY <1>0, <2>1, <2>2, RejectAccept
  <2>3. CASE \E px : Goto(c, "size", [loc[c] EXCEPT !.px = px]) /\ UNCHANGED <<funds, tables>>
    <3>1. OnlyMoved(c) /\ pc'[c] = "size" /\ loc'[c].cur = loc[c].cur /\ SameOrders
      BY <1>0, <2>3, GotoMoves DEF SameOrders, tables, TypeInv, ThreadsOK, Locals
    <3>2. QED
      BY <1>0, <2>1, <3>1, AdvanceAccept DEF Placing
  <2>4. QED
    BY <1>5, <2>2, <2>3 DEF Validate
<1>6. CASE SizeMargin(c)
  <2>1. \E amt : Goto(c, "block", [loc[c] EXCEPT !.amt = amt]) /\ UNCHANGED tables
    BY <1>6 DEF SizeMargin
  <2>2. OnlyMoved(c) /\ pc'[c] = "block" /\ loc'[c].cur = loc[c].cur /\ SameOrders
    BY <1>0, <2>1, GotoMoves DEF SameOrders, tables, TypeInv, ThreadsOK, Locals
  <2>3. QED
    BY <1>0, <1>6, <2>2, AdvanceAccept DEF SizeMargin, Placing
<1>7. CASE BlockMargin(c)
  <2>1. pc[c] \in Placing
    BY <1>7 DEF BlockMargin, Placing
  <2>2. CASE Reject(c)
    BY <1>0, <2>1, <2>2, RejectAccept
  <2>3. CASE Goto(c, "create", loc[c]) /\ UNCHANGED tables
    <3>1. OnlyMoved(c) /\ pc'[c] = "create" /\ loc'[c] = loc[c] /\ SameOrders
      BY <1>0, <2>3, GotoMoves DEF SameOrders, tables
    <3>2. QED
      BY <1>0, <2>1, <3>1, AdvanceAccept DEF Placing
  <2>4. QED
    BY <1>7, <2>2, <2>3 DEF BlockMargin
<1>8. CASE CreateOrder(c)
  <2>1. pc[c] \in Placing /\ loc[c].cur \in Orders
    BY <1>0, <1>8 DEF CreateOrder, Placing, TypeInv, ThreadsOK, Working, PCs
  <2>2. OnlyMoved(c) /\ pc'[c] \notin Placing \cup Finishing
    BY <1>0, <1>8, ReturnMoves DEF CreateOrder
  <2>3. /\ trades' = trades
        /\ \A o \in Orders \ {loc[c].cur} : orders'[o] = orders[o]
    BY <1>8 DEF CreateOrder, TypeInv, TablesOK
  <2>4. QED
    BY <1>0, <2>1, <2>2, <2>3, WriteAccept
<1>9. ASSUME NEW o \in Orders, CancelOrder(c, o)
      PROVE  AcceptInv'
  <2>1. OnlyMoved(c) /\ pc'[c] = "cancel_commit" /\ loc'[c].cur = o /\ SameOrders
    BY <1>0, <1>9, GotoMoves DEF CancelOrder, SameOrders, tables, Fresh
  <2>2. QED
    BY <1>0, <1>9, <2>1, TakeAccept DEF CancelOrder, Finishing
<1>10. CASE CancelNext(c)
  <2>1. PICK x \in loc[c].work :
          \/ Return(c, loc[c].work \ {x}, {})
          \/ /\ orders[x[1]].status \in Pending
             /\ Goto(c, "cancel_commit", [loc[c] EXCEPT !.cur = x[1], !.work = @ \ {x}])
    BY <1>10 DEF CancelNext
  <2>2. SameOrders
    BY <1>10 DEF CancelNext, SameOrders, tables
  <2>3. CASE Return(c, loc[c].work \ {x}, {})
    BY <1>0, <2>2, <2>3, ReturnMoves, LeaveAccept
  <2>4. CASE /\ orders[x[1]].status \in Pending
             /\ Goto(c, "cancel_commit", [loc[c] EXCEPT !.cur = x[1], !.work = @ \ {x}])
    <3>1. x[1] \in Orders
      BY <1>0, <2>1 DEF TypeInv, ThreadsOK, Locals
    <3>2. OnlyMoved(c) /\ pc'[c] = "cancel_commit" /\ loc'[c].cur = x[1]
      <4> DEFINE l == [loc[c] EXCEPT !.cur = x[1], !.work = @ \ {x}]
      <4>1. l.cur = x[1]
        BY <1>0 DEF TypeInv, ThreadsOK, Locals
      <4>2. Goto(c, "cancel_commit", l)
        BY <2>4
      <4> HIDE DEF l
      <4>3. QED
        BY <1>0, <4>1, <4>2, GotoMoves
    <3>3. QED
      BY <1>0, <2>2, <2>4, <3>1, <3>2, TakeAccept DEF Finishing
  <2>5. QED
    BY <2>1, <2>3, <2>4
<1>11. CASE CancelCommit(c)
  <2>1. pc[c] \in Finishing /\ loc[c].cur \in Orders
    BY <1>0, <1>11 DEF CancelCommit, Finishing, TypeInv, ThreadsOK, Working, PCs
  <2>2. OnlyMoved(c) /\ pc'[c] \notin Placing \cup Finishing
    <3>1. CASE Return(c, loc[c].work, {})
      BY <1>0, <3>1, ReturnMoves
    <3>2. CASE Goto(c, "cancel_release", [loc[c] EXCEPT !.amt = orders[loc[c].cur].margin])
      BY <1>0, <3>2, GotoMoves DEF Placing, Finishing
    <3>3. QED
      BY <1>11, <3>1, <3>2 DEF CancelCommit
  <2>3. /\ trades' = trades
        /\ \A o \in Orders \ {loc[c].cur} : orders'[o] = orders[o]
        /\ orders'[loc[c].cur].status = "cancelled"
    BY <1>11, <2>1 DEF CancelCommit, TypeInv, TablesOK, Row
  <2>4. QED
    BY <1>0, <2>1, <2>2, <2>3, WriteAccept DEF Early
<1>12. CASE CancelRelease(c)
  <2>1. SameOrders
    BY <1>12 DEF CancelRelease, SameOrders, tables
  <2>2. QED
    BY <1>0, <1>12, <2>1, ReturnMoves, LeaveAccept DEF CancelRelease
<1>13. ASSUME NEW ch \in Changes, ModifyCommit(c, ch)
       PROVE  AcceptInv'
  <2>1. SameOrders
    BY <1>13 DEF ModifyCommit, SameOrders, TypeInv, TablesOK, Row
  <2>2. QED
    BY <1>0, <1>13, <2>1, ReturnMoves, LeaveAccept DEF ModifyCommit
<1>14. QED
  BY <1>1, <1>2, <1>3, <1>4, <1>5, <1>6, <1>7, <1>8, <1>9, <1>10, <1>11, <1>12,
     <1>13 DEF ClientStep

\* Every step of _try_fill_order keeps AcceptInv.
LEMMA FillAccept ==
  ASSUME TypeInv, AcceptInv, NEW t \in Threads, FillStep(t)
  PROVE  AcceptInv'
<1>0. loc[t] \in Locals
  BY DEF TypeInv, ThreadsOK
<1>1. CASE TryFill(t)
  <2>1. SameOrders
    BY <1>1 DEF TryFill, SameOrders, tables
  <2>2. PICK x \in loc[t].work, price \in Int \cup {NoFill} :
          \/ Return(t, loc[t].work \ {x}, loc[t].closing)
          \/ /\ orders[x[1]].status \in Pending
             /\ Goto(t, "fill", [loc[t] EXCEPT !.cur = x[1], !.px = price,
                                               !.qty = orders[x[1]].qty,
                                               !.amt = x[2].margin, !.work = @ \ {x}])
    <3>1. PICK x \in loc[t].work, ltp \in Ltps :
            LET price == FillPrice(x[2], ltp)
            IN  \/ Return(t, loc[t].work \ {x}, loc[t].closing)
                \/ /\ orders[x[1]].status \in Pending
                   /\ Goto(t, "fill", [loc[t] EXCEPT !.cur = x[1], !.px = price,
                                                     !.qty = orders[x[1]].qty,
                                                     !.amt = x[2].margin, !.work = @ \ {x}])
      BY <1>1 DEF TryFill
    <3>2. FillPrice(x[2], ltp) \in Int \cup {NoFill}
      BY <1>0, <3>1, FillPriceType, InputsAssumption DEF Locals
    <3>3. QED
      BY <3>1, <3>2
  <2>3. CASE Return(t, loc[t].work \ {x}, loc[t].closing)
    BY <2>1, <2>3, ReturnMoves, LeaveAccept
  <2>4. CASE /\ orders[x[1]].status \in Pending
             /\ Goto(t, "fill", [loc[t] EXCEPT !.cur = x[1], !.px = price,
                                               !.qty = orders[x[1]].qty,
                                               !.amt = x[2].margin, !.work = @ \ {x}])
    <3>1. x[1] \in Orders
      BY <1>0, <2>2 DEF Locals
    <3> DEFINE l == [loc[t] EXCEPT !.cur = x[1], !.px = price, !.qty = orders[x[1]].qty,
                                   !.amt = x[2].margin, !.work = @ \ {x}]
    <3>2. l.cur = x[1] /\ Goto(t, "fill", l)
      BY <1>0, <2>4 DEF Locals
    <3>3. OnlyMoved(t) /\ pc'[t] = "fill" /\ loc'[t].cur = x[1]
      <4> HIDE DEF l
      <4>1. QED
        BY <3>2, GotoMoves
    <3>4. QED
      BY <2>1, <2>4, <3>1, <3>3, TakeAccept DEF Finishing
  <2>5. QED
    BY <2>2, <2>3, <2>4
<1>2. CASE FillCommit(t)
  <2>1. pc[t] \in Finishing /\ loc[t].cur \in Orders
    BY <1>2 DEF FillCommit, Finishing, TypeInv, ThreadsOK, Working, PCs
  <2>2. OnlyMoved(t) /\ pc'[t] \notin Placing \cup Finishing
    BY <1>2, GotoMoves DEF FillCommit, Placing, Finishing
  <2>3. \A o \in Orders \ {loc[t].cur} : orders'[o] = orders[o] /\ trades'[o] = trades[o]
    BY <1>2 DEF FillCommit, TypeInv, TablesOK
  <2>4. orders'[loc[t].cur].status = "complete"
    BY <1>2, <2>1 DEF FillCommit, TypeInv, TablesOK, Row
  <2>5. QED
    BY <2>1, <2>2, <2>3, <2>4, WriteAccept DEF Early
<1>3. ASSUME Raise(t)
      PROVE  AcceptInv'
  <2>1. SameOrders
    BY <1>3 DEF Raise, SameOrders
  <2>2. QED
    BY <1>3, <2>1, ReturnMoves, LeaveAccept DEF Raise
<1>4. CASE ApplySelect(t)
  <2>1. CASE \E l : Goto(t, "write", l) /\ UNCHANGED <<funds, tables>>
    <3>1. OnlyMoved(t) /\ SameOrders /\ pc'[t] \notin Placing \cup Finishing
      BY <2>1, GotoMoves DEF SameOrders, tables, Placing, Finishing
    <3>2. QED
      BY <3>1, LeaveAccept
  <2>2. QED
    BY <1>3, <1>4, <2>1 DEF ApplySelect
<1>5. CASE ApplyCommit(t)
  <2>1. CASE /\ UNCHANGED <<funds, orders, trades, lost>>
             /\ \/ \E l : Goto(t, "release", l)
                \/ Return(t, loc[t].work, loc[t].closing)
    <3>1. SameOrders
      BY <2>1 DEF SameOrders
    <3>2. OnlyMoved(t) /\ pc'[t] \notin Placing \cup Finishing
      BY <2>1, GotoMoves, ReturnMoves DEF Placing, Finishing
    <3>3. QED
      BY <3>1, <3>2, LeaveAccept
  <2>2. QED
    BY <1>3, <1>5, <2>1 DEF ApplyCommit
<1>6. CASE FillRelease(t)
  <2>1. SameOrders
    BY <1>6 DEF FillRelease, SameOrders, tables
  <2>2. QED
    BY <1>6, <2>1, ReturnMoves, LeaveAccept DEF FillRelease
<1>7. QED
  BY <1>1, <1>2, <1>4, <1>5, <1>6 DEF FillStep

\* Under every interleaving of any number of request and filling threads, an
\* order that has a trade was accepted: place_order's rejections come before
\* the row can be listed, and never after a fill.
THEOREM AcceptedBeforeTraded == Spec => []OnlyAcceptedOrdersTrade
<1>1. Init => AcceptInv
  BY DEF Init, AcceptInv, Placing, Finishing
<1>2. TypeInv /\ AcceptInv /\ [Next]_vars => AcceptInv'
  <2> SUFFICES ASSUME TypeInv, AcceptInv, [Next]_vars PROVE AcceptInv'
    OBVIOUS
  <2>1. ASSUME NEW e \in Engines, ListPending(e)
        PROVE  AcceptInv'
    <3>1. e \in Threads /\ SameOrders
      BY <2>1 DEF Threads, ListPending, SameOrders, tables
    <3>2. OnlyMoved(e) /\ pc'[e] \notin Placing \cup Finishing
      BY <2>1, <3>1, GotoMoves DEF ListPending, Placing, Finishing
    <3>3. QED
      BY <3>1, <3>2, LeaveAccept
  <2>2. CASE UNCHANGED vars
    BY <2>2 DEF vars, AcceptInv
  <2>3. QED
    BY <2>1, <2>2, ClientAccept, FillAccept DEF Next
<1>3. AcceptInv => OnlyAcceptedOrdersTrade
  BY DEF AcceptInv, OnlyAcceptedOrdersTrade, Early
<1>4. QED
  BY <1>1, <1>2, <1>3, TypeInvariance, PTL DEF Spec

-----------------------------------------------------------------------------
(* One thread at a time *)

\* A thread at one of these labels is past the row of its order in its list.
Handling == {"fill", "apply", "write", "release", "cancel_commit", "cancel_release"}

\* The rows still on a thread's work list are current and pending.
WorkOK(t) ==
  \A x \in loc[t].work :
    /\ orders[x[1]] = x[2] /\ x[2].status \in Pending
    /\ pc[t] # "idle"
    /\ pc[t] \in Handling => x[1] # loc[t].cur

\* The order being placed is the thread's own, with nothing else to visit.
PlacingOK(t) ==
  pc[t] \in Placing => orders[loc[t].cur].status = "placing" /\ loc[t].work = {}

\* The order about to be filled or cancelled is pending; a fill has the row's
\* margin and, for LIMIT and SL, its price.
TakenOK(t) ==
  LET r == orders[loc[t].cur]
  IN  /\ pc[t] \in {"fill", "cancel_commit"} => r.status \in Pending
      /\ pc[t] = "fill" => /\ loc[t].amt = r.margin
                           /\ r.ptype \in {"LIMIT", "SL"} => loc[t].px = r.price

\* Between the trade and the position update the order has just that trade.
AppliedOK(t) ==
  LET o == loc[t].cur
  IN  pc[t] \in {"apply", "write"} =>
        /\ orders[o].status = "complete" /\ lost[o] = <<>>
        /\ trades[o] = <<[qty |-> loc[t].qty, price |-> loc[t].px]>>

\* The position row that was read is the row of the table, and the fill is not
\* in the direction of the position.
WriteOK(t) ==
  LET r == orders[loc[t].cur]
  IN  pc[t] = "write" =>
        /\ loc[t].book = pos[r.key]
        /\ loc[t].book.net = 0 \/ Reducing(loc[t].book.net, r.action)

Steady(t) == WorkOK(t) /\ PlacingOK(t) /\ TakenOK(t) /\ AppliedOK(t) /\ WriteOK(t)

\* No thread but t is at work.
Alone(t) == \A u \in Threads \ {t} : pc[u] = "idle"

\* A trade whose position update raised is the trade of its order.
LostAreTrades == \A o \in Orders : lost[o] = <<>> \/ lost[o] = trades[o]

\* What the tables look like while threads take turns.  TradesMatchOrders is not
\* inductive: a fill must meet an order without a trade, and the price it carries
\* must still be the price on the row.
SerialInv ==
  /\ \A t, u \in Threads : (pc[t] # "idle" /\ pc[u] # "idle") => t = u
  /\ \A t \in Threads : Steady(t)
  /\ TradesMatchOrders
  /\ LostAreTrades

\* A thread that is at work, or may start, is alone.
LEMMA WorksAlone ==
  ASSUME Serial, SerialInv, NEW t \in Threads, pc[t] # "idle" \/ MayStart(t)
  PROVE  Alone(t)
BY DEF SerialInv, Alone, MayStart

\* What is left to show of a step that moves one thread.
LEMMA SerialStep ==
  ASSUME TypeInv, SerialInv, NEW t \in Threads, Alone(t), OnlyMoved(t),
         Steady(t)', TradesMatchOrders', LostAreTrades'
  PROVE  SerialInv'
<1>1. ASSUME NEW u \in Threads \ {t}
      PROVE  pc'[u] = "idle" /\ Steady(u)'
  <2>1. pc'[u] = "idle" /\ loc'[u] = loc[u] /\ pc[u] = "idle"
    BY DEF Alone, OnlyMoved
  <2>2. loc[u].work = {}
    BY <2>1 DEF SerialInv, Steady, WorkOK
  <2>3. QED
    BY <2>1, <2>2 DEF Steady, WorkOK, PlacingOK, TakenOK, AppliedOK, WriteOK, Placing
<1>2. QED
  BY <1>1 DEF SerialInv

\* A call that returns leaves its thread steady when the rest of its list is.
LEMMA ReturnSteady ==
  ASSUME TypeInv, NEW t \in Threads, NEW work, NEW closing, Return(t, work, closing),
         \A x \in work : orders'[x[1]] = x[2] /\ x[2].status \in Pending
  PROVE  OnlyMoved(t) /\ Steady(t)'
<1>1. OnlyMoved(t) /\ \/ pc'[t] \in {"cancel_loop", "fill_loop"} /\ loc'[t].work = work
                      \/ pc'[t] \in {"close_loop", "idle"} /\ loc'[t].work = {}
  BY GotoMoves DEF Return, Fresh
<1>2. QED
  BY <1>1 DEF Steady, WorkOK, PlacingOK, TakenOK, AppliedOK, WriteOK, Placing, Handling

\* Orders, trades and lost trades that stay as they are stay consistent.
LEMMA TablesStay ==
  ASSUME SerialInv, orders' = orders, trades' = trades, lost' = lost
  PROVE  TradesMatchOrders' /\ LostAreTrades'
BY DEF SerialInv, TradesMatchOrders, TradeIffComplete, LimitExecutedAtLimit, LostAreTrades

\* A row written to an order that is not complete and does not become complete.
LEMMA RowStays ==
  ASSUME TypeInv, SerialInv, NEW o \in Orders, trades' = trades, lost' = lost,
         \A p \in Orders \ {o} : orders'[p] = orders[p],
         orders[o].status # "complete", orders'[o].status # "complete"
  PROVE  TradesMatchOrders' /\ LostAreTrades'
<1>1. TradesMatchOrders /\ LostAreTrades
  BY DEF SerialInv
<1>2. TradeIffComplete'
  <2>1. ASSUME NEW p \in Orders
        PROVE  Len(trades'[p]) = IF orders'[p].status = "complete" THEN 1 ELSE 0
    <3>1. Len(trades[p]) = IF orders[p].status = "complete" THEN 1 ELSE 0
      BY <1>1 DEF TradesMatchOrders, TradeIffComplete
    <3>2. CASE p = o
      BY <3>1, <3>2
    <3>3. CASE p # o
      BY <3>1, <3>3
    <3>4. QED
      BY <3>2, <3>3
  <2>2. QED
    BY <2>1 DEF TradeIffComplete
<1>3. LimitExecutedAtLimit'
  BY <1>1 DEF TradesMatchOrders, LimitExecutedAtLimit
<1>4. LostAreTrades'
  BY <1>1 DEF LostAreTrades
<1>5. QED
  BY <1>2, <1>3, <1>4 DEF TradesMatchOrders

\* A request that takes an unused order id.
LEMMA BeginSerial ==
  ASSUME TypeInv, SerialInv, NEW c \in Threads, Alone(c), NEW o \in Orders, NEW r, NEW op,
         NEW closing, Begin(c, o, r, op, closing)
  PROVE  SerialInv'
<1>1. /\ OnlyMoved(c) /\ pc'[c] = "validate" /\ loc'[c].cur = o /\ loc'[c].work = {}
      /\ trades' = trades /\ lost' = lost
  BY GotoMoves DEF Begin, Fresh
<1>2. /\ \A p \in Orders \ {o} : orders'[p] = orders[p]
      /\ orders'[o].status = "placing" /\ orders[o].status = "unused"
  BY DEF Begin, OrderRow, TypeInv, TablesOK
<1>3. Steady(c)'
  BY <1>1, <1>2 DEF Steady, WorkOK, PlacingOK, TakenOK, AppliedOK, WriteOK
<1>4. TradesMatchOrders' /\ LostAreTrades'
  BY <1>1, <1>2, RowStays
<1>5. QED
  BY <1>1, <1>3, <1>4, SerialStep

\* A rejected order was being placed.
LEMMA RejectSerial ==
  ASSUME TypeInv, SerialInv, NEW c \in Threads, Alone(c), pc[c] \in Placing, Reject(c)
  PROVE  SerialInv'
<1>1. OnlyMoved(c) /\ Steady(c)'
  BY ReturnSteady DEF Reject
<1>2. loc[c].cur \in Orders /\ orders[loc[c].cur].status = "placing"
  BY DEF SerialInv, Steady, PlacingOK, TypeInv, ThreadsOK, Working, PCs, Placing
<1>3. /\ trades' = trades /\ lost' = lost
      /\ \A p \in Orders \ {loc[c].cur} : orders'[p] = orders[p]
      /\ orders'[loc[c].cur].status = "rejected"
  BY <1>2 DEF Reject, TypeInv, TablesOK, Row
<1>4. TradesMatchOrders' /\ LostAreTrades'
  BY <1>2, <1>3, RowStays
<1>5. QED
  BY <1>1, <1>4, SerialStep

\* A request that goes on placing its order.
LEMMA AdvanceSerial ==
  ASSUME TypeInv, SerialInv, NEW c \in Threads, Alone(c), pc[c] \in Placing,
         NEW label \in Placing, NEW l, Goto(c, label, l),
         l.cur = loc[c].cur, l.work = loc[c].work, UNCHANGED tables
  PROVE  SerialInv'
<1>1. OnlyMoved(c) /\ pc'[c] = label /\ loc'[c] = l /\ orders' = orders
  BY GotoMoves DEF tables
<1>2. orders[loc[c].cur].status = "placing" /\ loc[c].work = {}
  BY DEF SerialInv, Steady, PlacingOK
<1>3. Steady(c)'
  BY <1>1, <1>2 DEF Steady, WorkOK, PlacingOK, TakenOK, AppliedOK, WriteOK, Placing
<1>4. TradesMatchOrders' /\ LostAreTrades'
  BY TablesStay DEF tables
<1>5. QED
  BY <1>1, <1>3, <1>4, SerialStep

\* A thread that lists rows which are current and pending.
LEMMA ListSerial ==
  ASSUME TypeInv, SerialInv, NEW t \in Threads, Alone(t),
         NEW label \in {"fill_loop", "cancel_loop", "close_loop", "modify_commit"},
         NEW l, Goto(t, label, l), UNCHANGED tables,
         \A x \in l.work : orders[x[1]] = x[2] /\ x[2].status \in Pending
  PROVE  SerialInv'
<1>1. OnlyMoved(t) /\ pc'[t] = label /\ loc'[t] = l /\ orders' = orders
  BY GotoMoves DEF tables
<1>2. Steady(t)'
  BY <1>1 DEF Steady, WorkOK, PlacingOK, TakenOK, AppliedOK, WriteOK, Placing, Handling
<1>3. TradesMatchOrders' /\ LostAreTrades'
  BY TablesStay DEF tables
<1>4. QED
  BY <1>1, <1>2, <1>3, SerialStep

\* A call that returns without having written an order, a trade or a lost trade.
LEMMA LeaveSerial ==
  ASSUME TypeInv, SerialInv, NEW t \in Threads, Alone(t), NEW work, NEW closing,
         Return(t, work, closing), work \subseteq loc[t].work,
         orders' = orders, trades' = trades, lost' = lost
  PROVE  SerialInv'
<1>1. \A x \in work : orders'[x[1]] = x[2] /\ x[2].status \in Pending
  BY DEF SerialInv, Steady, WorkOK
<1>2. OnlyMoved(t) /\ Steady(t)'
  BY <1>1, ReturnSteady
<1>3. TradesMatchOrders' /\ LostAreTrades'
  BY TablesStay
<1>4. QED
  BY <1>2, <1>3, SerialStep

\* A row of a work list is a pair of an order and its row.
LEMMA WorkType ==
  ASSUME TypeInv, NEW t \in Threads
  PROVE  /\ loc[t] \in Locals
         /\ \A x \in loc[t].work : x[1] \in Orders /\ x[2] \in Row /\ x = <<x[1], x[2]>>
BY DEF TypeInv, ThreadsOK, Locals

\* Every step of a request thread keeps SerialInv.
LEMMA ClientSerial ==
  ASSUME Serial, TypeInv, SerialInv, NEW c \in Clients, ClientStep(c)
  PROVE  SerialInv'
<1>0. c \in Threads /\ loc[c] \in Locals
  BY DEF Threads, TypeInv, ThreadsOK
<1> DEFINE listed == {<<o, orders[o]>> : o \in {p \in Orders : orders[p].status \in Pending}}
<1>a. \A x \in listed : orders[x[1]] = x[2] /\ x[2].status \in Pending
  OBVIOUS
<1>b. Alone(c)
  BY <1>0, WorksAlone DEF ClientStep, PlaceOrder, PlaceSmartOrder, ClosePosition,
     CloseAllPositions, CloseNext, Validate, SizeMargin, BlockMargin, CreateOrder,
     CancelOrder, CancelAllOrders, CancelNext, CancelCommit, CancelRelease, ModifyOrder,
     ModifyCommit
<1> HIDE DEF listed
<1>1. ASSUME NEW o \in Orders, NEW r \in Requests, PlaceOrder(c, o, r)
      PROVE  SerialInv'
  BY <1>0, <1>b, <1>1, BeginSerial DEF PlaceOrder
<1>2. ASSUME NEW o \in Orders, NEW r \in Requests, NEW n \in Targets,
             PlaceSmartOrder(c, o, r, n)
      PROVE  SerialInv'
  BY <1>0, <1>b, <1>2, BeginSerial DEF PlaceSmartOrder
<1>3. ASSUME NEW o \in Orders, CloseNext(c, o)
      PROVE  SerialInv'
  BY <1>0, <1>b, <1>3, BeginSerial DEF CloseNext
<1>4. ASSUME NEW k \in Keys, ClosePosition(c, k)
      PROVE  SerialInv'
  BY <1>0, <1>b, <1>4, ListSerial DEF ClosePosition, Fresh
<1>5. CASE CloseAllPositions(c)
  <2>1. \E closing : Goto(c, "close_loop", Fresh("closeall", {}, closing)) /\ UNCHANGED tables
    BY <1>5 DEF CloseAllPositions
  <2>2. QED
    BY <1>0, <1>b, <2>1, ListSerial DEF Fresh
<1>6. CASE Validate(c)
  <2>1. pc[c] \in Placing
    BY <1>6 DEF Validate, Placing
  <2>2. CASE Reject(c)
    BY <1>0, <1>b, <2>1, <2>2, RejectSerial
  <2>3. CASE \E px : Goto(c, "size", [loc[c] EXCEPT !.px = px]) /\ UNCHANGED tables
    <3>1. PICK px : Goto(c, "size", [loc[c] EXCEPT !.px = px]) /\ UNCHANGED tables
      BY <2>3
    <3>2. /\ [loc[c] EXCEPT !.px = px].cur = loc[c].cur
          /\ [loc[c] EXCEPT !.px = px].work = loc[c].work
      BY <1>0 DEF Locals
    <3>3. "size" \in Placing
      BY DEF Placing
    <3>4. QED
      BY <1>0, <1>b, <2>1, <3>1, <3>2, <3>3, AdvanceSerial
  <2>4. QED
    BY <1>6, <2>2, <2>3 DEF Validate
<1>7. CASE SizeMargin(c)
  <2>1. PICK amt : Goto(c, "block", [loc[c] EXCEPT !.amt = amt]) /\ UNCHANGED tables
    BY <1>7 DEF SizeMargin
  <2>2. /\ [loc[c] EXCEPT !.amt = amt].cur = loc[c].cur
        /\ [loc[c] EXCEPT !.amt = amt].work = loc[c].work
    BY <1>0 DEF Locals
  <2>3. "block" \in Placing /\ pc[c] \in Placing
    BY <1>7 DEF SizeMargin, Placing
  <2>4. QED
    BY <1>0, <1>b, <2>1, <2>2, <2>3, AdvanceSerial
<1>8. CASE BlockMargin(c)
  <2>1. pc[c] \in Placing /\ "create" \in Placing
    BY <1>8 DEF BlockMargin, Placing
  <2>2. CASE Reject(c)
    BY <1>0, <1>b, <2>1, <2>2, RejectSerial
  <2>3. CASE Goto(c, "create", loc[c]) /\ UNCHANGED tables
    BY <1>0, <1>b, <2>1, <2>3, AdvanceSerial
  <2>4. QED
    BY <1>8, <2>2, <2>3 DEF BlockMargin
<1>9. CASE CreateOrder(c)
  <2> DEFINE o == loc[c].cur
             row == [orders[o] EXCEPT
                       !.status = IF orders[o].ptype \in {"SL", "SL-M"}
                                  THEN "trigger_pending" ELSE "open",
                       !.margin = loc[c].amt]
  <2>1. o \in Orders /\ orders[o] \in Row /\ orders[o].status = "placing"
    BY <1>0, <1>9 DEF CreateOrder, SerialInv, Steady, PlacingOK, Placing, TypeInv, TablesOK,
       ThreadsOK, Working, PCs
  <2>2. row.status \in Pending /\ row.status # "complete"
    BY <2>1 DEF Row, Pending
  <2>3. /\ orders' = [orders EXCEPT ![o] = row] /\ trades' = trades /\ lost' = lost
        /\ Return(c, {<<o, row>>}, loc[c].closing)
    BY <1>9 DEF CreateOrder
  <2> HIDE DEF row
  <2>4. orders'[o] = row /\ \A p \in Orders \ {o} : orders'[p] = orders[p]
    BY <2>1, <2>3 DEF TypeInv, TablesOK
  <2>5. OnlyMoved(c) /\ Steady(c)'
    BY <1>0, <2>2, <2>3, <2>4, ReturnSteady
  <2>6. TradesMatchOrders' /\ LostAreTrades'
    BY <2>1, <2>2, <2>3, <2>4, RowStays
  <2>7. QED
    BY <1>0, <1>b, <2>5, <2>6, SerialStep
<1>10. ASSUME NEW o \in Orders, CancelOrder(c, o)
       PROVE  SerialInv'
  <2>1. /\ OnlyMoved(c) /\ pc'[c] = "cancel_commit" /\ loc'[c].cur = o /\ loc'[c].work = {}
        /\ orders' = orders /\ orders[o].status \in Pending
    BY <1>0, <1>10, GotoMoves DEF CancelOrder, tables, Fresh
  <2>2. Steady(c)'
    BY <2>1 DEF Steady, WorkOK, PlacingOK, TakenOK, AppliedOK, WriteOK, Placing
  <2>3. TradesMatchOrders' /\ LostAreTrades'
    BY <1>10, TablesStay DEF CancelOrder, tables
  <2>4. QED
    BY <1>0, <1>b, <2>1, <2>2, <2>3, SerialStep
<1>11. CASE CancelAllOrders(c)
  <2>1. Goto(c, "cancel_loop", Fresh("cancelall", listed, {})) /\ UNCHANGED tables
    BY <1>11 DEF CancelAllOrders, listed
  <2>2. Fresh("cancelall", listed, {}).work = listed
    BY DEF Fresh
  <2>3. QED
    BY <1>0, <1>a, <1>b, <2>1, <2>2, ListSerial
<1>12. CASE CancelNext(c)
  <2>1. PICK x \in loc[c].work :
          \/ Return(c, loc[c].work \ {x}, {})
          \/ /\ orders[x[1]].status \in Pending
             /\ Goto(c, "cancel_commit", [loc[c] EXCEPT !.cur = x[1], !.work = @ \ {x}])
    BY <1>12 DEF CancelNext
  <2>2. orders' = orders /\ trades' = trades /\ lost' = lost
    BY <1>12 DEF CancelNext, tables
  <2>3. CASE Return(c, loc[c].work \ {x}, {})
    BY <1>0, <1>b, <2>2, <2>3, LeaveSerial
  <2>4. CASE /\ orders[x[1]].status \in Pending
             /\ Goto(c, "cancel_commit", [loc[c] EXCEPT !.cur = x[1], !.work = @ \ {x}])
    <3> DEFINE l == [loc[c] EXCEPT !.cur = x[1], !.work = @ \ {x}]
    <3>1. l.cur = x[1] /\ l.work = loc[c].work \ {x} /\ Goto(c, "cancel_commit", l)
      BY <1>0, <2>4 DEF Locals
    <3> HIDE DEF l
    <3>2. OnlyMoved(c) /\ pc'[c] = "cancel_commit" /\ loc'[c] = l
      BY <1>0, <3>1, GotoMoves
    <3>3. \A y \in loc[c].work \ {x} : /\ orders[y[1]] = y[2] /\ y[2].status \in Pending
                                     /\ y[1] # x[1]
      <4>1. \A y \in loc[c].work : orders[y[1]] = y[2] /\ y[2].status \in Pending
                                    /\ y = <<y[1], y[2]>>
        BY <1>0, WorkType DEF SerialInv, Steady, WorkOK
      <4>2. QED
        BY <4>1
    <3>4. Steady(c)'
      BY <2>2, <2>4, <3>1, <3>2, <3>3
         DEF Steady, WorkOK, PlacingOK, TakenOK, AppliedOK, WriteOK, Placing
    <3>5. TradesMatchOrders' /\ LostAreTrades'
      BY <2>2, TablesStay
    <3>6. QED
      BY <1>0, <1>b, <3>2, <3>4, <3>5, SerialStep
  <2>5. QED
    BY <2>1, <2>3, <2>4
<1>13. CASE CancelCommit(c)
  <2> DEFINE o == loc[c].cur
  <2>1. o \in Orders /\ pc[c] = "cancel_commit" /\ orders[o].status \in Pending
    BY <1>0, <1>13 DEF CancelCommit, SerialInv, Steady, TakenOK, TypeInv, ThreadsOK, Working, PCs
  <2>2. /\ trades' = trades /\ lost' = lost
        /\ \A p \in Orders \ {o} : orders'[p] = orders[p]
        /\ orders'[o].status = "cancelled"
    BY <1>13, <2>1 DEF CancelCommit, TypeInv, TablesOK, Row
  <2>3. \A x \in loc[c].work : /\ orders[x[1]] = x[2] /\ x[2].status \in Pending
                               /\ x[1] # o /\ x[1] \in Orders
    BY <1>0, <2>1, WorkType DEF SerialInv, Steady, WorkOK, Handling
  <2>4. OnlyMoved(c) /\ Steady(c)'
    <3>1. CASE Return(c, loc[c].work, {})
      BY <1>0, <2>2, <2>3, <3>1, ReturnSteady
    <3>2. CASE Goto(c, "cancel_release", [loc[c] EXCEPT !.amt = orders[o].margin])
      <4> DEFINE l == [loc[c] EXCEPT !.amt = orders[o].margin]
      <4>1. l.cur = o /\ l.work = loc[c].work /\ Goto(c, "cancel_release", l)
        BY <1>0, <3>2 DEF Locals
      <4> HIDE DEF l
      <4>2. OnlyMoved(c) /\ pc'[c] = "cancel_release" /\ loc'[c] = l
        BY <1>0, <4>1, GotoMoves
      <4>3. QED
        BY <2>2, <2>3, <4>1, <4>2
           DEF Steady, WorkOK, PlacingOK, TakenOK, AppliedOK, WriteOK, Placing
    <3>3. QED
      BY <1>13, <3>1, <3>2 DEF CancelCommit
  <2>5. TradesMatchOrders' /\ LostAreTrades'
    BY <2>1, <2>2, RowStays DEF Pending
  <2>6. QED
    BY <1>0, <1>b, <2>4, <2>5, SerialStep
<1>14. CASE CancelRelease(c)
  BY <1>0, <1>b, <1>14, LeaveSerial DEF CancelRelease, tables
<1>15. ASSUME NEW o \in Orders, ModifyOrder(c, o)
       PROVE  SerialInv'
  <2>1. Fresh("modify", {<<o, orders[o]>>}, {}).work = {<<o, orders[o]>>}
    BY DEF Fresh
  <2>2. Goto(c, "modify_commit", Fresh("modify", {<<o, orders[o]>>}, {}))
        /\ UNCHANGED tables /\ orders[o].status \in Pending
    BY <1>15 DEF ModifyOrder
  <2>3. QED
    BY <1>0, <1>b, <2>1, <2>2, ListSerial
<1>16. ASSUME NEW ch \in Changes, ModifyCommit(c, ch)
       PROVE  SerialInv'
  <2>1. PICK x \in loc[c].work :
          LET now == orders[x[1]] IN
          orders' = [orders EXCEPT ![x[1]] =
                       [now EXCEPT
                         !.qty = Written(x[2].qty, IF ch.qty # 0 THEN ch.qty ELSE x[2].qty, now.qty),
                         !.price = Written(x[2].price, ch.price, now.price),
                         !.trig = Written(x[2].trig, ch.trig, now.trig),
                         !.ptype = Written(x[2].ptype, ch.ptype, now.ptype)]]
    BY <1>16 DEF ModifyCommit
  <2>2. x[1] \in Orders /\ orders[x[1]].status \in Pending /\ orders[x[1]] \in Row
    BY <1>0, WorkType DEF SerialInv, Steady, WorkOK, TypeInv, TablesOK
  <2>3. /\ trades' = trades /\ lost' = lost
        /\ \A p \in Orders \ {x[1]} : orders'[p] = orders[p]
        /\ orders'[x[1]].status = orders[x[1]].status
    BY <1>16, <2>1, <2>2 DEF ModifyCommit, TypeInv, TablesOK, Row
  <2>4. TradesMatchOrders' /\ LostAreTrades'
    BY <2>2, <2>3, RowStays DEF Pending
  <2>5. OnlyMoved(c) /\ Steady(c)'
    BY <1>0, <1>16, ReturnSteady DEF ModifyCommit
  <2>6. QED
    BY <1>0, <1>b, <2>4, <2>5, SerialStep
<1>17. QED
  BY <1>1, <1>2, <1>3, <1>4, <1>5, <1>6, <1>7, <1>8, <1>9, <1>10, <1>11, <1>12,
     <1>13, <1>14, <1>15, <1>16 DEF ClientStep

\* A thread whose fill goes on without its order changing.
LEMMA RaiseSerial ==
  ASSUME TypeInv, SerialInv, NEW t \in Threads, Alone(t), pc[t] \in {"apply", "write"}, Raise(t)
  PROVE  SerialInv'
<1> DEFINE o == loc[t].cur
           trade == [qty |-> loc[t].qty, price |-> loc[t].px]
<1>1. /\ o \in Orders /\ lost[o] = <<>> /\ trades[o] = <<trade>> /\ trade \in Trade
      /\ lost \in [Orders -> Seq(Trade)]
  BY DEF SerialInv, Steady, AppliedOK, TypeInv, TablesOK, ThreadsOK, Working, PCs, Locals, Trade
<1>2. orders' = orders /\ trades' = trades /\ lost' = [lost EXCEPT ![o] = Append(@, trade)]
  BY DEF Raise
<1> HIDE DEF trade
<1>3. lost'[o] = trades[o] /\ \A p \in Orders \ {o} : lost'[p] = lost[p]
  BY <1>1, <1>2
<1>4. TradesMatchOrders'
  BY <1>2 DEF SerialInv, TradesMatchOrders, TradeIffComplete, LimitExecutedAtLimit
<1>5. LostAreTrades'
  BY <1>1, <1>2, <1>3 DEF SerialInv, LostAreTrades
<1>6. OnlyMoved(t) /\ Steady(t)'
  BY ReturnSteady DEF Raise
<1>7. QED
  BY <1>4, <1>5, <1>6, SerialStep

\* Every step of _try_fill_order keeps SerialInv.
LEMMA FillSerial ==
  ASSUME Serial, TypeInv, SerialInv, NEW t \in Threads, FillStep(t)
  PROVE  SerialInv'
<1>0. loc[t] \in Locals
  BY DEF TypeInv, ThreadsOK
<1>a. Alone(t)
  BY WorksAlone DEF FillStep, TryFill, FillCommit, ApplySelect, ApplyCommit, FillRelease
<1>1. CASE TryFill(t)
  <2>1. PICK x \in loc[t].work, ltp \in Ltps :
          \/ Return(t, loc[t].work \ {x}, loc[t].closing)
          \/ /\ FillPrice(x[2], ltp) # NoFill
             /\ orders[x[1]].status \in Pending
             /\ Goto(t, "fill", [loc[t] EXCEPT !.cur = x[1], !.px = FillPrice(x[2], ltp),
                                               !.qty = orders[x[1]].qty,
                                               !.amt = x[2].margin, !.work = @ \ {x}])
    BY <1>1 DEF TryFill
  <2>2. orders' = orders /\ trades' = trades /\ lost' = lost
    BY <1>1 DEF TryFill, tables
  <2>3. CASE Return(t, loc[t].work \ {x}, loc[t].closing)
    BY <1>a, <2>2, <2>3, LeaveSerial
  <2>4. CASE /\ FillPrice(x[2], ltp) # NoFill
             /\ orders[x[1]].status \in Pending
             /\ Goto(t, "fill", [loc[t] EXCEPT !.cur = x[1], !.px = FillPrice(x[2], ltp),
                                               !.qty = orders[x[1]].qty,
                                               !.amt = x[2].margin, !.work = @ \ {x}])
    <3> DEFINE l == [loc[t] EXCEPT !.cur = x[1], !.px = FillPrice(x[2], ltp),
                                   !.qty = orders[x[1]].qty,
                                   !.amt = x[2].margin, !.work = @ \ {x}]
    <3>1. /\ l.cur = x[1] /\ l.work = loc[t].work \ {x} /\ l.amt = x[2].margin
          /\ l.px = FillPrice(x[2], ltp) /\ Goto(t, "fill", l)
      BY <1>0, <2>4 DEF Locals
    <3> HIDE DEF l
    <3>2. OnlyMoved(t) /\ pc'[t] = "fill" /\ loc'[t] = l
      BY <3>1, GotoMoves
    <3>3. \A y \in loc[t].work : /\ orders[y[1]] = y[2] /\ y[2].status \in Pending
                                 /\ y = <<y[1], y[2]>> /\ y[2] \in Row
      BY WorkType DEF SerialInv, Steady, WorkOK
    <3>4. \A y \in l.work : orders[y[1]] = y[2] /\ y[2].status \in Pending /\ y[1] # x[1]
      BY <3>1, <3>3
    <3>5. x[2].ptype \in {"LIMIT", "SL"} => FillPrice(x[2], ltp) = x[2].price
      <4>1. ltp \in Nat
        BY InputsAssumption
      <4>2. QED
        BY <2>4, <4>1 DEF FillPrice
    <3>6. orders[x[1]] = x[2]
      BY <3>3
    <3>7. Steady(t)'
      BY <2>2, <2>4, <3>1, <3>2, <3>4, <3>5, <3>6
         DEF Steady, WorkOK, PlacingOK, TakenOK, AppliedOK, WriteOK, Placing
    <3>8. TradesMatchOrders' /\ LostAreTrades'
      BY <2>2, TablesStay
    <3>9. QED
      BY <1>a, <3>2, <3>7, <3>8, SerialStep
  <2>5. QED
    BY <2>1, <2>3, <2>4
<1>2. CASE FillCommit(t)
  <2> DEFINE o == loc[t].cur
             trade == [qty |-> loc[t].qty, price |-> loc[t].px]
  <2>1. /\ o \in Orders /\ orders[o].status \in Pending /\ trade \in Trade
        /\ orders[o].ptype \in {"LIMIT", "SL"} => loc[t].px = orders[o].price
    BY <1>0, <1>2 DEF FillCommit, SerialInv, Steady, TakenOK, TypeInv, ThreadsOK, Working, PCs,
       Locals, Trade
  <2>2. trades[o] = <<>> /\ lost[o] = <<>>
    <3>1. orders[o].status # "complete"
      BY <2>1 DEF Pending
    <3>2. Len(trades[o]) = 0 /\ trades[o] \in Seq(Trade)
      BY <2>1, <3>1 DEF SerialInv, TradesMatchOrders, TradeIffComplete, TypeInv, TablesOK
    <3>3. QED
      BY <2>1, <3>2 DEF SerialInv, LostAreTrades
  <2>3. /\ orders' = [orders EXCEPT ![o].status = "complete"] /\ lost' = lost
        /\ trades' = [trades EXCEPT ![o] = Append(@, trade)]
        /\ Goto(t, "apply", loc[t])
    BY <1>2 DEF FillCommit
  <2>4. /\ trades'[o] = <<trade>> /\ \A p \in Orders \ {o} : trades'[p] = trades[p]
        /\ orders'[o] = [orders[o] EXCEPT !.status = "complete"]
        /\ \A p \in Orders \ {o} : orders'[p] = orders[p]
    <3>1. /\ trades \in [Orders -> Seq(Trade)] /\ DOMAIN orders = Orders
      BY DEF TypeInv, TablesOK
    <3> HIDE DEF trade
    <3>2. trades'[o] = Append(trades[o], trade) /\ Append(<<>>, trade) = <<trade>>
      BY <2>1, <2>3, <3>1
    <3>3. trades'[o] = <<trade>>
      BY <2>2, <3>2
    <3>4. QED
      BY <2>1, <2>3, <3>1, <3>3
  <2>5. /\ orders'[o].status = "complete" /\ orders'[o].ptype = orders[o].ptype
        /\ orders'[o].price = orders[o].price
    BY <2>1, <2>4 DEF TypeInv, TablesOK, Row
  <2>6. OnlyMoved(t) /\ pc'[t] = "apply" /\ loc'[t] = loc[t]
    BY <2>3, GotoMoves
  <2>7. Steady(t)'
    <3>1. \A x \in loc[t].work : orders'[x[1]] = x[2] /\ x[2].status \in Pending /\ x[1] # o
      BY <1>2, <2>4, WorkType DEF FillCommit, SerialInv, Steady, WorkOK, Handling
    <3>2. QED
      BY <2>2, <2>3, <2>4, <2>5, <2>6, <3>1
         DEF Steady, WorkOK, PlacingOK, TakenOK, AppliedOK, WriteOK, Placing
  <2>8. LostAreTrades'
    BY <2>2, <2>3, <2>4 DEF SerialInv, LostAreTrades
  <2>9. TradesMatchOrders'
    <3>1. trade.price = loc[t].px /\ Len(<<trade>>) = 1 /\ DOMAIN <<trade>> = {1}
          /\ <<trade>>[1] = trade
      OBVIOUS
    <3> HIDE DEF trade
    <3>2. TradeIffComplete'
      BY <2>4, <2>5, <3>1 DEF SerialInv, TradesMatchOrders, TradeIffComplete
    <3>3. LimitExecutedAtLimit'
      <4>1. ASSUME NEW p \in Orders, orders'[p].status = "complete",
                   orders'[p].ptype \in {"LIMIT", "SL"}, NEW i \in DOMAIN trades'[p]
            PROVE  trades'[p][i].price = orders'[p].price
        <5>1. CASE p = o
          <6>1. i = 1 /\ trades'[p][1] = trade
            BY <2>4, <3>1, <4>1, <5>1
          <6>2. loc[t].px = orders'[p].price
            BY <2>1, <2>5, <4>1, <5>1
          <6>3. QED
            BY <3>1, <6>1, <6>2
        <5>2. CASE p # o
          BY <2>4, <4>1, <5>2 DEF SerialInv, TradesMatchOrders, LimitExecutedAtLimit
        <5>3. QED
          BY <5>1, <5>2
      <4>2. QED
        BY <4>1 DEF LimitExecutedAtLimit
    <3>4. QED
      BY <3>2, <3>3 DEF TradesMatchOrders
  <2>10. QED
    BY <1>a, <2>6, <2>7, <2>8, <2>9, SerialStep
<1>3. CASE ApplySelect(t)
  <2> DEFINE o == loc[t].cur
             book == pos[orders[o].key]
             l == [loc[t] EXCEPT !.book = book]
  <2>1. CASE Raise(t)
    BY <1>a, <1>3, <2>1, RaiseSerial DEF ApplySelect
  <2>2. CASE /\ book.net = 0 \/ Reducing(book.net, orders[o].action)
             /\ Goto(t, "write", l) /\ UNCHANGED <<funds, tables>>
    <3>1. /\ l.cur = o /\ l.work = loc[t].work /\ l.book = book
          /\ l.qty = loc[t].qty /\ l.px = loc[t].px
      BY <1>0 DEF Locals
    <3> HIDE DEF l
    <3>2. /\ OnlyMoved(t) /\ pc'[t] = "write" /\ loc'[t] = l
          /\ orders' = orders /\ trades' = trades /\ lost' = lost /\ pos' = pos
      BY <2>2, GotoMoves DEF tables
    <3>3. pc[t] = "apply"
      BY <1>3 DEF ApplySelect
    <3>4. Steady(t)'
      <4>1. /\ \A x \in loc[t].work : orders[x[1]] = x[2] /\ x[2].status \in Pending /\ x[1] # o
            /\ orders[o].status = "complete" /\ lost[o] = <<>>
            /\ trades[o] = <<[qty |-> loc[t].qty, price |-> loc[t].px]>>
        BY <3>3 DEF SerialInv, Steady, WorkOK, AppliedOK, Handling
      <4>2. QED
        BY <2>2, <3>1, <3>2, <4>1
           DEF Steady, WorkOK, PlacingOK, TakenOK, AppliedOK, WriteOK, Placing
    <3>5. TradesMatchOrders' /\ LostAreTrades'
      BY <3>2, TablesStay
    <3>6. QED
      BY <1>a, <3>2, <3>4, <3>5, SerialStep
  <2>3. QED
    BY <1>3, <2>1, <2>2 DEF ApplySelect
<1>4. CASE ApplyCommit(t)
  <2>1. CASE Raise(t)
    BY <1>a, <1>4, <2>1, RaiseSerial DEF ApplyCommit
  <2>2. CASE /\ \/ \E rel, gain : Goto(t, "release", [loc[t] EXCEPT !.amt = rel, !.gain = gain])
                \/ Return(t, loc[t].work, loc[t].closing)
             /\ UNCHANGED <<funds, orders, trades, lost>>
    <3>1. CASE Return(t, loc[t].work, loc[t].closing)
      BY <1>a, <2>2, <3>1, LeaveSerial
    <3>2. CASE \E rel, gain : Goto(t, "release", [loc[t] EXCEPT !.amt = rel, !.gain = gain])
      <4>1. PICK rel, gain : Goto(t, "release", [loc[t] EXCEPT !.amt = rel, !.gain = gain])
        BY <3>2
      <4> DEFINE l == [loc[t] EXCEPT !.amt = rel, !.gain = gain]
      <4>2. l.cur = loc[t].cur /\ l.work = loc[t].work /\ Goto(t, "release", l)
        BY <1>0, <4>1 DEF Locals
      <4> HIDE DEF l
      <4>3. OnlyMoved(t) /\ pc'[t] = "release" /\ loc'[t] = l
        BY <4>2, GotoMoves
      <4>4. \A x \in loc[t].work : /\ orders[x[1]] = x[2] /\ x[2].status \in Pending
                                   /\ x[1] # loc[t].cur
        BY <1>4 DEF ApplyCommit, SerialInv, Steady, WorkOK, Handling
      <4>5. Steady(t)'
        BY <2>2, <4>2, <4>3, <4>4
           DEF Steady, WorkOK, PlacingOK, TakenOK, AppliedOK, WriteOK, Placing
      <4>6. TradesMatchOrders' /\ LostAreTrades'
        BY <2>2, TablesStay
      <4>7. QED
        BY <1>a, <4>3, <4>5, <4>6, SerialStep
    <3>3. QED
      BY <2>2, <3>1, <3>2
  <2>3. QED
    BY <1>4, <2>1, <2>2 DEF ApplyCommit
<1>5. CASE FillRelease(t)
  BY <1>a, <1>5, LeaveSerial DEF FillRelease, tables
<1>6. QED
  BY <1>1, <1>2, <1>3, <1>4, <1>5 DEF FillStep

\* While threads take turns the tables stay consistent.
LEMMA NextSerial ==
  ASSUME Serial, TypeInv, SerialInv, [Next]_vars
  PROVE  SerialInv'
<1>1. ASSUME NEW e \in Engines, ListPending(e)
      PROVE  SerialInv'
  <2> DEFINE listed == {<<o, orders[o]>> : o \in {p \in Orders : orders[p].status \in Pending}}
  <2>1. /\ Goto(e, "fill_loop", Fresh("engine", listed, {})) /\ UNCHANGED tables
        /\ e \in Threads /\ MayStart(e)
    BY <1>1 DEF ListPending, Threads
  <2>2. \A x \in listed : orders[x[1]] = x[2] /\ x[2].status \in Pending
    OBVIOUS
  <2> HIDE DEF listed
  <2>3. Fresh("engine", listed, {}).work = listed
    BY DEF Fresh
  <2>4. QED
    BY <2>1, <2>2, <2>3, WorksAlone, ListSerial
<1>2. CASE UNCHANGED vars
  <2> USE <1>2 DEF vars
  <2>1. TradesMatchOrders' /\ LostAreTrades'
    BY TablesStay
  <2>2. \A t \in Threads : Steady(t)'
    BY DEF SerialInv, Steady, WorkOK, PlacingOK, TakenOK, AppliedOK, WriteOK
  <2>3. QED
    BY <2>1, <2>2 DEF SerialInv
<1>3. QED
  BY <1>1, <1>2, ClientSerial, FillSerial DEF Next

\* The empty book is consistent.
LEMMA InitSerial == Init => SerialInv
<1> SUFFICES ASSUME Init PROVE SerialInv
  OBVIOUS
<1>1. \A o \in Orders : /\ orders[o].status = "unused" /\ trades[o] = <<>> /\ lost[o] = <<>>
  BY DEF Init, OrderRow
<1>2. \A t \in Threads : pc[t] = "idle" /\ loc[t].work = {}
  BY DEF Init, Fresh
<1>3. \A t \in Threads : Steady(t)
  BY <1>2 DEF Steady, WorkOK, PlacingOK, TakenOK, AppliedOK, WriteOK, Placing
<1>4. QED
  BY <1>1, <1>2, <1>3
     DEF SerialInv, TradesMatchOrders, TradeIffComplete, LimitExecutedAtLimit, LostAreTrades

\* When requests and filling passes take turns, an order has a trade exactly when
\* it is complete, just one, and a LIMIT or SL order traded at the price of its
\* row, whatever sequence of operations came before (order_manager.fill).
THEOREM SerialTradesMatchOrders ==
  ASSUME Serial
  PROVE  Spec => []TradesMatchOrders
<1>1. TypeInv /\ SerialInv /\ [Next]_vars => SerialInv'
  BY NextSerial
<1>2. SerialInv => TradesMatchOrders
  BY DEF SerialInv
<1>3. QED
  BY <1>1, <1>2, InitSerial, TypeInvariance, PTL DEF Spec

-----------------------------------------------------------------------------
(* The margin that is committed *)

\* A share of a row's margin that is rounded is at most the margin.
LEMMA RoundShare ==
  ASSUME NEW m \in Nat, NEW q \in Nat, NEW n \in Nat \ {0}, q <= n
  PROVE  Round(m * q, n) <= m
<1> DEFINE a == m * q
           d == a \div n
           r == a % n
<1>1. a \in Nat /\ a <= m * n
  <2>1. m * q \in Nat /\ m * (n - q) \in Nat
    BY SMT
  <2>2. m * n = m * q + m * (n - q)
    BY SMT
  <2>3. QED
    BY <2>1, <2>2
<1> HIDE DEF a
<1>2. d \in Nat /\ r \in Nat /\ r < n /\ a = n * d + r
  BY <1>1, SMT
<1> HIDE DEF d, r
<1>3. d <= m
  <2>1. CASE d >= m + 1
    <3>1. n * d >= n * (m + 1)
      BY <1>2, <2>1, SMT
    <3>2. n * (m + 1) = m * n + n
      BY SMT
    <3>3. QED
      BY <1>1, <1>2, <3>1, <3>2
  <2>2. QED
    BY <1>2, <2>1
<1>4. d = m => r = 0
  <2>1. m * n = n * m
    BY SMT
  <2>2. QED
    BY <1>1, <1>2, <2>1, SMT
<1>5. Round(a, n) = IF 2 * r < n \/ (2 * r = n /\ d % 2 = 0) THEN d ELSE d + 1
  BY DEF Round, d, r
<1>6. Round(a, n) <= m
  BY <1>2, <1>3, <1>4, <1>5
<1>7. QED
  BY <1>6 DEF a

\* apply_fill never books and releases more margin than the position and the
\* order had.
LEMMA FilledCovered ==
  ASSUME NEW book \in PosRow, NEW a \in Actions, NEW qty \in Nat, NEW price \in Nat,
         NEW om \in Nat
  PROVE  LET f == Filled(book, a, qty, price, om)
         IN  f.margin + f.rel <= book.margin + om
<1> DEFINE net == book.net + Signed(a, qty)
           offset == Least(Abs(book.net), qty)
           prorata == IF book.margin > 0 THEN Round(book.margin * offset, Abs(book.net)) ELSE 0
           f == Filled(book, a, qty, price, om)
<1>1. /\ book.net \in Int /\ book.margin \in Nat /\ net \in Int
      /\ offset \in Nat /\ offset <= qty /\ offset <= Abs(book.net) /\ Abs(book.net) \in Nat
      /\ book.net # 0 => Abs(book.net) # 0
  BY DEF PosRow, Signed, Least, Abs
<1>2. CASE book.net = 0
  <2>1. f.margin = book.margin + om /\ f.rel = 0
    BY <1>2 DEF Filled
  <2>2. QED
    BY <1>1, <2>1
<1>3. CASE book.net # 0 /\ net = 0
  <2>1. f.margin = 0 /\ f.rel = book.margin
    BY <1>3 DEF Filled
  <2>2. QED
    BY <1>1, <2>1
<1>4. CASE book.net # 0 /\ net # 0 /\ qty > offset
  <2>1. f.margin = om /\ f.rel = book.margin
    BY <1>4 DEF Filled
  <2>2. QED
    BY <1>1, <2>1
<1>5. CASE book.net # 0 /\ net # 0 /\ qty = offset
  <2>1. prorata \in Nat /\ prorata <= book.margin
    <3>1. CASE book.margin > 0
      <4>1. Round(book.margin * offset, Abs(book.net)) <= book.margin
        BY <1>1, <1>5, RoundShare
      <4>2. book.margin * offset \in Nat
        BY <1>1, SMT
      <4>3. Round(book.margin * offset, Abs(book.net)) \in Nat
        BY <1>1, <1>5, <4>2, RoundNat
      <4>4. QED
        BY <3>1, <4>1, <4>3
    <3>2. CASE ~(book.margin > 0)
      BY <1>1, <3>2
    <3>3. QED
      BY <3>1, <3>2
  <2>2. f = [net |-> net, avg |-> book.avg,
             margin |-> IF prorata <= book.margin THEN book.margin - prorata ELSE 0,
             rel |-> prorata,
             gain |-> (IF book.net > 0 THEN price - book.avg ELSE book.avg - price) * offset]
    BY <1>1, <1>5 DEF Filled
  <2> HIDE DEF f, prorata
  <2>3. f.rel = prorata /\ f.margin = book.margin - prorata
    BY <2>1, <2>2
  <2>4. QED
    BY <1>1, <2>1, <2>3 DEF f
<1>6. QED
  BY <1>1, <1>2, <1>3, <1>4, <1>5

\* The claims are natural numbers.
LEMMA ClaimsType ==
  /\ TypeInv => /\ \A o \in Orders : OrderClaim(o) \in Nat
                /\ \A k \in Keys : pos[k].margin \in Nat
                /\ \A t \in Threads : InFlight(t) \in Nat
  /\ TypeInv' => /\ \A o \in Orders : OrderClaim(o)' \in Nat
                 /\ \A k \in Keys : pos'[k].margin \in Nat
                 /\ \A t \in Threads : InFlight(t)' \in Nat
BY DEF TypeInv, TablesOK, ThreadsOK, Row, PosRow, Locals, OrderClaim, InFlight

\* What thread t leaves of the claim of order o.
Claim(o, t) ==
  IF orders[o].status \in Pending /\ ~(pc[t] = "fill" /\ loc[t].cur = o)
  THEN orders[o].margin ELSE 0

\* While t is alone, no other thread keeps an order from claiming its margin.
LEMMA ClaimAlone ==
  ASSUME NEW t \in Threads, Alone(t), OnlyMoved(t)
  PROVE  \A o \in Orders : OrderClaim(o) = Claim(o, t) /\ OrderClaim(o)' = Claim(o, t)'
<1>1. \A u \in Threads \ {t} : pc[u] # "fill" /\ pc'[u] # "fill"
  BY DEF Alone, OnlyMoved
<1>2. QED
  BY <1>1 DEF OrderClaim, Claim

\* A step that touches one order, one position and one thread moves the committed
\* margin by what it does to these three.
LEMMA CommittedMoves ==
  ASSUME TypeInv, TypeInv', NEW t \in Threads, Alone(t), OnlyMoved(t),
         NEW o \in Orders, NEW k \in Keys,
         \A p \in Orders \ {o} : Claim(p, t)' = Claim(p, t),
         \A j \in Keys \ {k} : pos'[j] = pos[j]
  PROVE  \E rest \in Nat :
           /\ CommittedMargin = rest + Claim(o, t) + pos[k].margin + InFlight(t)
           /\ CommittedMargin' = rest + Claim(o, t)' + pos'[k].margin + InFlight(t)'
           /\ Claim(o, t) \in Nat /\ pos[k].margin \in Nat /\ InFlight(t) \in Nat
           /\ Claim(o, t)' \in Nat /\ pos'[k].margin \in Nat /\ InFlight(t)' \in Nat
<1> DEFINE oc == [p \in Orders |-> OrderClaim(p)]
           od == [p \in Orders |-> OrderClaim(p)']
           mc == [j \in Keys |-> pos[j].margin]
           md == [j \in Keys |-> pos'[j].margin]
           fc == [u \in Threads |-> InFlight(u)]
           fd == [u \in Threads |-> InFlight(u)']
<1>1. /\ oc \in [Orders -> Nat] /\ od \in [Orders -> Nat]
      /\ mc \in [Keys -> Nat] /\ md \in [Keys -> Nat]
      /\ fc \in [Threads -> Nat] /\ fd \in [Threads -> Nat]
  BY ClaimsType
<1>2. /\ CommittedMargin = SumFunction(oc) + SumFunction(mc) + SumFunction(fc)
      /\ CommittedMargin' = SumFunction(od) + SumFunction(md) + SumFunction(fd)
  BY DEF CommittedMargin
<1>3. /\ \A p \in Orders \ {o} : od[p] = oc[p]
      /\ \A j \in Keys \ {k} : md[j] = mc[j]
      /\ \A u \in Threads \ {t} : fd[u] = fc[u]
  BY ClaimAlone DEF OnlyMoved, InFlight
<1>4. /\ oc[o] = Claim(o, t) /\ od[o] = Claim(o, t)'
      /\ mc[k] = pos[k].margin /\ md[k] = pos'[k].margin
      /\ fc[t] = InFlight(t) /\ fd[t] = InFlight(t)'
  BY ClaimAlone
<1> HIDE DEF oc, od, mc, md, fc, fd
<1>5. /\ SumFunction(oc) \in Nat /\ oc[o] <= SumFunction(oc)
      /\ SumFunction(mc) \in Nat /\ mc[k] <= SumFunction(mc)
      /\ SumFunction(fc) \in Nat /\ fc[t] <= SumFunction(fc)
  BY <1>1, SumNat, FinitenessAssumption
<1>6. /\ oc \in [Orders -> Int] /\ od \in [Orders -> Int]
      /\ mc \in [Keys -> Int] /\ md \in [Keys -> Int]
      /\ fc \in [Threads -> Int] /\ fd \in [Threads -> Int]
  BY <1>1
<1>7. /\ SumFunction(od) = SumFunction(oc) - oc[o] + od[o]
      /\ SumFunction(md) = SumFunction(mc) - mc[k] + md[k]
      /\ SumFunction(fd) = SumFunction(fc) - fc[t] + fd[t]
  BY <1>3, <1>6, SumUpdate, FinitenessAssumption
<1>8. /\ oc[o] \in Nat /\ od[o] \in Nat /\ mc[k] \in Nat /\ md[k] \in Nat
      /\ fc[t] \in Nat /\ fd[t] \in Nat
  BY <1>1
<1> DEFINE rest == (SumFunction(oc) - oc[o]) + (SumFunction(mc) - mc[k]) + (SumFunction(fc) - fc[t])
<1>9. /\ rest \in Nat
      /\ CommittedMargin = rest + oc[o] + mc[k] + fc[t]
      /\ CommittedMargin' = rest + od[o] + md[k] + fd[t]
  BY <1>2, <1>5, <1>7, <1>8
<1> HIDE DEF rest
<1>10. QED
  BY <1>4, <1>8, <1>9

\* A claim in flight is part of the committed margin.
LEMMA FlightCommitted ==
  ASSUME TypeInv, NEW t \in Threads
  PROVE  CommittedMargin \in Nat /\ InFlight(t) \in Nat /\ InFlight(t) <= CommittedMargin
<1> DEFINE oc == [p \in Orders |-> OrderClaim(p)]
           mc == [j \in Keys |-> pos[j].margin]
           fc == [u \in Threads |-> InFlight(u)]
<1>1. oc \in [Orders -> Nat] /\ mc \in [Keys -> Nat] /\ fc \in [Threads -> Nat]
  BY ClaimsType
<1>2. CommittedMargin = SumFunction(oc) + SumFunction(mc) + SumFunction(fc)
  BY DEF CommittedMargin
<1>3. fc[t] = InFlight(t)
  OBVIOUS
<1> HIDE DEF oc, mc, fc
<1>4. /\ SumFunction(oc) \in Nat /\ SumFunction(mc) \in Nat /\ SumFunction(fc) \in Nat
      /\ fc[t] <= SumFunction(fc)
  BY <1>1, SumNat, FinitenessAssumption
<1>5. fc[t] \in Nat
  BY <1>1
<1>6. QED
  BY <1>2, <1>3, <1>4, <1>5

\* The funds row covers the claims, and no money appears.
Balance == CommittedMarginIsCovered /\ NoMoneyMinted

\* A step keeps the balance when it commits no more than it adds to used_margin.
LEMMA BalanceKept ==
  ASSUME TypeInv, TypeInv', Balance, NEW t \in Threads, Alone(t), OnlyMoved(t),
         NEW o \in Orders, NEW k \in Keys,
         \A p \in Orders \ {o} : Claim(p, t)' = Claim(p, t),
         \A j \in Keys \ {k} : pos'[j] = pos[j],
         Claim(o, t)' + pos'[k].margin + InFlight(t)' + used
           <= Claim(o, t) + pos[k].margin + InFlight(t) + used',
         available' + used' = available + used - realized + realized'
  PROVE  Balance'
<1>1. PICK rest \in Nat :
           /\ CommittedMargin = rest + Claim(o, t) + pos[k].margin + InFlight(t)
           /\ CommittedMargin' = rest + Claim(o, t)' + pos'[k].margin + InFlight(t)'
           /\ Claim(o, t) \in Nat /\ pos[k].margin \in Nat /\ InFlight(t) \in Nat
           /\ Claim(o, t)' \in Nat /\ pos'[k].margin \in Nat /\ InFlight(t)' \in Nat
  BY CommittedMoves
<1>2. /\ available \in Int /\ used \in Nat /\ realized \in Int
      /\ available' \in Int /\ used' \in Nat /\ realized' \in Int /\ Capital \in Nat
  BY InputsAssumption DEF TypeInv, FundsOK
<1>3. CommittedMargin <= used /\ available + used = Capital + realized
  BY DEF Balance, CommittedMarginIsCovered, NoMoneyMinted
<1>4. CommittedMargin' <= used'
  BY <1>1, <1>2, <1>3
<1>5. available' + used' = Capital + realized'
  BY <1>2, <1>3
<1>6. QED
  BY <1>4, <1>5 DEF Balance, CommittedMarginIsCovered, NoMoneyMinted

\* A step that leaves the orders, the positions, the funds and what the thread
\* has in flight keeps the balance.
LEMMA BalanceSame ==
  ASSUME TypeInv, Balance, NEW t \in Threads, Alone(t), OnlyMoved(t),
         orders' = orders, pos' = pos, UNCHANGED funds,
         pc[t] # "fill", pc'[t] # "fill", InFlight(t)' = InFlight(t)
  PROVE  Balance'
<1>1. \A o \in Orders : OrderClaim(o)' = OrderClaim(o)
  BY DEF OrderClaim, OnlyMoved
<1>2. \A u \in Threads : InFlight(u)' = InFlight(u)
  BY DEF InFlight, OnlyMoved
<1>3. CommittedMargin' = CommittedMargin
  BY <1>1, <1>2 DEF CommittedMargin
<1>4. QED
  BY <1>3 DEF Balance, CommittedMarginIsCovered, NoMoneyMinted, funds

AtLoop == {"fill_loop", "cancel_loop", "close_loop", "idle"}

\* A call that returns has nothing in flight any more.
LEMMA ReturnLands ==
  ASSUME TypeInv, NEW t \in Threads, NEW work, NEW closing, Return(t, work, closing)
  PROVE  OnlyMoved(t) /\ pc'[t] \in AtLoop /\ InFlight(t)' = 0
<1>1. OnlyMoved(t) /\ pc'[t] \in AtLoop
  BY GotoMoves DEF Return, AtLoop
<1>2. QED
  BY <1>1 DEF AtLoop, InFlight

\* A thread at one of these labels has nothing in flight.
Empty == {"idle", "validate", "size", "block", "fill_loop", "close_loop", "cancel_loop",
          "cancel_commit", "modify_commit"}

\* Going from one such label to another keeps the balance.
LEMMA BalanceEmpty ==
  ASSUME TypeInv, Balance, NEW t \in Threads, Alone(t), OnlyMoved(t),
         orders' = orders, pos' = pos, UNCHANGED funds, pc[t] \in Empty, pc'[t] \in Empty
  PROVE  Balance'
BY BalanceSame DEF Empty, InFlight

\* A row written by a thread that has nothing in flight, and claims nothing.
LEMMA BalanceRow ==
  ASSUME TypeInv, TypeInv', Balance, NEW t \in Threads, Alone(t), OnlyMoved(t),
         NEW o \in Orders, \A p \in Orders \ {o} : orders'[p] = orders[p],
         pos' = pos, UNCHANGED funds, pc[t] \in Empty, pc'[t] \in Empty,
         Claim(o, t)' = Claim(o, t)
  PROVE  Balance'
<1>1. \A p \in Orders \ {o} : Claim(p, t)' = Claim(p, t)
  BY DEF Claim, Empty
<1>2. InFlight(t) = 0 /\ InFlight(t)' = 0
  BY DEF InFlight, Empty
<1>3. orders[o].key \in Keys
  BY DEF TypeInv, TablesOK, Row
<1>4. Claim(o, t) \in Nat /\ pos[orders[o].key].margin \in Nat /\ used \in Nat
  BY <1>3 DEF TypeInv, TablesOK, FundsOK, Row, PosRow, Claim
<1>5. PICK k \in Keys : k = orders[o].key
  BY <1>3
<1>6. Claim(o, t)' + pos'[k].margin + InFlight(t)' + used
        <= Claim(o, t) + pos[k].margin + InFlight(t) + used'
  BY <1>2, <1>4, <1>5 DEF funds
<1>7. available' + used' = available + used - realized + realized'
  BY DEF TypeInv, FundsOK, funds
<1>8. QED
  BY <1>1, <1>6, <1>7, BalanceKept

\* Taking an order id claims nothing.
LEMMA BeginBalance ==
  ASSUME TypeInv, TypeInv', Balance, NEW c \in Threads, Alone(c), pc[c] \in {"idle", "close_loop"},
         NEW o \in Orders, NEW r, NEW op, NEW closing, Begin(c, o, r, op, closing)
  PROVE  Balance'
<1>1. OnlyMoved(c) /\ pc'[c] = "validate" /\ pos' = pos /\ UNCHANGED funds
  BY GotoMoves DEF Begin
<1>2. /\ \A p \in Orders \ {o} : orders'[p] = orders[p]
      /\ orders'[o].status = "placing" /\ orders[o].status = "unused"
  BY DEF Begin, OrderRow, TypeInv, TablesOK
<1>3. Claim(o, c) = 0 /\ Claim(o, c)' = 0
  BY <1>2 DEF Claim, Pending
<1>4. QED
  BY <1>1, <1>2, <1>3, BalanceRow DEF Empty

\* Rejecting an order that was being placed releases nothing, as nothing was blocked.
LEMMA RejectBalance ==
  ASSUME TypeInv, TypeInv', SerialInv, Balance, NEW c \in Threads, Alone(c),
         pc[c] \in {"validate", "block"}, Reject(c)
  PROVE  Balance'
<1>1. OnlyMoved(c) /\ pc'[c] \in AtLoop /\ pos' = pos /\ UNCHANGED funds
  BY ReturnLands DEF Reject
<1>2. PICK o \in Orders : o = loc[c].cur /\ orders[o].status = "placing"
  BY DEF SerialInv, Steady, PlacingOK, TypeInv, ThreadsOK, Working, PCs, Placing
<1>3. /\ \A p \in Orders \ {o} : orders'[p] = orders[p]
      /\ orders'[o].status = "rejected"
  BY <1>2 DEF Reject, TypeInv, TablesOK, Row
<1>4. Claim(o, c)' = 0 /\ Claim(o, c) = 0
  BY <1>2, <1>3 DEF Claim, Pending
<1>5. pc[c] \in Empty /\ pc'[c] \in Empty
  BY <1>1 DEF Empty, AtLoop
<1>6. QED
  BY <1>1, <1>2, <1>3, <1>4, <1>5, BalanceRow

\* A step that moves one thread and the funds, and no order and no position.
LEMMA BalanceFlight ==
  ASSUME TypeInv, TypeInv', Balance, NEW t \in Threads, Alone(t), OnlyMoved(t),
         NEW o \in Orders, orders' = orders, pos' = pos, pc[t] # "fill", pc'[t] # "fill",
         InFlight(t)' + used <= InFlight(t) + used',
         available' + used' = available + used - realized + realized'
  PROVE  Balance'
<1>1. \A p \in Orders : Claim(p, t)' = Claim(p, t)
  BY DEF Claim
<1>2. PICK k \in Keys : k = orders[o].key
  BY DEF TypeInv, TablesOK, Row
<1>3. /\ Claim(o, t) \in Nat /\ pos[k].margin \in Nat /\ used \in Nat /\ used' \in Nat
      /\ InFlight(t) \in Nat /\ InFlight(t)' \in Nat
  BY ClaimsType DEF TypeInv, TablesOK, FundsOK, Row, PosRow, Claim
<1>4. Claim(o, t)' = Claim(o, t) /\ pos'[k].margin = pos[k].margin
  BY <1>1
<1>5. Claim(o, t)' + pos'[k].margin + InFlight(t)' + used
        <= Claim(o, t) + pos[k].margin + InFlight(t) + used'
  BY <1>3, <1>4
<1>6. QED
  BY <1>1, <1>5, BalanceKept

\* A step that moves one thread and one order claims no more than before.
LEMMA BalanceOrder ==
  ASSUME TypeInv, TypeInv', Balance, NEW t \in Threads, Alone(t), OnlyMoved(t),
         NEW o \in Orders, \A p \in Orders \ {o} : orders'[p] = orders[p],
         pos' = pos, UNCHANGED funds,
         pc[t] = "fill" => loc[t].cur = o, pc'[t] = "fill" => loc'[t].cur = o,
         Claim(o, t)' + InFlight(t)' <= Claim(o, t) + InFlight(t)
  PROVE  Balance'
<1>1. \A p \in Orders \ {o} : Claim(p, t)' = Claim(p, t)
  BY DEF Claim
<1>2. PICK k \in Keys : k = orders[o].key
  BY DEF TypeInv, TablesOK, Row
<1>3. /\ Claim(o, t) \in Nat /\ Claim(o, t)' \in Nat /\ pos[k].margin \in Nat /\ used \in Nat
      /\ InFlight(t) \in Nat /\ InFlight(t)' \in Nat
  BY ClaimsType DEF TypeInv, TablesOK, FundsOK, Row, PosRow, Claim
<1>4. Claim(o, t)' + pos'[k].margin + InFlight(t)' + used
        <= Claim(o, t) + pos[k].margin + InFlight(t) + used'
  BY <1>3 DEF funds
<1>5. available' + used' = available + used - realized + realized'
  BY DEF TypeInv, FundsOK, funds
<1>6. QED
  BY <1>1, <1>4, <1>5, BalanceKept

\* release_margin gives back what the thread had in flight, which used_margin
\* covers: the clamp does not act.
LEMMA ReleaseBalance ==
  ASSUME TypeInv, TypeInv', Balance, NEW t \in Threads, Alone(t), loc[t].cur \in Orders,
         pc[t] \in {"release", "cancel_release"}, NEW pnl \in Int,
         ReleaseMargin(loc[t].amt, pnl), NEW work, NEW closing, Return(t, work, closing),
         UNCHANGED tables
  PROVE  Balance'
<1>1. OnlyMoved(t) /\ pc'[t] # "fill" /\ InFlight(t)' = 0
  BY ReturnLands DEF AtLoop
<1>2. InFlight(t) = loc[t].amt /\ loc[t].amt \in Nat
  BY DEF InFlight, TypeInv, ThreadsOK, Locals
<1>3. /\ used \in Nat /\ available \in Int /\ realized \in Int /\ CommittedMargin \in Nat
      /\ loc[t].amt <= CommittedMargin /\ CommittedMargin <= used
  BY <1>2, FlightCommitted DEF TypeInv, FundsOK, Balance, CommittedMarginIsCovered
<1>4. /\ used' = used - loc[t].amt
      /\ available' = available + loc[t].amt + pnl
      /\ realized' = realized + pnl
  BY <1>2, <1>3 DEF ReleaseMargin
<1>5. InFlight(t)' + used <= InFlight(t) + used'
  BY <1>1, <1>2, <1>3, <1>4
<1>6. available' + used' = available + used - realized + realized'
  BY <1>2, <1>3, <1>4
<1>7. PICK o \in Orders : o = loc[t].cur
  OBVIOUS
<1>8. QED
  BY <1>1, <1>5, <1>6, <1>7, BalanceFlight DEF tables

\* Every step of a request thread keeps the balance.
LEMMA ClientBalance ==
  ASSUME Serial, TypeInv, TypeInv', SerialInv, Balance, NEW c \in Clients, ClientStep(c)
  PROVE  Balance'
<1>0. c \in Threads /\ loc[c] \in Locals
  BY DEF Threads, TypeInv, ThreadsOK
<1>a. Alone(c)
  BY <1>0, WorksAlone DEF ClientStep, PlaceOrder, PlaceSmartOrder, ClosePosition,
     CloseAllPositions, CloseNext, Validate, SizeMargin, BlockMargin, CreateOrder,
     CancelOrder, CancelAllOrders, CancelNext, CancelCommit, CancelRelease, ModifyOrder,
     ModifyCommit
<1>b. ASSUME NEW label \in Empty, NEW l, Goto(c, label, l), UNCHANGED <<funds, tables>>,
             pc[c] \in Empty
      PROVE  Balance'
  <2>1. OnlyMoved(c) /\ pc'[c] = label
    BY <1>0, <1>b, GotoMoves
  <2>2. QED
    BY <1>0, <1>a, <1>b, <2>1, BalanceEmpty DEF tables
<1>c. ASSUME NEW work, NEW closing, Return(c, work, closing), UNCHANGED <<funds, tables>>,
             pc[c] \in Empty
      PROVE  Balance'
  <2>1. OnlyMoved(c) /\ pc'[c] \in Empty
    BY <1>0, <1>c, ReturnLands DEF AtLoop, Empty
  <2>2. QED
    BY <1>0, <1>a, <1>c, <2>1, BalanceEmpty DEF tables
<1>d. pc[c] = "idle" => pc[c] \in Empty
  BY DEF Empty
<1>1. ASSUME NEW o \in Orders, NEW r \in Requests, PlaceOrder(c, o, r)
      PROVE  Balance'
  BY <1>0, <1>a, <1>1, BeginBalance DEF PlaceOrder, MayStart
<1>2. ASSUME NEW o \in Orders, NEW r \in Requests, NEW n \in Targets,
             PlaceSmartOrder(c, o, r, n)
      PROVE  Balance'
  BY <1>0, <1>a, <1>2, BeginBalance DEF PlaceSmartOrder, MayStart
<1>3. ASSUME NEW o \in Orders, CloseNext(c, o)
      PROVE  Balance'
  BY <1>0, <1>a, <1>3, BeginBalance DEF CloseNext
<1>4. ASSUME NEW k \in Keys, ClosePosition(c, k)
      PROVE  Balance'
  BY <1>b, <1>d, <1>4 DEF ClosePosition, MayStart, Empty
<1>5. CASE CloseAllPositions(c)
  BY <1>b, <1>d, <1>5 DEF CloseAllPositions, MayStart, Empty
<1>6. CASE Validate(c)
  <2>1. CASE Reject(c)
    BY <1>0, <1>a, <1>6, <2>1, RejectBalance DEF Validate
  <2>2. CASE \E l : Goto(c, "size", l) /\ UNCHANGED <<funds, tables>>
    BY <1>b, <1>6, <2>2 DEF Validate, Empty
  <2>3. QED
    BY <1>6, <2>1, <2>2 DEF Validate
<1>7. CASE SizeMargin(c)
  BY <1>b, <1>7 DEF SizeMargin, Empty
<1>8. CASE BlockMargin(c)
  <2>1. PICK o \in Orders : o = loc[c].cur
    BY <1>0, <1>8 DEF BlockMargin, TypeInv, ThreadsOK, Working, PCs
  <2>2. CASE Reject(c)
    BY <1>0, <1>a, <1>8, <2>2, RejectBalance DEF BlockMargin
  <2>3. CASE /\ available' = available - loc[c].amt /\ used' = used + loc[c].amt
             /\ Goto(c, "create", loc[c]) /\ UNCHANGED <<realized, tables>>
    <3>1. OnlyMoved(c) /\ pc'[c] = "create" /\ loc'[c] = loc[c]
      BY <1>0, <2>3, GotoMoves
    <3>2. InFlight(c) = 0 /\ InFlight(c)' = loc[c].amt /\ loc[c].amt \in Nat
      BY <1>0, <1>8, <3>1 DEF BlockMargin, InFlight, Locals
    <3>3. used \in Nat /\ available \in Int /\ realized \in Int /\ realized' = realized
      BY <2>3 DEF TypeInv, FundsOK
    <3>4. InFlight(c)' + used <= InFlight(c) + used'
      BY <2>3, <3>2, <3>3
    <3>5. available' + used' = available + used - realized + realized'
      BY <2>3, <3>2, <3>3
    <3>6. pc[c] # "fill" /\ pc'[c] # "fill" /\ orders' = orders /\ pos' = pos
      BY <1>8, <2>3, <3>1 DEF BlockMargin, tables
    <3>7. QED
      BY <1>0, <1>a, <3>1, <3>4, <3>5, <3>6, BalanceFlight
  <2>4. QED
    BY <1>8, <2>2, <2>3 DEF BlockMargin
<1>9. CASE CreateOrder(c)
  <2>1. PICK o \in Orders : o = loc[c].cur /\ orders[o].status = "placing"
    BY <1>0, <1>9 DEF CreateOrder, SerialInv, Steady, PlacingOK, Placing, TypeInv,
       ThreadsOK, Working, PCs
  <2>2. /\ \A p \in Orders \ {o} : orders'[p] = orders[p]
        /\ orders'[o].margin = loc[c].amt /\ pos' = pos /\ UNCHANGED funds
    BY <1>9, <2>1 DEF CreateOrder, TypeInv, TablesOK, Row
  <2>3. OnlyMoved(c) /\ pc'[c] # "fill" /\ InFlight(c)' = 0
    BY <1>0, <1>9, ReturnLands DEF CreateOrder, AtLoop
  <2>4. loc[c].amt \in Nat /\ pc[c] = "create"
    BY <1>0, <1>9 DEF CreateOrder, Locals
  <2>5. InFlight(c) = loc[c].amt /\ Claim(o, c) = 0 /\ Claim(o, c)' <= loc[c].amt
    BY <2>1, <2>2, <2>4 DEF InFlight, Claim, Pending
  <2>6. Claim(o, c)' \in Nat
    BY <2>2, <2>4 DEF Claim
  <2>7. Claim(o, c)' + InFlight(c)' <= Claim(o, c) + InFlight(c)
    BY <2>3, <2>4, <2>5, <2>6
  <2>8. QED
    BY <1>0, <1>a, <2>2, <2>3, <2>4, <2>7, BalanceOrder
<1>10. ASSUME NEW o \in Orders, CancelOrder(c, o)
       PROVE  Balance'
  BY <1>b, <1>d, <1>10 DEF CancelOrder, MayStart, Empty
<1>11. CASE CancelAllOrders(c)
  BY <1>b, <1>d, <1>11 DEF CancelAllOrders, MayStart, Empty
<1>12. CASE CancelNext(c)
  BY <1>b, <1>c, <1>12 DEF CancelNext, Empty
<1>13. CASE CancelCommit(c)
  <2>1. PICK o \in Orders : o = loc[c].cur /\ orders[o].status \in Pending
    BY <1>0, <1>13 DEF CancelCommit, SerialInv, Steady, TakenOK, TypeInv, ThreadsOK,
       Working, PCs
  <2>2. /\ \A p \in Orders \ {o} : orders'[p] = orders[p]
        /\ orders'[o].status = "cancelled" /\ pos' = pos /\ UNCHANGED funds
        /\ pc[c] = "cancel_commit" /\ orders[o].margin \in Nat
    BY <1>13, <2>1 DEF CancelCommit, TypeInv, TablesOK, Row
  <2>3. Claim(o, c) = orders[o].margin /\ InFlight(c) = 0 /\ Claim(o, c)' = 0
    BY <2>1, <2>2 DEF Claim, InFlight, Pending
  <2>4. OnlyMoved(c) /\ pc'[c] # "fill" /\ InFlight(c)' <= orders[o].margin
    <3>1. CASE Return(c, loc[c].work, {})
      BY <1>0, <2>2, <3>1, ReturnLands DEF AtLoop
    <3>2. CASE Goto(c, "cancel_release", [loc[c] EXCEPT !.amt = orders[o].margin])
      <4>1. [loc[c] EXCEPT !.amt = orders[o].margin].amt = orders[o].margin
        BY <1>0 DEF Locals
      <4>2. /\ OnlyMoved(c) /\ pc'[c] = "cancel_release"
            /\ loc'[c] = [loc[c] EXCEPT !.amt = orders[o].margin]
        BY <1>0, <3>2, GotoMoves
      <4>3. InFlight(c)' = orders[o].margin
        BY <4>1, <4>2 DEF InFlight
      <4>4. QED
        BY <2>2, <4>2, <4>3
    <3>3. QED
      BY <1>13, <2>1, <3>1, <3>2 DEF CancelCommit
  <2>5. InFlight(c)' \in Nat
    BY <1>0, ClaimsType
  <2>6. Claim(o, c)' + InFlight(c)' <= Claim(o, c) + InFlight(c)
    BY <2>2, <2>3, <2>4, <2>5
  <2>7. QED
    BY <1>0, <1>a, <2>2, <2>4, <2>6, BalanceOrder
<1>14. CASE CancelRelease(c)
  <2>1. loc[c].cur \in Orders /\ pc[c] = "cancel_release"
    BY <1>0, <1>14 DEF CancelRelease, TypeInv, ThreadsOK, Working, PCs
  <2>2. QED
    BY <1>0, <1>a, <1>14, <2>1, ReleaseBalance DEF CancelRelease
<1>15. ASSUME NEW o \in Orders, ModifyOrder(c, o)
       PROVE  Balance'
  BY <1>b, <1>d, <1>15 DEF ModifyOrder, MayStart, Empty
<1>16. ASSUME NEW ch \in Changes, ModifyCommit(c, ch)
       PROVE  Balance'
  <2>1. PICK x \in loc[c].work :
          LET now == orders[x[1]] IN
          orders' = [orders EXCEPT ![x[1]] =
                       [now EXCEPT
                         !.qty = Written(x[2].qty, IF ch.qty # 0 THEN ch.qty ELSE x[2].qty, now.qty),
                         !.price = Written(x[2].price, ch.price, now.price),
                         !.trig = Written(x[2].trig, ch.trig, now.trig),
                         !.ptype = Written(x[2].ptype, ch.ptype, now.ptype)]]
    BY <1>16 DEF ModifyCommit
  <2>2. PICK o \in Orders : o = x[1]
    BY <1>0, WorkType
  <2>3. /\ \A p \in Orders \ {o} : orders'[p] = orders[p]
        /\ orders'[o].status = orders[o].status /\ orders'[o].margin = orders[o].margin
        /\ pos' = pos /\ UNCHANGED funds /\ pc[c] = "modify_commit"
    BY <1>16, <2>1, <2>2 DEF ModifyCommit, TypeInv, TablesOK, Row
  <2>4. OnlyMoved(c) /\ pc'[c] \in AtLoop
    BY <1>0, <1>16, ReturnLands DEF ModifyCommit
  <2>5. Claim(o, c)' = Claim(o, c) /\ pc[c] \in Empty /\ pc'[c] \in Empty
    BY <2>3, <2>4 DEF Claim, AtLoop, Empty
  <2>6. QED
    BY <1>0, <1>a, <2>3, <2>4, <2>5, BalanceRow
<1>17. QED
  BY <1>1, <1>2, <1>3, <1>4, <1>5, <1>6, <1>7, <1>8, <1>9, <1>10, <1>11, <1>12,
     <1>13, <1>14, <1>15, <1>16 DEF ClientStep

\* An exception drops what the fill had in flight.
LEMMA RaiseBalance ==
  ASSUME TypeInv, TypeInv', Balance, NEW t \in Threads, Alone(t),
         pc[t] \in {"apply", "write"}, Raise(t)
  PROVE  Balance'
<1>1. PICK o \in Orders : o = loc[t].cur
  BY DEF TypeInv, ThreadsOK, Working, PCs
<1>2. OnlyMoved(t) /\ pc'[t] # "fill" /\ InFlight(t)' = 0
  BY ReturnLands DEF Raise, AtLoop
<1>3. orders' = orders /\ pos' = pos /\ UNCHANGED funds /\ pc[t] # "fill"
  BY DEF Raise
<1>4. /\ used' = used /\ available' = available /\ realized' = realized
      /\ used \in Nat /\ available \in Int /\ realized \in Int
      /\ InFlight(t) \in Nat
  BY <1>3, ClaimsType DEF TypeInv, FundsOK, funds
<1>5. InFlight(t)' + used <= InFlight(t) + used'
  BY <1>2, <1>4
<1>6. available' + used' = available + used - realized + realized'
  BY <1>4
<1>7. QED
  BY <1>2, <1>3, <1>5, <1>6, BalanceFlight

\* The position update moves the order's margin onto the position and takes out
\* what it is about to release.
LEMMA ApplyBalance ==
  ASSUME TypeInv, TypeInv', SerialInv, Balance, NEW t \in Threads, Alone(t),
         ApplyCommit(t), ~Raise(t)
  PROVE  Balance'
<1>1. PICK o \in Orders : o = loc[t].cur
  BY DEF ApplyCommit, TypeInv, ThreadsOK, Working, PCs
<1>2. PICK k \in Keys : k = orders[o].key
  BY DEF TypeInv, TablesOK, Row
<1> DEFINE f == Filled(pos[k], orders[o].action, loc[t].qty, loc[t].px, loc[t].amt)
<1>3. loc[t].book = pos[k]
  BY <1>1, <1>2 DEF ApplyCommit, SerialInv, Steady, WriteOK
<1>4. /\ pos[k] \in PosRow /\ orders[o].action \in Actions /\ loc[t].qty \in Nat
      /\ loc[t].px \in Nat /\ loc[t].amt \in Nat /\ loc[t] \in Locals
      /\ DOMAIN pos = Keys
  BY DEF TypeInv, TablesOK, ThreadsOK, Row, Locals
<1>5. /\ f \in [net : Int, avg : Nat, margin : Nat, rel : Nat, gain : Int]
      /\ f.margin + f.rel <= pos[k].margin + loc[t].amt
  BY <1>4, FilledType, FilledCovered
<1>6. /\ pos' = [pos EXCEPT ![k] =
              [exists |-> TRUE, net |-> f.net,
               avg |-> Written(pos[k].avg, f.avg, pos[k].avg),
               margin |-> Written(pos[k].margin, f.margin, pos[k].margin)]]
      /\ IF f.rel > 0 \/ f.gain # 0
         THEN Goto(t, "release", [loc[t] EXCEPT !.amt = f.rel, !.gain = f.gain])
         ELSE Return(t, loc[t].work, loc[t].closing)
      /\ UNCHANGED <<funds, orders, trades, lost>> /\ pc[t] = "write"
  BY <1>1, <1>2, <1>3 DEF ApplyCommit
<1> HIDE DEF f
<1>7. pos'[k].margin = f.margin /\ \A j \in Keys \ {k} : pos'[j] = pos[j]
  BY <1>4, <1>6 DEF Written
<1>8. OnlyMoved(t) /\ pc'[t] # "fill" /\ InFlight(t)' <= f.rel
  <2>1. CASE Return(t, loc[t].work, loc[t].closing)
    BY <1>5, <2>1, ReturnLands DEF AtLoop
  <2>2. CASE Goto(t, "release", [loc[t] EXCEPT !.amt = f.rel, !.gain = f.gain])
    <3>1. [loc[t] EXCEPT !.amt = f.rel, !.gain = f.gain].amt = f.rel
      BY <1>4 DEF Locals
    <3>2. /\ OnlyMoved(t) /\ pc'[t] = "release"
          /\ loc'[t] = [loc[t] EXCEPT !.amt = f.rel, !.gain = f.gain]
      BY <2>2, GotoMoves
    <3>3. InFlight(t)' = f.rel
      BY <3>1, <3>2 DEF InFlight
    <3>4. QED
      BY <1>5, <3>2, <3>3
  <2>3. QED
    BY <1>6, <2>1, <2>2
<1>9. InFlight(t) = loc[t].amt /\ \A p \in Orders : Claim(p, t)' = Claim(p, t)
  BY <1>6, <1>8 DEF InFlight, Claim
<1>10. /\ Claim(o, t) \in Nat /\ pos[k].margin \in Nat /\ InFlight(t)' \in Nat
       /\ used \in Nat /\ used' = used
       /\ Claim(o, t)' = Claim(o, t) /\ f.margin \in Nat /\ f.rel \in Nat
  BY <1>5, <1>6, <1>9, ClaimsType DEF TypeInv, TablesOK, FundsOK, Row, PosRow, Claim, funds
<1>11. Claim(o, t)' + pos'[k].margin + InFlight(t)' + used
         <= Claim(o, t) + pos[k].margin + InFlight(t) + used'
  BY <1>4, <1>5, <1>7, <1>8, <1>9, <1>10
<1>12. available' + used' = available + used - realized + realized'
  BY <1>6 DEF TypeInv, FundsOK, funds
<1>13. QED
  BY <1>7, <1>8, <1>9, <1>11, <1>12, BalanceKept

\* Every step of _try_fill_order keeps the balance.
LEMMA FillBalance ==
  ASSUME Serial, TypeInv, TypeInv', SerialInv, Balance, NEW t \in Threads, FillStep(t)
  PROVE  Balance'
<1>0. loc[t] \in Locals
  BY DEF TypeInv, ThreadsOK
<1>a. Alone(t)
  BY WorksAlone DEF FillStep, TryFill, FillCommit, ApplySelect, ApplyCommit, FillRelease
<1>1. CASE TryFill(t)
  <2>1. PICK x \in loc[t].work, ltp \in Ltps :
          \/ Return(t, loc[t].work \ {x}, loc[t].closing)
          \/ Goto(t, "fill", [loc[t] EXCEPT !.cur = x[1], !.px = FillPrice(x[2], ltp),
                                            !.qty = orders[x[1]].qty,
                                            !.amt = x[2].margin, !.work = @ \ {x}])
    BY <1>1 DEF TryFill
  <2>2. /\ orders' = orders /\ pos' = pos /\ UNCHANGED funds /\ pc[t] = "fill_loop"
    BY <1>1 DEF TryFill, tables
  <2>3. CASE Return(t, loc[t].work \ {x}, loc[t].closing)
    <3>1. OnlyMoved(t) /\ pc'[t] \in Empty /\ pc[t] \in Empty
      BY <2>2, <2>3, ReturnLands DEF AtLoop, Empty
    <3>2. QED
      BY <1>a, <2>2, <3>1, BalanceEmpty
  <2>4. CASE Goto(t, "fill", [loc[t] EXCEPT !.cur = x[1], !.px = FillPrice(x[2], ltp),
                                            !.qty = orders[x[1]].qty,
                                            !.amt = x[2].margin, !.work = @ \ {x}])
    <3> DEFINE l == [loc[t] EXCEPT !.cur = x[1], !.px = FillPrice(x[2], ltp),
                                   !.qty = orders[x[1]].qty,
                                   !.amt = x[2].margin, !.work = @ \ {x}]
    <3>1. l.cur = x[1] /\ l.amt = x[2].margin /\ Goto(t, "fill", l)
      BY <1>0, <2>4 DEF Locals
    <3> HIDE DEF l
    <3>2. OnlyMoved(t) /\ pc'[t] = "fill" /\ loc'[t] = l
      BY <3>1, GotoMoves
    <3>3. PICK o \in Orders : o = x[1]
      BY WorkType
    <3>4. orders[o] = x[2] /\ orders[o].status \in Pending /\ orders[o].margin \in Nat
      BY <3>3 DEF SerialInv, Steady, WorkOK, TypeInv, TablesOK, Row
    <3>5. /\ Claim(o, t) = orders[o].margin /\ Claim(o, t)' = 0
          /\ InFlight(t) = 0 /\ InFlight(t)' = orders[o].margin
      BY <2>2, <3>1, <3>2, <3>3, <3>4 DEF Claim, InFlight
    <3>6. Claim(o, t)' + InFlight(t)' <= Claim(o, t) + InFlight(t)
      BY <3>4, <3>5
    <3>7. pc[t] # "fill" /\ (pc'[t] = "fill" => loc'[t].cur = o)
      BY <2>2, <3>1, <3>2, <3>3
    <3>8. QED
      BY <1>a, <2>2, <3>2, <3>6, <3>7, BalanceOrder
  <2>5. QED
    BY <2>1, <2>3, <2>4
<1>2. CASE FillCommit(t)
  <2>1. PICK o \in Orders : o = loc[t].cur
    BY <1>2 DEF FillCommit, TypeInv, ThreadsOK, Working, PCs
  <2>2. /\ \A p \in Orders \ {o} : orders'[p] = orders[p]
        /\ orders'[o].status = "complete" /\ pos' = pos /\ UNCHANGED funds
        /\ pc[t] = "fill"
    BY <1>2, <2>1 DEF FillCommit, TypeInv, TablesOK, Row
  <2>3. OnlyMoved(t) /\ pc'[t] = "apply" /\ loc'[t] = loc[t]
    BY <1>2, GotoMoves DEF FillCommit
  <2>4. /\ Claim(o, t) = 0 /\ Claim(o, t)' = 0
        /\ InFlight(t) = loc[t].amt /\ InFlight(t)' = loc[t].amt /\ loc[t].amt \in Nat
    BY <1>0, <2>1, <2>2, <2>3 DEF Claim, InFlight, Pending, Locals
  <2>5. Claim(o, t)' + InFlight(t)' <= Claim(o, t) + InFlight(t)
    BY <2>4
  <2>6. QED
    BY <1>a, <2>1, <2>2, <2>3, <2>5, BalanceOrder
<1>3. CASE ApplySelect(t)
  <2>1. CASE Raise(t)
    BY <1>a, <1>3, <2>1, RaiseBalance DEF ApplySelect
  <2>2. CASE \E book : Goto(t, "write", [loc[t] EXCEPT !.book = book])
                       /\ UNCHANGED <<funds, tables>>
    <3>1. PICK book : Goto(t, "write", [loc[t] EXCEPT !.book = book])
                      /\ UNCHANGED <<funds, tables>>
      BY <2>2
    <3>2. [loc[t] EXCEPT !.book = book].amt = loc[t].amt
      BY <1>0 DEF Locals
    <3>3. /\ OnlyMoved(t) /\ pc'[t] = "write"
          /\ loc'[t] = [loc[t] EXCEPT !.book = book]
      BY <3>1, GotoMoves
    <3>4. InFlight(t)' = InFlight(t) /\ pc[t] = "apply"
      BY <1>3, <3>2, <3>3 DEF ApplySelect, InFlight
    <3>5. QED
      BY <1>a, <3>1, <3>3, <3>4, BalanceSame DEF tables
  <2>3. QED
    BY <1>3, <2>1, <2>2 DEF ApplySelect
<1>4. CASE ApplyCommit(t)
  <2>1. CASE Raise(t)
    BY <1>a, <1>4, <2>1, RaiseBalance DEF ApplyCommit
  <2>2. QED
    BY <1>a, <1>4, <2>1, ApplyBalance
<1>5. CASE FillRelease(t)
  <2>1. loc[t].cur \in Orders /\ pc[t] = "release" /\ loc[t].gain \in Int
    BY <1>0, <1>5 DEF FillRelease, TypeInv, ThreadsOK, Working, PCs, Locals
  <2>2. QED
    BY <1>a, <1>5, <2>1, ReleaseBalance DEF FillRelease
<1>6. QED
  BY <1>1, <1>2, <1>3, <1>4, <1>5 DEF FillStep

\* While threads take turns the funds row covers every claim on it.
LEMMA NextBalance ==
  ASSUME Serial, TypeInv, TypeInv', SerialInv, Balance, [Next]_vars
  PROVE  Balance'
<1>1. ASSUME NEW e \in Engines, ListPending(e)
      PROVE  Balance'
  <2>1. /\ e \in Threads /\ MayStart(e) /\ UNCHANGED <<funds, tables>>
        /\ \E l : Goto(e, "fill_loop", l)
    BY <1>1 DEF ListPending, Threads
  <2>2. /\ Alone(e) /\ OnlyMoved(e) /\ pc[e] \in Empty /\ pc'[e] \in Empty
    BY <2>1, WorksAlone, GotoMoves DEF MayStart, Empty
  <2>3. QED
    BY <2>1, <2>2, BalanceEmpty DEF tables
<1>2. CASE UNCHANGED vars
  <2>1. CommittedMargin' = CommittedMargin
    BY <1>2 DEF vars, CommittedMargin, OrderClaim, InFlight
  <2>2. QED
    BY <1>2, <2>1 DEF vars, Balance, CommittedMarginIsCovered, NoMoneyMinted
<1>3. QED
  BY <1>1, <1>2, ClientBalance, FillBalance DEF Next

\* Nothing is committed by an empty book.
LEMMA InitBalance == Init => Balance
<1> SUFFICES ASSUME Init PROVE Balance
  OBVIOUS
<1> DEFINE oc == [o \in Orders |-> OrderClaim(o)]
           mc == [k \in Keys |-> pos[k].margin]
           fc == [t \in Threads |-> InFlight(t)]
<1>1. /\ \A o \in Orders : oc[o] = 0
      /\ \A k \in Keys : mc[k] = 0
      /\ \A t \in Threads : fc[t] = 0
  BY DEF Init, OrderClaim, InFlight, OrderRow, NoPosition, Pending
<1>2. oc \in [Orders -> Int] /\ mc \in [Keys -> Int] /\ fc \in [Threads -> Int]
  BY <1>1
<1>3. CommittedMargin = SumFunction(oc) + SumFunction(mc) + SumFunction(fc)
  BY DEF CommittedMargin
<1> HIDE DEF oc, mc, fc
<1>4. SumFunction(oc) = 0 /\ SumFunction(mc) = 0 /\ SumFunction(fc) = 0
  BY <1>1, <1>2, SumZero, FinitenessAssumption
<1>5. CommittedMargin = 0
  BY <1>3, <1>4
<1>6. QED
  BY <1>5, InputsAssumption DEF Init, Balance, CommittedMarginIsCovered, NoMoneyMinted

\* When requests and filling passes take turns, used_margin covers the margin of
\* every pending order, every position and every release under way, so the clamp
\* in release_margin never acts (fund_manager.py).
THEOREM SerialMarginIsCovered ==
  ASSUME Serial
  PROVE  Spec => []CommittedMarginIsCovered
<1>1. TypeInv /\ TypeInv' /\ SerialInv /\ Balance /\ [Next]_vars => Balance'
  BY NextBalance
<1>2. TypeInv /\ SerialInv /\ [Next]_vars => SerialInv'
  BY NextSerial
<1>3. Balance => CommittedMarginIsCovered
  BY DEF Balance
<1>4. QED
  BY <1>1, <1>2, <1>3, InitSerial, InitBalance, TypeInvariance, PTL DEF Spec

\* ... and cash and margin always add up to the starting capital and the booked
\* PnL: no margin is released twice.
THEOREM SerialMintsNothing ==
  ASSUME Serial
  PROVE  Spec => []NoMoneyMinted
<1>1. TypeInv /\ TypeInv' /\ SerialInv /\ Balance /\ [Next]_vars => Balance'
  BY NextBalance
<1>2. TypeInv /\ SerialInv /\ [Next]_vars => SerialInv'
  BY NextSerial
<1>3. Balance => NoMoneyMinted
  BY DEF Balance
<1>4. QED
  BY <1>1, <1>2, <1>3, InitSerial, InitBalance, TypeInvariance, PTL DEF Spec

-----------------------------------------------------------------------------
(* The net quantity of the trades *)

\* What the trades of one order, and of all orders of a key, add up to, for given
\* rows and trades.
TradedIn(rows, book, o) ==
  SumFunction([i \in DOMAIN book[o] |-> Signed(rows[o].action, book[o][i].qty)])
NetIn(rows, book, k) ==
  SumFunction([o \in Orders |-> IF rows[o].key = k THEN TradedIn(rows, book, o) ELSE 0])

\* The trades of an order add up to an integer.
LEMMA TradedInt ==
  ASSUME NEW rows \in [Orders -> Row], NEW book \in [Orders -> Seq(Trade)], NEW o \in Orders
  PROVE  TradedIn(rows, book, o) \in Int
<1> DEFINE s == book[o]
           g == [i \in DOMAIN s |-> Signed(rows[o].action, s[i].qty)]
<1>1. s \in Seq(Trade) /\ DOMAIN s = 1..Len(s) /\ Len(s) \in Nat
  OBVIOUS
<1>2. IsFiniteSet(DOMAIN s)
  BY <1>1, FS_Interval
<1>3. g \in [DOMAIN s -> Int]
  <2>1. \A i \in DOMAIN s : s[i] \in Trade
    BY <1>1
  <2> HIDE DEF s
  <2>2. \A i \in DOMAIN s : Signed(rows[o].action, s[i].qty) \in Int
    BY <2>1 DEF Trade, Signed
  <2>3. QED
    BY <2>2
<1>4. TradedIn(rows, book, o) = SumFunction(g)
  BY DEF TradedIn
<1> HIDE DEF g, s
<1>5. QED
  BY <1>2, <1>3, <1>4, SumInt

\* An order without trades adds nothing.
LEMMA TradedNothing ==
  ASSUME NEW rows, NEW book, NEW o, book[o] = <<>>
  PROVE  TradedIn(rows, book, o) = 0
<1> DEFINE g == [i \in DOMAIN book[o] |-> Signed(rows[o].action, book[o][i].qty)]
<1>1. DOMAIN g = {}
  OBVIOUS
<1>2. TradedIn(rows, book, o) = SumFunction(g)
  BY DEF TradedIn
<1> HIDE DEF g
<1>3. QED
  BY <1>1, <1>2, SumEmpty

\* An order with one trade adds its quantity.
LEMMA TradedOnce ==
  ASSUME NEW rows \in [Orders -> Row], NEW book, NEW o \in Orders,
         NEW q \in Nat, NEW p \in Nat, book[o] = <<[qty |-> q, price |-> p]>>
  PROVE  TradedIn(rows, book, o) = Signed(rows[o].action, q)
<1> DEFINE g == [i \in DOMAIN book[o] |-> Signed(rows[o].action, book[o][i].qty)]
<1>1. DOMAIN book[o] = {1} /\ book[o][1].qty = q
  OBVIOUS
<1>2. Signed(rows[o].action, q) \in Int
  BY DEF Signed
<1>3. g = [i \in {1} |-> Signed(rows[o].action, q)]
  BY <1>1
<1>4. TradedIn(rows, book, o) = SumFunction(g)
  BY DEF TradedIn
<1>5. g \in [{1} -> Int] /\ g[1] = Signed(rows[o].action, q) /\ \A i \in {1} \ {1} : g[i] = 0
  BY <1>2, <1>3
<1>6. IsFiniteSet({1})
  BY FS_Singleton
<1> HIDE DEF g
<1>7. SumFunction(g) = g[1]
  BY <1>5, <1>6, SumSingle
<1>8. QED
  BY <1>4, <1>5, <1>7

\* The trades of a key add up to an integer.
LEMMA NetInt ==
  ASSUME NEW rows \in [Orders -> Row], NEW book \in [Orders -> Seq(Trade)], NEW k
  PROVE  NetIn(rows, book, k) \in Int
<1> DEFINE h == [o \in Orders |-> IF rows[o].key = k THEN TradedIn(rows, book, o) ELSE 0]
<1>1. h \in [Orders -> Int]
  <2>1. \A o \in Orders : TradedIn(rows, book, o) \in Int
    BY TradedInt
  <2>2. QED
    BY <2>1
<1>2. NetIn(rows, book, k) = SumFunction(h)
  BY DEF NetIn
<1> HIDE DEF h
<1>3. QED
  BY <1>1, <1>2, SumInt, FinitenessAssumption

\* Rows that keep the key and the action of every order with a trade keep the sum.
LEMMA NetSame ==
  ASSUME NEW rows \in [Orders -> Row], NEW rows2 \in [Orders -> Row],
         NEW book \in [Orders -> Seq(Trade)], NEW k,
         \A o \in Orders : \/ book[o] = <<>>
                           \/ rows2[o].key = rows[o].key /\ rows2[o].action = rows[o].action
  PROVE  NetIn(rows2, book, k) = NetIn(rows, book, k)
<1>1. ASSUME NEW o \in Orders
      PROVE  (IF rows2[o].key = k THEN TradedIn(rows2, book, o) ELSE 0)
               = (IF rows[o].key = k THEN TradedIn(rows, book, o) ELSE 0)
  <2>1. CASE book[o] = <<>>
    BY <2>1, TradedNothing
  <2>2. CASE rows2[o].key = rows[o].key /\ rows2[o].action = rows[o].action
    BY <2>2 DEF TradedIn
  <2>3. QED
    BY <2>1, <2>2
<1>2. QED
  BY <1>1 DEF NetIn

\* Order o gets its first trade.
FirstTrade(book, o, q, x) == [book EXCEPT ![o] = <<[qty |-> q, price |-> x]>>]

\* What q units of order o add to key k.
Share(rows, o, k, q) == IF rows[o].key = k THEN Signed(rows[o].action, q) ELSE 0

\* The first trade of an order adds its quantity to the sum of its key.
LEMMA NetAdds ==
  ASSUME NEW rows \in [Orders -> Row], NEW book \in [Orders -> Seq(Trade)],
         NEW k, NEW o \in Orders, NEW q \in Nat, NEW x \in Nat, book[o] = <<>>
  PROVE  NetIn(rows, FirstTrade(book, o, q, x), k) = NetIn(rows, book, k) + Share(rows, o, k, q)
<1> DEFINE book2 == FirstTrade(book, o, q, x)
           h == [p \in Orders |-> IF rows[p].key = k THEN TradedIn(rows, book, p) ELSE 0]
           g == [p \in Orders |-> IF rows[p].key = k THEN TradedIn(rows, book2, p) ELSE 0]
<1>1. /\ book2 \in [Orders -> Seq(Trade)] /\ book2[o] = <<[qty |-> q, price |-> x]>>
      /\ \A p \in Orders \ {o} : book2[p] = book[p]
  BY DEF Trade, FirstTrade
<1>2. NetIn(rows, book, k) = SumFunction(h) /\ NetIn(rows, book2, k) = SumFunction(g)
  BY DEF NetIn
<1> HIDE DEF book2
<1>3. h \in [Orders -> Int] /\ g \in [Orders -> Int]
  <2>1. \A p \in Orders : TradedIn(rows, book, p) \in Int /\ TradedIn(rows, book2, p) \in Int
    BY <1>1, TradedInt
  <2>2. QED
    BY <2>1
<1>4. \A p \in Orders \ {o} : g[p] = h[p]
  BY <1>1 DEF TradedIn
<1>5. TradedIn(rows, book, o) = 0 /\ TradedIn(rows, book2, o) = Signed(rows[o].action, q)
  BY <1>1, TradedNothing, TradedOnce
<1>6. h[o] = 0 /\ g[o] = Share(rows, o, k, q)
  BY <1>5 DEF Share
<1> HIDE DEF h, g
<1>7. SumFunction(g) = SumFunction(h) - h[o] + g[o]
  <2>1. o \in Orders /\ IsFiniteSet(Orders)
    BY FinitenessAssumption
  <2>2. QED
    BY ONLY <1>3, <1>4, <2>1, SumUpdate
<1>8. SumFunction(h) \in Int /\ g[o] \in Int
  BY <1>3, SumInt, FinitenessAssumption
<1>9. QED
  BY <1>2, <1>6, <1>7, <1>8 DEF book2

Applies == {"apply", "write"}

\* What thread t has traded in key k and not yet written to the position.
Applying(t, k) ==
  LET r == orders[loc[t].cur]
  IN  IF pc[t] \in Applies /\ r.key = k THEN Signed(r.action, loc[t].qty) ELSE 0

\* The position is n away from the trades.
Applied(k, n) == pos[k].net + n = NetIn(orders, trades, k) - NetIn(orders, lost, k)

\* NetMatchesAppliedTrades says nothing of a fill under way; this does.
NetInv ==
  /\ (\A t \in Threads : pc[t] \notin Applies) => \A k \in Keys : Applied(k, 0)
  /\ \A t \in Threads : pc[t] \in Applies => \A k \in Keys : Applied(k, Applying(t, k))

\* A thread that is alone accounts for the whole distance.
LEMMA NetAlone ==
  ASSUME NetInv, NEW t \in Threads, Alone(t)
  PROVE  \A k \in Keys : Applied(k, Applying(t, k))
<1>1. CASE pc[t] \in Applies
  BY <1>1 DEF NetInv
<1>2. CASE pc[t] \notin Applies
  <2>1. \A u \in Threads : pc[u] \notin Applies
    BY <1>2 DEF Alone, Applies
  <2>2. \A k \in Keys : Applying(t, k) = 0
    BY <1>2 DEF Applying
  <2>3. QED
    BY <2>1, <2>2 DEF NetInv
<1>3. QED
  BY <1>1, <1>2

\* What is left to show of a step that moves one thread.
LEMMA NetStep ==
  ASSUME NEW t \in Threads, Alone(t), OnlyMoved(t),
         \A k \in Keys : Applied(k, Applying(t, k))'
  PROVE  NetInv'
<1>1. \A u \in Threads \ {t} : pc'[u] \notin Applies
  BY DEF Alone, OnlyMoved, Applies
<1>2. ASSUME \A u \in Threads : pc'[u] \notin Applies
      PROVE  \A k \in Keys : Applied(k, 0)'
  <2>1. \A k \in Keys : Applying(t, k)' = 0
    BY <1>2 DEF Applying
  <2>2. QED
    BY <2>1 DEF Applied
<1>3. QED
  BY <1>1, <1>2 DEF NetInv

\* While threads take turns, an order that is not complete has no trade.
LEMMA NoTrade ==
  ASSUME TypeInv, SerialInv, NEW o \in Orders, orders[o].status # "complete"
  PROVE  trades[o] = <<>> /\ lost[o] = <<>>
<1>1. Len(trades[o]) = 0 /\ trades[o] \in Seq(Trade)
  BY DEF SerialInv, TradesMatchOrders, TradeIffComplete, TypeInv, TablesOK
<1>2. QED
  BY <1>1 DEF SerialInv, LostAreTrades

\* A step that writes no trade and no position, and leaves the key and the action of
\* the orders that traded.
LEMMA NetQuiet ==
  ASSUME TypeInv, TypeInv', SerialInv, NetInv, NEW t \in Threads, Alone(t), OnlyMoved(t),
         trades' = trades, lost' = lost, pos' = pos,
         \A o \in Orders : \/ orders[o].status # "complete"
                           \/ /\ orders'[o].key = orders[o].key
                              /\ orders'[o].action = orders[o].action,
         \A k \in Keys : Applying(t, k)' = Applying(t, k)
  PROVE  NetInv'
<1>1. /\ orders \in [Orders -> Row] /\ orders' \in [Orders -> Row]
      /\ trades \in [Orders -> Seq(Trade)] /\ lost \in [Orders -> Seq(Trade)]
  BY DEF TypeInv, TablesOK
<1>2. \A o \in Orders : \/ trades[o] = <<>> /\ lost[o] = <<>>
                        \/ orders'[o].key = orders[o].key /\ orders'[o].action = orders[o].action
  BY NoTrade
<1>3. \A k \in Keys : /\ NetIn(orders', trades, k) = NetIn(orders, trades, k)
                      /\ NetIn(orders', lost, k) = NetIn(orders, lost, k)
  BY <1>1, <1>2, NetSame
<1>4. \A k \in Keys : Applied(k, Applying(t, k))'
  BY <1>3, NetAlone DEF Applied
<1>5. QED
  BY <1>4, NetStep

\* A request thread writes no trade and no position.
LEMMA ClientFrame ==
  ASSUME TypeInv, NEW c \in Clients, ClientStep(c)
  PROVE  /\ OnlyMoved(c) /\ pc[c] \notin Applies /\ pc'[c] \notin Applies
         /\ trades' = trades /\ lost' = lost /\ pos' = pos
         /\ \A o \in Orders : \/ orders[o].status # "complete"
                              \/ /\ orders'[o].key = orders[o].key
                                 /\ orders'[o].action = orders[o].action
<1> DEFINE Goal == /\ OnlyMoved(c) /\ pc[c] \notin Applies /\ pc'[c] \notin Applies
                   /\ trades' = trades /\ lost' = lost /\ pos' = pos
                   /\ \A o \in Orders : \/ orders[o].status # "complete"
                                        \/ /\ orders'[o].key = orders[o].key
                                           /\ orders'[o].action = orders[o].action
<1>0. /\ c \in Threads /\ orders \in [Orders -> Row]
      /\ pc[c] \in Working => loc[c].cur \in Orders
  BY DEF Threads, TypeInv, TablesOK, ThreadsOK
<1>a. ASSUME NEW label, NEW l, Goto(c, label, l) PROVE OnlyMoved(c) /\ pc'[c] = label
  BY <1>0, <1>a, GotoMoves
<1>b. ASSUME NEW work, NEW closing, Return(c, work, closing)
      PROVE  OnlyMoved(c) /\ pc'[c] \notin Applies
  BY <1>0, <1>b, ReturnLands DEF AtLoop, Applies
<1>c. ASSUME NEW o \in Orders, NEW r, NEW op, NEW closing, Begin(c, o, r, op, closing)
      PROVE  /\ OnlyMoved(c) /\ pc'[c] \notin Applies
             /\ trades' = trades /\ lost' = lost /\ pos' = pos
             /\ \A p \in Orders : orders[p].status # "complete" \/ orders'[p] = orders[p]
  BY <1>0, <1>a, <1>c DEF Begin, Applies
<1>d. ASSUME Reject(c), loc[c].cur \in Orders
      PROVE  /\ OnlyMoved(c) /\ pc'[c] \notin Applies
             /\ trades' = trades /\ lost' = lost /\ pos' = pos
             /\ \A o \in Orders : orders'[o].key = orders[o].key /\ orders'[o].action = orders[o].action
  BY <1>0, <1>b, <1>d DEF Reject, Row
<1>1. ASSUME NEW o \in Orders, NEW r \in Requests, PlaceOrder(c, o, r)
      PROVE  Goal
  BY <1>c, <1>1 DEF PlaceOrder, MayStart, Applies
<1>2. ASSUME NEW o \in Orders, NEW r \in Requests, NEW n \in Targets,
             PlaceSmartOrder(c, o, r, n)
      PROVE  Goal
  BY <1>c, <1>2 DEF PlaceSmartOrder, MayStart, Applies
<1>3. ASSUME NEW o \in Orders, CloseNext(c, o)
      PROVE  Goal
  BY <1>c, <1>3 DEF CloseNext, Applies
<1>4. ASSUME NEW k \in Keys, ClosePosition(c, k)
      PROVE  Goal
  BY <1>a, <1>4 DEF ClosePosition, MayStart, tables, Applies
<1>5. CASE CloseAllPositions(c)
  BY <1>a, <1>5 DEF CloseAllPositions, MayStart, tables, Applies
<1>6. CASE Validate(c)
  <2>1. loc[c].cur \in Orders /\ pc[c] = "validate"
    BY <1>0, <1>6 DEF Validate, Working, PCs
  <2>2. CASE Reject(c)
    BY <1>d, <2>1, <2>2 DEF Applies
  <2>3. CASE \E l : Goto(c, "size", l) /\ UNCHANGED <<funds, tables>>
    BY <1>a, <2>1, <2>3 DEF tables, Applies
  <2>4. QED
    BY <1>6, <2>2, <2>3 DEF Validate
<1>7. CASE SizeMargin(c)
  BY <1>a, <1>7 DEF SizeMargin, tables, Applies
<1>8. CASE BlockMargin(c)
  <2>1. loc[c].cur \in Orders /\ pc[c] = "block"
    BY <1>0, <1>8 DEF BlockMargin, Working, PCs
  <2>2. CASE Reject(c)
    BY <1>d, <2>1, <2>2 DEF Applies
  <2>3. CASE \E l : Goto(c, "create", l) /\ UNCHANGED tables
    BY <1>a, <2>1, <2>3 DEF tables, Applies
  <2>4. QED
    BY <1>8, <2>2, <2>3 DEF BlockMargin
<1>9. CASE CreateOrder(c)
  <2>1. PICK o \in Orders : o = loc[c].cur
    BY <1>0, <1>9 DEF CreateOrder, Working, PCs
  <2>2. \A p \in Orders : orders'[p].key = orders[p].key /\ orders'[p].action = orders[p].action
    BY <1>0, <1>9, <2>1 DEF CreateOrder, Row
  <2>3. QED
    BY <1>b, <1>9, <2>2 DEF CreateOrder, Applies
<1>10. ASSUME NEW o \in Orders, CancelOrder(c, o)
       PROVE  Goal
  BY <1>a, <1>10 DEF CancelOrder, MayStart, tables, Applies
<1>11. CASE CancelAllOrders(c)
  BY <1>a, <1>11 DEF CancelAllOrders, MayStart, tables, Applies
<1>12. CASE CancelNext(c)
  BY <1>a, <1>b, <1>12 DEF CancelNext, tables, Applies
<1>13. CASE CancelCommit(c)
  <2>1. PICK o \in Orders : o = loc[c].cur
    BY <1>0, <1>13 DEF CancelCommit, Working, PCs
  <2>2. \A p \in Orders : orders'[p].key = orders[p].key /\ orders'[p].action = orders[p].action
    BY <1>0, <1>13, <2>1 DEF CancelCommit, Row
  <2>3. OnlyMoved(c) /\ pc'[c] \notin Applies
    <3>1. \/ Return(c, loc[c].work, {})
          \/ \E l : Goto(c, "cancel_release", l)
      BY <1>13 DEF CancelCommit
    <3>2. QED
      BY <1>a, <1>b, <3>1 DEF Applies
  <2>4. QED
    BY <1>13, <2>2, <2>3 DEF CancelCommit, Applies
<1>14. CASE CancelRelease(c)
  BY <1>b, <1>14 DEF CancelRelease, tables, Applies
<1>15. ASSUME NEW o \in Orders, ModifyOrder(c, o)
       PROVE  Goal
  BY <1>a, <1>15 DEF ModifyOrder, MayStart, tables, Applies
<1>16. ASSUME NEW ch \in Changes, ModifyCommit(c, ch)
       PROVE  Goal
  <2>1. PICK x \in loc[c].work :
          LET now == orders[x[1]] IN
          orders' = [orders EXCEPT ![x[1]] =
                       [now EXCEPT
                         !.qty = Written(x[2].qty, IF ch.qty # 0 THEN ch.qty ELSE x[2].qty, now.qty),
                         !.price = Written(x[2].price, ch.price, now.price),
                         !.trig = Written(x[2].trig, ch.trig, now.trig),
                         !.ptype = Written(x[2].ptype, ch.ptype, now.ptype)]]
    BY <1>16 DEF ModifyCommit
  <2>2. PICK o \in Orders : o = x[1]
    BY <1>0, WorkType
  <2>3. \A p \in Orders : orders'[p].key = orders[p].key /\ orders'[p].action = orders[p].action
    BY <1>0, <2>1, <2>2 DEF Row
  <2>4. QED
    BY <1>b, <1>16, <2>3 DEF ModifyCommit, Applies
<1>17. QED
  BY <1>1, <1>2, <1>3, <1>4, <1>5, <1>6, <1>7, <1>8, <1>9, <1>10, <1>11, <1>12,
     <1>13, <1>14, <1>15, <1>16 DEF ClientStep

\* apply_fill adds the signed quantity to the net position in every branch.
LEMMA FilledNet ==
  ASSUME NEW book \in PosRow, NEW a \in Actions, NEW qty \in Nat, NEW price \in Nat,
         NEW om \in Nat
  PROVE  Filled(book, a, qty, price, om).net = book.net + Signed(a, qty)
<1> DEFINE net == book.net + Signed(a, qty)
           offset == Least(Abs(book.net), qty)
<1>1. book.net \in Int /\ net \in Int /\ offset \in Nat /\ offset <= qty
  BY DEF PosRow, Signed, Least, Abs
<1>2. CASE book.net = 0
  BY <1>2 DEF Filled
<1>3. CASE book.net # 0 /\ net = 0
  BY <1>3 DEF Filled
<1>4. CASE book.net # 0 /\ net # 0 /\ qty > offset
  BY <1>4 DEF Filled
<1>5. CASE book.net # 0 /\ net # 0 /\ qty = offset
  BY <1>1, <1>5 DEF Filled
<1>6. QED
  BY <1>1, <1>2, <1>3, <1>4, <1>5

\* A trade that is written and not yet applied.
LEMMA FillCommitNet ==
  ASSUME TypeInv, TypeInv', SerialInv, NetInv, NEW t \in Threads, Alone(t), FillCommit(t)
  PROVE  NetInv'
<1>1. PICK o \in Orders : o = loc[t].cur /\ orders[o].status \in Pending
  BY DEF FillCommit, SerialInv, Steady, TakenOK, TypeInv, ThreadsOK, Working, PCs
<1>2. trades[o] = <<>> /\ lost[o] = <<>>
  BY <1>1, NoTrade DEF Pending
<1>3. PICK q \in Nat, x \in Nat : q = loc[t].qty /\ x = loc[t].px
  BY DEF TypeInv, ThreadsOK, Locals
<1>4. /\ orders \in [Orders -> Row] /\ orders' \in [Orders -> Row]
      /\ trades \in [Orders -> Seq(Trade)] /\ trades' \in [Orders -> Seq(Trade)]
      /\ lost \in [Orders -> Seq(Trade)] /\ \A k \in Keys : pos[k].net \in Int
  BY DEF TypeInv, TablesOK, PosRow
<1>5. /\ \A p \in Orders : orders'[p].key = orders[p].key /\ orders'[p].action = orders[p].action
      /\ lost' = lost /\ pos' = pos /\ pc[t] = "fill"
  BY <1>1, <1>4 DEF FillCommit, Row
<1>6. trades' = [trades EXCEPT ![o] = <<[qty |-> q, price |-> x]>>]
  <2> DEFINE trade == [qty |-> q, price |-> x]
  <2>1. trades' = [trades EXCEPT ![o] = Append(@, trade)]
    BY <1>1, <1>3 DEF FillCommit
  <2> HIDE DEF trade
  <2>2. Append(<<>>, trade) = <<trade>> /\ DOMAIN trades = Orders
    BY <1>4
  <2>3. trades' = [trades EXCEPT ![o] = <<trade>>]
    BY <1>2, <2>1, <2>2
  <2>4. QED
    BY <2>1, <2>2, <2>3 DEF trade
<1>7. OnlyMoved(t) /\ pc'[t] = "apply" /\ loc'[t] = loc[t]
  BY GotoMoves DEF FillCommit
<1>8. ASSUME NEW k \in Keys
      PROVE  Applied(k, Applying(t, k))'
  <2> DEFINE d == Share(orders, o, k, q)
  <2>1. Applying(t, k) = 0 /\ Applying(t, k)' = d /\ d \in Int
    BY <1>1, <1>3, <1>5, <1>7 DEF Applying, Applies, Signed, Share
  <2>2. NetIn(orders', trades', k) = NetIn(orders, trades, k) + d
    <3>1. NetIn(orders, FirstTrade(trades, o, q, x), k)
            = NetIn(orders, trades, k) + Share(orders, o, k, q)
      <4>1. o \in Orders /\ q \in Nat /\ x \in Nat /\ trades[o] = <<>>
        BY <1>1, <1>2, <1>3
      <4>2. orders \in [Orders -> Row] /\ trades \in [Orders -> Seq(Trade)]
        BY <1>4
      <4>3. QED
        BY ONLY <4>1, <4>2, NetAdds
    <3>2. NetIn(orders', trades', k) = NetIn(orders, trades', k)
      BY <1>4, <1>5, NetSame
    <3>3. QED
      BY <1>6, <3>1, <3>2 DEF FirstTrade
  <2>3. NetIn(orders', lost, k) = NetIn(orders, lost, k)
    BY <1>4, <1>5, NetSame
  <2>4. pos[k].net + 0 = NetIn(orders, trades, k) - NetIn(orders, lost, k)
    BY <2>1, NetAlone DEF Applied
  <2>5. NetIn(orders, trades, k) \in Int /\ NetIn(orders, lost, k) \in Int /\ pos[k].net \in Int
    BY <1>4, NetInt
  <2> HIDE DEF d
  <2>6. pos[k].net + d = (NetIn(orders, trades, k) + d) - NetIn(orders, lost, k)
    BY <2>1, <2>4, <2>5
  <2>7. QED
    BY <1>5, <2>1, <2>2, <2>3, <2>6 DEF Applied
<1>9. QED
  BY <1>7, <1>8, NetStep

\* A trade whose position update raises is lost.
LEMMA RaiseNet ==
  ASSUME TypeInv, TypeInv', SerialInv, NetInv, NEW t \in Threads, Alone(t),
         pc[t] \in Applies, Raise(t)
  PROVE  NetInv'
<1>1. PICK o \in Orders : o = loc[t].cur /\ lost[o] = <<>>
  <2>1. loc[t].cur \in Orders
    BY DEF TypeInv, ThreadsOK, Working, PCs, Applies
  <2>2. lost[loc[t].cur] = <<>>
    BY DEF SerialInv, Steady, AppliedOK, Applies
  <2>3. QED
    BY <2>1, <2>2
<1>2. PICK q \in Nat, x \in Nat : q = loc[t].qty /\ x = loc[t].px
  BY DEF TypeInv, ThreadsOK, Locals
<1>3. /\ orders \in [Orders -> Row] /\ trades \in [Orders -> Seq(Trade)]
      /\ lost \in [Orders -> Seq(Trade)] /\ lost' \in [Orders -> Seq(Trade)]
      /\ \A k \in Keys : pos[k].net \in Int
  BY DEF TypeInv, TablesOK, PosRow
<1>4. orders' = orders /\ trades' = trades /\ pos' = pos
  BY DEF Raise
<1>5. lost' = [lost EXCEPT ![o] = <<[qty |-> q, price |-> x]>>]
  <2> DEFINE trade == [qty |-> q, price |-> x]
  <2>1. lost' = [lost EXCEPT ![o] = Append(@, trade)]
    BY <1>1, <1>2 DEF Raise
  <2> HIDE DEF trade
  <2>2. Append(<<>>, trade) = <<trade>> /\ DOMAIN lost = Orders
    BY <1>3
  <2>3. lost' = [lost EXCEPT ![o] = <<trade>>]
    BY <1>1, <2>1, <2>2
  <2>4. QED
    BY <2>1, <2>2, <2>3 DEF trade
<1>6. OnlyMoved(t) /\ pc'[t] \notin Applies
  BY ReturnLands DEF Raise, AtLoop, Applies
<1>7. ASSUME NEW k \in Keys
      PROVE  Applied(k, Applying(t, k))'
  <2> DEFINE d == Share(orders, o, k, q)
  <2>1. Applying(t, k) = d /\ Applying(t, k)' = 0 /\ d \in Int
    BY <1>1, <1>2, <1>6 DEF Applying, Signed, Share
  <2>2. NetIn(orders, lost', k) = NetIn(orders, lost, k) + d
    <3>1. NetIn(orders, FirstTrade(lost, o, q, x), k)
            = NetIn(orders, lost, k) + Share(orders, o, k, q)
      <4>1. o \in Orders /\ q \in Nat /\ x \in Nat /\ lost[o] = <<>>
        BY <1>1, <1>2
      <4>2. orders \in [Orders -> Row] /\ lost \in [Orders -> Seq(Trade)]
        BY <1>3
      <4>3. QED
        BY ONLY <4>1, <4>2, NetAdds
    <3>2. QED
      BY <1>5, <3>1 DEF FirstTrade
  <2>3. pos[k].net + d = NetIn(orders, trades, k) - NetIn(orders, lost, k)
    BY <2>1, NetAlone DEF Applied
  <2>4. NetIn(orders, trades, k) \in Int /\ NetIn(orders, lost, k) \in Int /\ pos[k].net \in Int
    BY <1>3, NetInt
  <2> HIDE DEF d
  <2>5. pos[k].net + 0 = NetIn(orders, trades, k) - (NetIn(orders, lost, k) + d)
    BY <2>1, <2>3, <2>4
  <2>6. QED
    BY <1>4, <2>1, <2>2, <2>5 DEF Applied
<1>8. QED
  BY <1>6, <1>7, NetStep

\* The position takes over what was being applied.
LEMMA ApplyNet ==
  ASSUME TypeInv, TypeInv', SerialInv, NetInv, NEW t \in Threads, Alone(t),
         ApplyCommit(t), ~Raise(t)
  PROVE  NetInv'
<1>1. PICK o \in Orders : o = loc[t].cur
  BY DEF ApplyCommit, TypeInv, ThreadsOK, Working, PCs
<1>2. PICK j \in Keys : j = orders[o].key
  BY DEF TypeInv, TablesOK, Row
<1> DEFINE f == Filled(pos[j], orders[o].action, loc[t].qty, loc[t].px, loc[t].amt)
           d == Signed(orders[o].action, loc[t].qty)
<1>3. /\ loc[t].book = pos[j] /\ pc[t] = "write"
  BY <1>1, <1>2 DEF ApplyCommit, SerialInv, Steady, WriteOK
<1>4. /\ pos[j] \in PosRow /\ orders[o].action \in Actions /\ loc[t].qty \in Nat
      /\ loc[t].px \in Nat /\ loc[t].amt \in Nat /\ DOMAIN pos = Keys
      /\ \A k \in Keys : pos[k].net \in Int
      /\ orders \in [Orders -> Row] /\ trades \in [Orders -> Seq(Trade)]
      /\ lost \in [Orders -> Seq(Trade)]
  BY DEF TypeInv, TablesOK, ThreadsOK, Row, Locals, PosRow
<1>5. f.net = pos[j].net + d /\ d \in Int
  <2>1. d \in Int
    BY <1>4 DEF Signed
  <2>2. PICK b \in PosRow, a \in Actions, q \in Nat, x \in Nat, m \in Nat :
          b = pos[j] /\ a = orders[o].action /\ q = loc[t].qty /\ x = loc[t].px /\ m = loc[t].amt
    BY <1>4
  <2>3. Filled(b, a, q, x, m).net = b.net + Signed(a, q)
    BY <2>2, FilledNet
  <2>4. QED
    BY <2>1, <2>2, <2>3
<1> HIDE DEF d
<1>6. /\ pos' = [pos EXCEPT ![j] =
              [exists |-> TRUE, net |-> f.net,
               avg |-> Written(pos[j].avg, f.avg, pos[j].avg),
               margin |-> Written(pos[j].margin, f.margin, pos[j].margin)]]
      /\ \/ \E l : Goto(t, "release", l)
         \/ Return(t, loc[t].work, loc[t].closing)
      /\ UNCHANGED <<funds, orders, trades, lost>>
  BY <1>1, <1>2, <1>3 DEF ApplyCommit
<1> HIDE DEF f
<1>7. pos'[j].net = pos[j].net + d /\ \A k \in Keys \ {j} : pos'[k] = pos[k]
  BY <1>4, <1>5, <1>6
<1>8. OnlyMoved(t) /\ pc'[t] \notin Applies
  BY <1>6, GotoMoves, ReturnLands DEF AtLoop, Applies
<1>9. ASSUME NEW k \in Keys
      PROVE  Applied(k, Applying(t, k))'
  <2>1. Applying(t, k)' = 0 /\ Applying(t, k) = IF k = j THEN d ELSE 0
    BY <1>1, <1>2, <1>3, <1>8 DEF Applying, Applies, d
  <2>2. pos[k].net + Applying(t, k) = NetIn(orders, trades, k) - NetIn(orders, lost, k)
    BY NetAlone DEF Applied
  <2>3. pos'[k].net + 0 = NetIn(orders, trades, k) - NetIn(orders, lost, k)
    <3>1. CASE k = j
      BY <1>4, <1>5, <1>7, <2>1, <2>2, <3>1
    <3>2. CASE k # j
      BY <1>4, <1>7, <2>1, <2>2, <3>2
    <3>3. QED
      BY <3>1, <3>2
  <2>4. QED
    BY <1>6, <2>1, <2>3 DEF Applied
<1>10. QED
  BY <1>8, <1>9, NetStep

\* Every step of _try_fill_order keeps the positions in step with the trades.
LEMMA FillNet ==
  ASSUME Serial, TypeInv, TypeInv', SerialInv, NetInv, NEW t \in Threads, FillStep(t)
  PROVE  NetInv'
<1>0. loc[t] \in Locals
  BY DEF TypeInv, ThreadsOK
<1>a. Alone(t)
  BY WorksAlone DEF FillStep, TryFill, FillCommit, ApplySelect, ApplyCommit, FillRelease
<1>b. ASSUME OnlyMoved(t), UNCHANGED tables, pc[t] \notin Applies, pc'[t] \notin Applies
      PROVE  NetInv'
  <2>1. \A k \in Keys : Applying(t, k)' = Applying(t, k)
    BY <1>b DEF Applying
  <2>2. QED
    BY <1>a, <1>b, <2>1, NetQuiet DEF tables
<1>1. CASE TryFill(t)
  <2>1. \/ \E work : Return(t, work, loc[t].closing)
        \/ \E l : Goto(t, "fill", l)
    BY <1>1 DEF TryFill
  <2>2. OnlyMoved(t) /\ pc'[t] \notin Applies
    BY <2>1, GotoMoves, ReturnLands DEF AtLoop, Applies
  <2>3. QED
    BY <1>b, <1>1, <2>2 DEF TryFill, Applies
<1>2. CASE FillCommit(t)
  BY <1>a, <1>2, FillCommitNet
<1>3. CASE ApplySelect(t)
  <2>1. CASE Raise(t)
    BY <1>a, <1>3, <2>1, RaiseNet DEF ApplySelect, Applies
  <2>2. CASE \E book : Goto(t, "write", [loc[t] EXCEPT !.book = book])
                       /\ UNCHANGED <<funds, tables>>
    <3>1. PICK book : Goto(t, "write", [loc[t] EXCEPT !.book = book])
                      /\ UNCHANGED <<funds, tables>>
      BY <2>2
    <3>2. /\ [loc[t] EXCEPT !.book = book].cur = loc[t].cur
          /\ [loc[t] EXCEPT !.book = book].qty = loc[t].qty
      BY <1>0 DEF Locals
    <3>3. /\ OnlyMoved(t) /\ pc'[t] = "write"
          /\ loc'[t] = [loc[t] EXCEPT !.book = book] /\ pc[t] = "apply"
      BY <1>3, <3>1, GotoMoves DEF ApplySelect
    <3>4. loc'[t].cur = loc[t].cur /\ loc'[t].qty = loc[t].qty
      BY <3>2, <3>3
    <3>5. \A k \in Keys : Applying(t, k)' = Applying(t, k)
      BY <3>1, <3>3, <3>4 DEF Applying, Applies, tables
    <3>6. QED
      BY <1>a, <3>1, <3>3, <3>5, NetQuiet DEF tables
  <2>3. QED
    BY <1>3, <2>1, <2>2 DEF ApplySelect
<1>4. CASE ApplyCommit(t)
  <2>1. CASE Raise(t)
    BY <1>a, <1>4, <2>1, RaiseNet DEF ApplyCommit, Applies
  <2>2. QED
    BY <1>a, <1>4, <2>1, ApplyNet
<1>5. CASE FillRelease(t)
  <2>1. OnlyMoved(t) /\ pc'[t] \notin Applies
    BY <1>5, ReturnLands DEF FillRelease, AtLoop, Applies
  <2>2. QED
    BY <1>b, <1>5, <2>1 DEF FillRelease, Applies
<1>6. QED
  BY <1>1, <1>2, <1>3, <1>4, <1>5 DEF FillStep

\* While threads take turns the positions follow the trades.
LEMMA NextNet ==
  ASSUME Serial, TypeInv, TypeInv', SerialInv, NetInv, [Next]_vars
  PROVE  NetInv'
<1>1. ASSUME NEW c \in Clients, ClientStep(c)
      PROVE  NetInv'
  <2>1. c \in Threads
    BY DEF Threads
  <2>2. /\ OnlyMoved(c) /\ pc[c] \notin Applies /\ pc'[c] \notin Applies
        /\ trades' = trades /\ lost' = lost /\ pos' = pos
        /\ \A o \in Orders : \/ orders[o].status # "complete"
                             \/ /\ orders'[o].key = orders[o].key
                                /\ orders'[o].action = orders[o].action
    BY <1>1, ClientFrame
  <2>3. \A k \in Keys : Applying(c, k)' = Applying(c, k)
    BY <2>2 DEF Applying
  <2>4. Alone(c)
    BY <1>1, <2>1, WorksAlone DEF ClientStep, PlaceOrder, PlaceSmartOrder, ClosePosition,
       CloseAllPositions, CloseNext, Validate, SizeMargin, BlockMargin, CreateOrder,
       CancelOrder, CancelAllOrders, CancelNext, CancelCommit, CancelRelease, ModifyOrder,
       ModifyCommit
  <2>5. QED
    BY <2>1, <2>2, <2>3, <2>4, NetQuiet
<1>2. ASSUME NEW e \in Engines, ListPending(e)
      PROVE  NetInv'
  <2>1. /\ e \in Threads /\ MayStart(e) /\ UNCHANGED <<funds, tables>>
        /\ \E l : Goto(e, "fill_loop", l)
    BY <1>2 DEF ListPending, Threads
  <2>2. /\ Alone(e) /\ OnlyMoved(e) /\ pc[e] \notin Applies /\ pc'[e] \notin Applies
    BY <2>1, WorksAlone, GotoMoves DEF MayStart, Applies
  <2>3. \A k \in Keys : Applying(e, k)' = Applying(e, k)
    BY <2>2 DEF Applying
  <2>4. QED
    BY <2>1, <2>2, <2>3, NetQuiet DEF tables
<1>3. CASE UNCHANGED vars
  BY <1>3 DEF vars, NetInv, Applied, Applying, Applies
<1>4. QED
  BY <1>1, <1>2, <1>3, FillNet DEF Next

\* An empty book has neither positions nor trades.
LEMMA InitNet == Init => NetInv
<1> SUFFICES ASSUME Init PROVE NetInv
  OBVIOUS
<1>1. \A o \in Orders : trades[o] = <<>> /\ lost[o] = <<>>
  BY DEF Init
<1>2. \A t \in Threads : pc[t] \notin Applies
  BY DEF Init, Applies
<1>3. ASSUME NEW k \in Keys
      PROVE  Applied(k, 0)
  <2> DEFINE h == [o \in Orders |-> IF orders[o].key = k THEN TradedIn(orders, trades, o) ELSE 0]
             g == [o \in Orders |-> IF orders[o].key = k THEN TradedIn(orders, lost, o) ELSE 0]
  <2>1. \A o \in Orders : h[o] = 0 /\ g[o] = 0
    BY <1>1, TradedNothing
  <2>2. NetIn(orders, trades, k) = SumFunction(h) /\ NetIn(orders, lost, k) = SumFunction(g)
    BY DEF NetIn
  <2>3. DOMAIN h = Orders /\ DOMAIN g = Orders
    OBVIOUS
  <2> HIDE DEF h, g
  <2>4. SumFunction(h) = 0 /\ SumFunction(g) = 0
    BY <2>1, <2>3, SumZero, FinitenessAssumption
  <2>5. pos[k].net = 0
    BY DEF Init, NoPosition
  <2>6. QED
    BY <2>2, <2>4, <2>5 DEF Applied
<1>4. QED
  BY <1>2, <1>3 DEF NetInv

\* When requests and filling passes take turns, a position is what its trades add
\* up to, the ones whose update raised left out: adding, reducing, closing and
\* reversing a position all book the quantity that was traded (apply_fill).
THEOREM SerialPositionsFollowTrades ==
  ASSUME Serial
  PROVE  Spec => []NetMatchesAppliedTrades
<1>1. TypeInv /\ TypeInv' /\ SerialInv /\ NetInv /\ [Next]_vars => NetInv'
  BY NextNet
<1>2. TypeInv /\ SerialInv /\ [Next]_vars => SerialInv'
  BY NextSerial
<1>3. TypeInv /\ NetInv => NetMatchesAppliedTrades
  <2> SUFFICES ASSUME TypeInv, NetInv, Quiet, NEW k \in Keys
               PROVE  pos[k].net = NetOf(trades, k) - NetOf(lost, k)
    BY DEF NetMatchesAppliedTrades
  <2>1. pos[k].net + 0 = NetIn(orders, trades, k) - NetIn(orders, lost, k)
    BY DEF Quiet, NetInv, Applied, Applies
  <2>2. pos[k].net \in Int
    BY DEF TypeInv, TablesOK, PosRow
  <2>3. NetOf(trades, k) = NetIn(orders, trades, k) /\ NetOf(lost, k) = NetIn(orders, lost, k)
    BY DEF NetOf, NetIn, Traded, TradedIn
  <2>4. QED
    BY <2>1, <2>2, <2>3
<1>4. QED
  BY <1>1, <1>2, <1>3, InitSerial, InitNet, TypeInvariance, PTL DEF Spec
=============================================================================
