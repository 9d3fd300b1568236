----------------------------- MODULE SandboxBook -----------------------------
(***************************************************************************)
(* The sandbox trading book of one user: the funds row, the order, trade   *)
(* and position tables, and the threads that work on them.                 *)
(*                                                                         *)
(*   Clients  request threads: place, smart, close, cancel and modify      *)
(*            (services/sandbox_service.py)                                *)
(*   Engines  the two filling threads of sandbox/execution_engine.py: the  *)
(*            tick subscriber and the poll loop.  Both read the pending    *)
(*            orders and call _try_fill_order on each of them.             *)
(*                                                                         *)
(* Every session_scope() of the code is one database transaction.  The     *)
(* engine is created with the database's default isolation (READ           *)
(* COMMITTED) and no statement locks a row, so a transaction that reads a  *)
(* row and later writes it is two steps here: the read, which leaves a     *)
(* detached copy in the thread's locals, and the commit, which writes the  *)
(* columns that were changed.  The fund helpers hold the user's lock from  *)
(* their read to their commit and are one step each.                       *)
(*                                                                         *)
(* Money and prices are integers (paise).                                  *)
(***************************************************************************)
EXTENDS Integers, Sequences, FiniteSets, Functions

CONSTANTS
  Clients,          \* request threads
  Engines,          \* filling threads: tick subscriber, poll loop
  Orders,           \* order ids; their number bounds the orders of a run
  NONE,             \* "no order"
  Keys,             \* position keys: (symbol, exchange, product)
  Product,          \* product of a key: "MIS", "NRML" or "CNC"
  LotSize,          \* lot size of a key (1 for equity)
  Leverage,         \* leverage of a key, for each action
  Holding,          \* settled quantity of a key's symbol (sandbox_holdings)
  Requests,         \* order payloads the clients may send
  Changes,          \* payloads of modify requests
  Targets,          \* position_size values of smart orders
  Ltps,             \* quotes a thread may obtain; 0 is "no quote"
  Capital,          \* starting capital
  Ops,              \* operations the clients use
  Serial            \* TRUE: a thread starts only when no other is at work

Threads == Clients \cup Engines
Actions == {"BUY", "SELL"}
PriceTypes == {"MARKET", "LIMIT", "SL", "SL-M"}
Products == {"MIS", "NRML", "CNC"}
AllOps == {"place", "smart", "close", "closeall", "cancel", "cancelall", "modify"}

Request == [key : Keys, action : Actions, qty : Int, ptype : PriceTypes,
            price : Nat, trig : Nat]
Change == [qty : Int, ptype : PriceTypes, price : Nat, trig : Nat]

ASSUME ThreadsAssumption == Clients \cap Engines = {}
ASSUME OrdersAssumption == NONE \notin Orders
ASSUME FinitenessAssumption ==
  IsFiniteSet(Threads) /\ IsFiniteSet(Orders) /\ IsFiniteSet(Keys)
ASSUME KeysAssumption ==
  /\ Product \in [Keys -> Products]
  /\ LotSize \in [Keys -> Nat \ {0}]
  /\ Leverage \in [Keys -> [Actions -> Nat \ {0}]]
  /\ Holding \in [Keys -> Nat]
ASSUME InputsAssumption ==
  /\ Requests \subseteq Request
  /\ Changes \subseteq Change
  /\ Targets \subseteq Int
  /\ Ltps \subseteq Nat
  /\ Capital \in Nat
  /\ Ops \subseteq AllOps
  /\ Serial \in BOOLEAN

VARIABLES
  available, used, realized,  \* the sandbox_funds row
  orders,                     \* sandbox_orders: order id -> row
  trades,                     \* sandbox_trades: order id -> its trades
  pos,                        \* sandbox_positions: key -> row
  lost,                       \* trades whose position update raised (history)
  pc, loc                     \* per thread: where it is, its local variables

funds == <<available, used, realized>>
tables == <<orders, trades, pos, lost>>
vars == <<available, used, realized, orders, trades, pos, lost, pc, loc>>

-----------------------------------------------------------------------------
(* Rows *)

Statuses == {"unused", "placing", "open", "trigger_pending", "complete",
             "cancelled", "rejected"}
Pending == {"open", "trigger_pending"}

Row == [status : Statuses, key : Keys, action : Actions, qty : Int,
        ptype : PriceTypes, price : Nat, trig : Nat, margin : Nat]
Trade == [qty : Nat, price : Nat]
PosRow == [exists : BOOLEAN, net : Int, avg : Nat, margin : Nat]

NoPosition == [exists |-> FALSE, net |-> 0, avg |-> 0, margin |-> 0]

\* The columns a request fills in.  An order id is "unused" until a request
\* takes it and "placing" while that request has not written its row.
\* filled_quantity is left out: the engine only fills an order completely.
OrderRow(r, status) ==
  [status |-> status, key |-> r.key, action |-> r.action, qty |-> r.qty,
   ptype |-> r.ptype, price |-> r.price, trig |-> r.trig, margin |-> 0]

Abs(n) == IF n < 0 THEN -n ELSE n
Least(a, b) == IF a <= b THEN a ELSE b
Signed(action, qty) == IF action = "BUY" THEN qty ELSE -qty
Opposite(net) == IF net > 0 THEN "SELL" ELSE "BUY"

\* round(n / d, 2) on amounts of paise: the nearest integer, ties to even.
Round(n, d) ==
  LET q == n \div d
      r == n % d
  IN  IF 2 * r < d \/ (2 * r = d /\ q % 2 = 0) THEN q ELSE q + 1

Reducing(net, action) == (net > 0 /\ action = "SELL") \/ (net < 0 /\ action = "BUY")

\* What an UPDATE leaves in a column: the session writes a column only when it
\* differs from the row as it was read; otherwise the current value stays.
Written(read, new, current) == IF new = read THEN current ELSE new

-----------------------------------------------------------------------------
(* Thread bookkeeping *)

PCs == {"idle", "validate", "size", "block", "create", "fill_loop", "fill",
        "apply", "write", "release", "close_loop", "cancel_loop",
        "cancel_commit", "cancel_release", "modify_commit"}

\* cur: the order at hand; px: its reference price or fill price; qty: the
\* quantity being filled; amt: margin to block, to transfer or to release;
\* gain: realized PnL to book; book: the position row as read; work: orders
\* still to visit, with the detached rows the list query returned; closing:
\* positions still to close, with the net quantity that was listed.
Locals == [op : AllOps \cup {"none", "engine"}, cur : Orders \cup {NONE},
           px : Nat, qty : Nat, amt : Nat, gain : Int, book : PosRow,
           work : SUBSET (Orders \X Row), closing : SUBSET (Keys \X Int)]

Fresh(op, work, closing) ==
  [op |-> op, cur |-> NONE, px |-> 0, qty |-> 0, amt |-> 0, gain |-> 0,
   book |-> NoPosition, work |-> work, closing |-> closing]

\* A thread may take up a new operation.
MayStart(t) == pc[t] = "idle" /\ (Serial => \A u \in Threads : pc[u] = "idle")

Goto(t, label, l) ==
  /\ pc' = [pc EXCEPT ![t] = label]
  /\ loc' = [loc EXCEPT ![t] = l]

\* The call on the current order is over: go on with the enclosing loop.
Return(t, work, closing) ==
  LET op == loc[t].op
  IN  IF work # {}
      THEN Goto(t, IF op = "cancelall" THEN "cancel_loop" ELSE "fill_loop",
                Fresh(op, work, closing))
      ELSE IF closing # {}
      THEN Goto(t, "close_loop", Fresh(op, {}, closing))
      ELSE Goto(t, "idle", Fresh("none", {}, {}))

Init ==
  /\ available = Capital
  /\ used = 0
  /\ realized = 0
  /\ \E k \in Keys :
       orders = [o \in Orders |->
                   OrderRow([key |-> k, action |-> "BUY", qty |-> 0,
                             ptype |-> "MARKET", price |-> 0, trig |-> 0],
                            "unused")]
  /\ trades = [o \in Orders |-> <<>>]
  /\ pos = [k \in Keys |-> NoPosition]
  /\ lost = [o \in Orders |-> <<>>]
  /\ pc = [t \in Threads |-> "idle"]
  /\ loc = [t \in Threads |-> Fresh("none", {}, {})]

-----------------------------------------------------------------------------
(* Placing an order: sandbox_service.place_order *)

\* Mutant: the row is written as open before it has been validated.
BeginOpen(c, o, r, op, closing) ==
  /\ orders[o].status = "unused"
  /\ orders' = [orders EXCEPT ![o] = OrderRow(r, "open")]
  /\ Goto(c, "validate", [Fresh(op, {}, closing) EXCEPT !.cur = o])
  /\ UNCHANGED <<funds, trades, pos, lost>>

\* The request r arrives; closing are the positions the caller's loop still
\* has to close.
Begin(c, o, r, op, closing) ==
  /\ orders[o].status = "unused"
  /\ orders' = [orders EXCEPT ![o] = OrderRow(r, "placing")]
  /\ Goto(c, "validate", [Fresh(op, {}, closing) EXCEPT !.cur = o])
  /\ UNCHANGED <<funds, trades, pos, lost>>

PlaceOrder(c, o, r) ==
  /\ MayStart(c) /\ "place" \in Ops
  /\ Begin(c, o, r, "place", {})

\* place_smart_order: trade the distance from the net position to the target.
PlaceSmartOrder(c, o, r, target) ==
  LET delta == target - pos[r.key].net
  IN  /\ MayStart(c) /\ "smart" \in Ops
      /\ delta # 0
      /\ Begin(c, o, [r EXCEPT !.action = IF delta > 0 THEN "BUY" ELSE "SELL",
                               !.qty = Abs(delta)], "smart", {})

\* close_position: an opposite MARKET order for one key, unless it is flat.
ClosePosition(c, k) ==
  /\ MayStart(c) /\ "close" \in Ops
  /\ pos[k].net # 0
  /\ Goto(c, "close_loop", Fresh("close", {}, {<<k, pos[k].net>>}))
  /\ UNCHANGED <<funds, tables>>

\* close_all_positions: list the open positions, then close one after another.
CloseAllPositions(c) ==
  LET listed == {<<k, pos[k].net>> : k \in {j \in Keys : pos[j].net # 0}}
  IN  /\ MayStart(c) /\ "closeall" \in Ops
      /\ listed # {}
      /\ Goto(c, "close_loop", Fresh("closeall", {}, listed))
      /\ UNCHANGED <<funds, tables>>

CloseNext(c, o) ==
  /\ pc[c] = "close_loop"
  /\ \E x \in loc[c].closing :
       Begin(c, o, [key |-> x[1], action |-> Opposite(x[2]), qty |-> Abs(x[2]),
                    ptype |-> "MARKET", price |-> 0, trig |-> 0],
             loc[c].op, loc[c].closing \ {x})

\* A rejected row is written and place_order returns.
Reject(c) ==
  /\ orders' = [orders EXCEPT ![loc[c].cur].status = "rejected"]
  /\ Return(c, {}, loc[c].closing)
  /\ UNCHANGED <<funds, trades, pos, lost>>

\* validate_order; late says whether the wall clock is past the square-off
\* cut-off of the key's exchange.  Unknown symbols and off-tick prices are
\* not among the requests.
Acceptable(r, late) ==
  /\ r.qty > 0
  /\ r.qty % LotSize[r.key] = 0
  /\ r.ptype \in {"LIMIT", "SL"} => r.price > 0
  /\ r.ptype \in {"SL", "SL-M"} => r.trig > 0
  /\ (Product[r.key] = "CNC" /\ r.action = "SELL") =>
        r.qty <= Holding[r.key] + (IF pos[r.key].net > 0 THEN pos[r.key].net ELSE 0)
  /\ (Product[r.key] = "MIS" /\ late) => Reducing(pos[r.key].net, r.action)

\* Validation, then the reference price: the limit price, or a quote for
\* MARKET and SL-M, which are rejected when there is none.
Validate(c) ==
  /\ pc[c] = "validate"
  /\ \E ltp \in Ltps, late \in BOOLEAN :
       LET r == orders[loc[c].cur]
           quoted == r.ptype \in {"MARKET", "SL-M"}
       IN  \/ /\ ~Acceptable(r, late) \/ (quoted /\ ltp = 0)
              /\ Reject(c)
           \/ /\ Acceptable(r, late) /\ (quoted => ltp # 0)
              /\ Goto(c, "size", [loc[c] EXCEPT !.px = IF quoted THEN ltp ELSE r.price])
              /\ UNCHANGED <<funds, tables>>

\* compute_required_margin
RequiredMargin(k, action, price, qty) ==
  IF price <= 0 \/ qty <= 0 THEN 0 ELSE Round(price * qty, Leverage[k][action])

\* The quantity that needs margin, given the net position at this moment: an
\* order against the position only pays for what exceeds it.
MarginedQty(net, r) ==
  IF Reducing(net, r.action)
  THEN IF r.qty <= Abs(net) THEN 0 ELSE r.qty - Abs(net)
  ELSE r.qty

SizeMargin(c) ==
  LET r == orders[loc[c].cur]
      qty == MarginedQty(pos[r.key].net, r)
  IN  /\ pc[c] = "size"
      /\ Goto(c, "block", [loc[c] EXCEPT !.amt = RequiredMargin(r.key, r.action, loc[c].px, qty)])
      /\ UNCHANGED <<funds, tables>>

\* Mutant: the margin leaves the cash balance and is never put on used_margin.
BlockMarginUnused(c) ==
  LET amt == loc[c].amt
  IN  /\ pc[c] = "block"
      /\ \/ /\ amt > 0 /\ available < amt
            /\ Reject(c)
         \/ /\ amt > 0 => available >= amt
            /\ available' = available - amt
            /\ Goto(c, "create", loc[c])
            /\ UNCHANGED <<used, realized, tables>>

\* Mutant: the cash is not checked.
BlockMarginUnchecked(c) ==
  LET amt == loc[c].amt
  IN  /\ pc[c] = "block"
      /\ available' = available - amt
      /\ used' = used + amt
      /\ Goto(c, "create", loc[c])
      /\ UNCHANGED <<realized, tables>>

\* block_margin
BlockMargin(c) ==
  LET amt == loc[c].amt
  IN  /\ pc[c] = "block"
      /\ \/ /\ amt > 0 /\ available < amt
            /\ Reject(c)
         \/ /\ amt > 0 => available >= amt
            /\ available' = available - amt
            /\ used' = used + amt
            /\ Goto(c, "create", loc[c])
            /\ UNCHANGED <<realized, tables>>

\* create_order; the new row is handed to _try_fill_order at once.
CreateOrder(c) ==
  LET o == loc[c].cur
      row == [orders[o] EXCEPT
                !.status = IF orders[o].ptype \in {"SL", "SL-M"}
                           THEN "trigger_pending" ELSE "open",
                !.margin = loc[c].amt]
  IN  /\ pc[c] = "create"
      /\ orders' = [orders EXCEPT ![o] = row]
      /\ Return(c, {<<o, row>>}, loc[c].closing)
      /\ UNCHANGED <<funds, trades, pos, lost>>

-----------------------------------------------------------------------------
(* Filling: execution_engine._try_fill_order *)

\* Mutant: MARKET orders are left out, as if placing had always filled them.
ListPendingResting(e) ==
  LET listed == {<<o, orders[o]>> : o \in {p \in Orders : /\ orders[p].status \in Pending
                                                      /\ orders[p].ptype # "MARKET"}}
  IN  /\ MayStart(e)
      /\ listed # {}
      /\ Goto(e, "fill_loop", Fresh("engine", listed, {}))
      /\ UNCHANGED <<funds, tables>>

\* list_pending_orders, at the head of _on_tick and of each poll pass.
ListPending(e) ==
  LET listed == {<<o, orders[o]>> : o \in {p \in Orders : orders[p].status \in Pending}}
  IN  /\ MayStart(e)
      /\ listed # {}
      /\ Goto(e, "fill_loop", Fresh("engine", listed, {}))
      /\ UNCHANGED <<funds, tables>>

NoFill == -1

\* _fill_price
FillPrice(r, ltp) ==
  LET within == IF r.action = "BUY" THEN ltp <= r.price ELSE ltp >= r.price
      triggered == IF r.action = "BUY" THEN ltp >= r.trig ELSE ltp <= r.trig
  IN  CASE ltp <= 0 -> NoFill
        [] ltp > 0 /\ r.ptype = "MARKET" -> ltp
        [] ltp > 0 /\ r.ptype = "LIMIT" -> IF within THEN r.price ELSE NoFill
        [] ltp > 0 /\ r.ptype = "SL" -> IF triggered /\ within THEN r.price ELSE NoFill
        [] ltp > 0 /\ r.ptype = "SL-M" -> IF triggered THEN ltp ELSE NoFill

\* The next order of the loop: no fill price or the row is no longer pending
\* (order_manager.fill returns None) and the loop goes on; otherwise the row
\* has been read and the fill will be written.
TryFill(t) ==
  /\ pc[t] = "fill_loop"
  /\ \E x \in loc[t].work, ltp \in Ltps :
       LET o == x[1]
           price == FillPrice(x[2], ltp)
           fills == price # NoFill /\ orders[o].status \in Pending /\ orders[o].qty > 0
       IN  \/ ~fills /\ Return(t, loc[t].work \ {x}, loc[t].closing)
           \/ fills /\ Goto(t, "fill",
                            [loc[t] EXCEPT !.cur = o, !.px = price,
                                           !.qty = orders[o].qty,
                                           !.amt = x[2].margin,
                                           !.work = @ \ {x}])
  /\ UNCHANGED <<funds, tables>>

\* Mutant: the trade is written and the order stays pending.
FillCommitPending(t) ==
  LET o == loc[t].cur
  IN  /\ pc[t] = "fill"
      /\ trades' = [trades EXCEPT ![o] = Append(@, [qty |-> loc[t].qty, price |-> loc[t].px])]
      /\ Goto(t, "apply", loc[t])
      /\ UNCHANGED <<funds, orders, pos, lost>>

\* order_manager.fill commits: the order is complete and has a trade.
FillCommit(t) ==
  LET o == loc[t].cur
  IN  /\ pc[t] = "fill"
      /\ orders' = [orders EXCEPT ![o].status = "complete"]
      /\ trades' = [trades EXCEPT ![o] = Append(@, [qty |-> loc[t].qty, price |-> loc[t].px])]
      /\ Goto(t, "apply", loc[t])
      /\ UNCHANGED <<funds, pos, lost>>

\* An exception leaves _try_fill_order: the loops around it are abandoned and
\* the trade has no position update.
Raise(t) ==
  /\ lost' = [lost EXCEPT ![loc[t].cur] =
                Append(@, [qty |-> loc[t].qty, price |-> loc[t].px])]
  /\ Return(t, {}, {})
  /\ UNCHANGED <<funds, orders, trades, pos>>

\* apply_fill reads the position.  Adding to an open position raises at
\* "elif remaining > 0": that variable is only bound when the fill is against
\* the position.
ApplySelect(t) ==
  LET r == orders[loc[t].cur]
      book == pos[r.key]
      raises == book.net # 0 /\ ~Reducing(book.net, r.action)
  IN  /\ pc[t] = "apply"
      /\ \/ raises /\ Raise(t)
         \/ /\ ~raises
            /\ Goto(t, "write", [loc[t] EXCEPT !.book = book])
            /\ UNCHANGED <<funds, tables>>

\* Mutant: a full close releases the margin and leaves it on the row.
FilledKeepsMargin(book, action, qty, price, om) ==
  LET net == book.net + Signed(action, qty)
      gain == (IF book.net > 0 THEN price - book.avg ELSE book.avg - price)
                * Least(Abs(book.net), qty)
  IN  IF book.net = 0
      THEN [net |-> net, avg |-> price, margin |-> book.margin + om, rel |-> 0, gain |-> 0]
      ELSE [net |-> net, avg |-> IF net = 0 THEN 0 ELSE price,
            margin |-> book.margin, rel |-> book.margin, gain |-> gain]

\* Mutant: the quantity beyond the open position is dropped.
FilledOffsetOnly(book, action, qty, price, om) ==
  LET offset == Least(Abs(book.net), qty)
      net == book.net + Signed(action, IF book.net = 0 THEN qty ELSE offset)
      gain == (IF book.net > 0 THEN price - book.avg ELSE book.avg - price) * offset
  IN  IF book.net = 0
      THEN [net |-> net, avg |-> price, margin |-> book.margin + om, rel |-> 0, gain |-> 0]
      ELSE [net |-> net, avg |-> IF net = 0 THEN 0 ELSE book.avg,
            margin |-> 0, rel |-> book.margin, gain |-> gain]

\* The position columns after a fill of qty at price, with the margin om of the
\* order, and the margin and PnL the caller has to book.
Filled(book, action, qty, price, om) ==
  LET net == book.net + Signed(action, qty)
      offset == Least(Abs(book.net), qty)
      prorata == IF book.margin > 0 THEN Round(book.margin * offset, Abs(book.net)) ELSE 0
      gain == (IF book.net > 0 THEN price - book.avg ELSE book.avg - price) * offset
  IN  CASE book.net = 0 ->
             [net |-> net, avg |-> price, margin |-> book.margin + om,
              rel |-> 0, gain |-> 0]
        [] book.net # 0 /\ net = 0 ->
             [net |-> 0, avg |-> 0, margin |-> 0, rel |-> book.margin, gain |-> gain]
        [] book.net # 0 /\ net # 0 /\ qty > offset ->
             [net |-> net, avg |-> price, margin |-> om, rel |-> book.margin, gain |-> gain]
        [] book.net # 0 /\ net # 0 /\ qty = offset ->
             [net |-> net, avg |-> book.avg,
              margin |-> IF prorata <= book.margin THEN book.margin - prorata ELSE 0,
              rel |-> prorata, gain |-> gain]

\* apply_fill commits: an insert of a row another thread has inserted violates
\* the unique index; an update writes the columns that differ from the read.
ApplyCommit(t) ==
  LET o == loc[t].cur
      k == orders[o].key
      book == loc[t].book
      f == Filled(book, orders[o].action, loc[t].qty, loc[t].px, loc[t].amt)
  IN  /\ pc[t] = "write"
      /\ \/ ~book.exists /\ pos[k].exists /\ Raise(t)
         \/ /\ book.exists \/ ~pos[k].exists
            /\ pos' = [pos EXCEPT ![k] =
                 [exists |-> TRUE, net |-> f.net,
                  avg |-> Written(book.avg, f.avg, pos[k].avg),
                  margin |-> Written(book.margin, f.margin, pos[k].margin)]]
            /\ IF f.rel > 0 \/ f.gain # 0
               THEN Goto(t, "release", [loc[t] EXCEPT !.amt = f.rel, !.gain = f.gain])
               ELSE Return(t, loc[t].work, loc[t].closing)
            /\ UNCHANGED <<funds, orders, trades, lost>>

\* Mutant: used_margin is not clamped at zero.
ReleaseMarginUnclamped(amt, pnl) ==
  /\ used' = used - amt
  /\ available' = available + amt + pnl
  /\ realized' = realized + pnl

\* Mutant: the PnL reaches the cash balance and not the PnL column.
ReleaseMarginUnbooked(amt, pnl) ==
  /\ used' = IF used >= amt THEN used - amt ELSE 0
  /\ available' = available + amt + pnl
  /\ realized' = realized

\* fund_manager.release_margin
ReleaseMargin(amt, pnl) ==
  /\ used' = IF used >= amt THEN used - amt ELSE 0
  /\ available' = available + amt + pnl
  /\ realized' = realized + pnl

FillRelease(t) ==
  /\ pc[t] = "release"
  /\ ReleaseMargin(loc[t].amt, loc[t].gain)
  /\ Return(t, loc[t].work, loc[t].closing)
  /\ UNCHANGED tables

-----------------------------------------------------------------------------
(* Cancelling and modifying *)

\* order_manager.cancel_order reads a pending row ...
CancelOrder(c, o) ==
  /\ MayStart(c) /\ "cancel" \in Ops
  /\ orders[o].status \in Pending
  /\ Goto(c, "cancel_commit", [Fresh("cancel", {}, {}) EXCEPT !.cur = o])
  /\ UNCHANGED <<funds, tables>>

\* list_cancellable_orders, at the head of cancel_all_orders
CancelAllOrders(c) ==
  LET listed == {<<o, orders[o]>> : o \in {p \in Orders : orders[p].status \in Pending}}
  IN  /\ MayStart(c) /\ "cancelall" \in Ops
      /\ listed # {}
      /\ Goto(c, "cancel_loop", Fresh("cancelall", listed, {}))
      /\ UNCHANGED <<funds, tables>>

CancelNext(c) ==
  /\ pc[c] = "cancel_loop"
  /\ \E x \in loc[c].work :
       \/ /\ orders[x[1]].status \notin Pending
          /\ Return(c, loc[c].work \ {x}, {})
       \/ /\ orders[x[1]].status \in Pending
          /\ Goto(c, "cancel_commit", [loc[c] EXCEPT !.cur = x[1], !.work = @ \ {x}])
  /\ UNCHANGED <<funds, tables>>

\* ... and writes it; the refreshed row says how much margin to release.
CancelCommit(c) ==
  LET o == loc[c].cur
  IN  /\ pc[c] = "cancel_commit"
      /\ orders' = [orders EXCEPT ![o].status = "cancelled"]
      /\ IF orders[o].margin > 0
         THEN Goto(c, "cancel_release", [loc[c] EXCEPT !.amt = orders[o].margin])
         ELSE Return(c, loc[c].work, {})
      /\ UNCHANGED <<funds, trades, pos, lost>>

CancelRelease(c) ==
  /\ pc[c] = "cancel_release"
  /\ ReleaseMargin(loc[c].amt, 0)
  /\ Return(c, loc[c].work, {})
  /\ UNCHANGED tables

\* order_manager.modify_order reads a pending row ...
ModifyOrder(c, o) ==
  /\ MayStart(c) /\ "modify" \in Ops
  /\ orders[o].status \in Pending
  /\ Goto(c, "modify_commit", Fresh("modify", {<<o, orders[o]>>}, {}))
  /\ UNCHANGED <<funds, tables>>

\* ... and writes the payload's columns; a quantity of 0 means "keep".  Neither
\* the status nor the blocked margin is touched.
ModifyCommit(c, ch) ==
  /\ pc[c] = "modify_commit"
  /\ \E x \in loc[c].work :
       LET o == x[1]
           read == x[2]
           now == orders[o]
           row == [now EXCEPT
                     !.qty = Written(read.qty, IF ch.qty # 0 THEN ch.qty ELSE read.qty, now.qty),
                     !.price = Written(read.price, ch.price, now.price),
                     !.trig = Written(read.trig, ch.trig, now.trig),
                     !.ptype = Written(read.ptype, ch.ptype, now.ptype)]
       IN  orders' = [orders EXCEPT ![o] = row]
  /\ Return(c, {}, {})
  /\ UNCHANGED <<funds, trades, pos, lost>>

-----------------------------------------------------------------------------

ClientStep(c) ==
  \/ \E o \in Orders, r \in Requests : PlaceOrder(c, o, r)
  \/ \E o \in Orders, r \in Requests, n \in Targets : PlaceSmartOrder(c, o, r, n)
  \/ \E k \in Keys : ClosePosition(c, k)
  \/ CloseAllPositions(c)
  \/ \E o \in Orders : CloseNext(c, o)
  \/ Validate(c)
  \/ SizeMargin(c)
  \/ BlockMargin(c)
  \/ CreateOrder(c)
  \/ \E o \in Orders : CancelOrder(c, o)
  \/ CancelAllOrders(c)
  \/ CancelNext(c)
  \/ CancelCommit(c)
  \/ CancelRelease(c)
  \/ \E o \in Orders : ModifyOrder(c, o)
  \/ \E ch \in Changes : ModifyCommit(c, ch)

FillStep(t) ==
  \/ TryFill(t)
  \/ FillCommit(t)
  \/ ApplySelect(t)
  \/ ApplyCommit(t)
  \/ FillRelease(t)

Next ==
  \/ \E c \in Clients : ClientStep(c)
  \/ \E e \in Engines : ListPending(e)
  \/ \E t \in Threads : FillStep(t)

Spec == Init /\ [][Next]_vars

\* The engine threads run for as long as the process does, and a call that has
\* begun goes on to its end.  Clients owe nobody a new request.
Fairness ==
  /\ \A e \in Engines : WF_vars(ListPending(e))
  /\ \A t \in Threads : WF_vars(FillStep(t))
  /\ \A c \in Clients : WF_vars(pc[c] # "idle" /\ ClientStep(c))

FairSpec == Spec /\ Fairness

-----------------------------------------------------------------------------
(* Properties *)

TypeOK ==
  /\ available \in Int /\ used \in Nat /\ realized \in Int
  /\ orders \in [Orders -> Row]
  /\ trades \in [Orders -> Seq(Trade)]
  /\ lost \in [Orders -> Seq(Trade)]
  /\ pos \in [Keys -> PosRow]
  /\ pc \in [Threads -> PCs]
  /\ loc \in [Threads -> Locals]

\* Every rupee that left the cash balance is still somewhere on the funds row:
\* no interleaving of fills, cancels and blocks destroys money (block_margin,
\* release_margin).  The clamp max(0, used_margin - amount) can only create it.
EquityNeverDestroyed == available + used >= Capital + realized

\* The funds row follows its abstract specification under every interleaving:
\* margin comes out of cash that is there, and a release never destroys money.
Ledger == INSTANCE MarginLedger
            WITH Capital <- Capital, available <- available, used <- used,
                 realized <- realized
FundsRowIsALedger == Ledger!Spec

\* A trade exists exactly for the complete orders, one for each: an order is
\* never filled twice, a cancelled or rejected order has no trade
\* (order_manager.fill and cancel_order).
TradeIffComplete ==
  \A o \in Orders : Len(trades[o]) = IF orders[o].status = "complete" THEN 1 ELSE 0

\* A trade belongs to an order that passed validation and the margin check,
\* however the threads interleave: place_order rejects before anything fills.
OnlyAcceptedOrdersTrade ==
  \A o \in Orders :
    trades[o] # <<>> => orders[o].status \notin {"unused", "placing", "rejected"}

\* A filled LIMIT or SL order was executed at the limit price its row shows
\* (_fill_price: "execute at limit price").
LimitExecutedAtLimit ==
  \A o \in Orders :
    (orders[o].status = "complete" /\ orders[o].ptype \in {"LIMIT", "SL"}) =>
      \A i \in DOMAIN trades[o] : trades[o][i].price = orders[o].price

\* Both together.
TradesMatchOrders == TradeIffComplete /\ LimitExecutedAtLimit

\* The margin somebody still has a claim on: blocked for an order that is being
\* created or is pending, carried by a position, or about to be released.
InFlight(t) ==
  IF pc[t] \in {"create", "fill", "apply", "write", "release", "cancel_release"}
  THEN loc[t].amt ELSE 0
OrderClaim(o) ==
  IF orders[o].status \in Pending /\ ~\E t \in Threads : pc[t] = "fill" /\ loc[t].cur = o
  THEN orders[o].margin ELSE 0
CommittedMargin ==
  SumFunction([o \in Orders |-> OrderClaim(o)])
    + SumFunction([k \in Keys |-> pos[k].margin])
    + SumFunction([t \in Threads |-> InFlight(t)])

\* used_margin covers every claim on it, so that releasing one never eats into
\* the margin of another and the clamp in release_margin never acts.
CommittedMarginIsCovered == CommittedMargin <= used

\* Cash and margin add up to the starting capital and the booked PnL exactly:
\* nothing is released twice.
NoMoneyMinted == available + used = Capital + realized

\* When no fill is under way, the net position of a key is what its trades add
\* up to, the ones whose position update raised left out (apply_fill).
Traded(book, o) ==
  SumFunction([i \in DOMAIN book[o] |-> Signed(orders[o].action, book[o][i].qty)])
NetOf(book, k) ==
  SumFunction([o \in Orders |-> IF orders[o].key = k THEN Traded(book, o) ELSE 0])
Quiet == \A t \in Threads : pc[t] \notin {"fill", "apply", "write"}
NetMatchesAppliedTrades ==
  Quiet => \A k \in Keys : pos[k].net = NetOf(trades, k) - NetOf(lost, k)

\* Every trade reaches the position book: position_manager.py says that a fill
\* in the direction of the position accumulates.
EveryTradeIsApplied == \A o \in Orders : lost[o] = <<>>

\* The open part of a position is margined: apply_fill says that the order "was
\* sized to block margin only for the leftover", so the margin of a reversed
\* position is the order's margin.
OpenPositionIsMargined ==
  Quiet => \A k \in Keys : pos[k].net # 0 => pos[k].margin > 0

\* A delivery position is never short by more than the user owns: validate_order
\* says "CNC SELL must be against existing inventory".
NoNakedDelivery ==
  \A k \in Keys : Product[k] = "CNC" => pos[k].net >= -Holding[k]

\* A pending MARKET order is eventually filled or cancelled by the poll loop
\* when quotes can be had, whatever exceptions abort single passes (_poll_loop).
MarketOrdersAreFilled ==
  \A o \in Orders :
    (orders[o].status \in Pending /\ orders[o].ptype = "MARKET") ~>
      (orders[o].status \notin Pending \/ orders[o].ptype # "MARKET")
=============================================================================
