--------------------------- MODULE SandboxSession ---------------------------
(***************************************************************************)
(* The time-driven side of the sandbox: the clock, the scheduler thread    *)
(* and its jobs (square-off, T+1 settlement, daily and weekly reset), the  *)
(* catch-up that runs at every start of the process, and the requests that *)
(* call the same jobs (sandbox/scheduler.py, catch_up, squareoff,          *)
(* t1_settle, daily_reset, weekly_reset, routers/sandbox.py).  The EOD     *)
(* snapshot reads the book for a report and changes nothing here.          *)
(*                                                                         *)
(* A job is a list of database transactions; a crash or another thread may *)
(* come between any two.  A transaction that reads rows and writes them    *)
(* back later is two steps.  Threads hold an agenda: the tasks still to be *)
(* done, the head being the one at work.                                   *)
(*                                                                         *)
(* Dates are ages: 0 is today, 1 yesterday; midnight makes everything one  *)
(* day older, so the calendar has no end and the state space has one.      *)
(* Fills are one step here (their interleavings are SandboxBook's), every  *)
(* share costs and is margined with one unit of money.                     *)
(***************************************************************************)
EXTENDS Integers, Sequences, FiniteSets, Functions

CONSTANTS
  Keys,         \* position keys: (symbol, exchange, product)
  Product,      \* product of a key: "CNC", "MIS" or "FNO" (an NRML contract)
  Quantities,   \* signed quantities with which a user opens a position
  Pnls,         \* PnL a closing fill may realize
  Capital,      \* starting capital
  Weekly,       \* reset_day names a day of the week (it is not "Never")
  QuotesMove,   \* the MTM thread writes changed quotes into open positions
  WebOps,       \* admin and user requests that are sent
  MaxCrashes,   \* bound: crashes of the process
  MaxHeld,      \* bound: settled shares of a symbol
  MaxBooked,    \* bound: booked PnL in either direction
  MaxCash,      \* bound: cash with which a user still opens positions
  Serial        \* TRUE: a thread, a request or a fill starts only when no
                \* thread is inside a job

Threads == {"jobs", "web"}       \* boot and then scheduler loop; request thread
Jobs == {"squareoff", "eod", "daily", "weekly"}
AllWebOps == {"squareoff", "settle", "wipe", "reset", "reconcile"}

Delivery == {k \in Keys : Product[k] = "CNC"}
Intraday == {k \in Keys : Product[k] = "MIS"}
Contracts == {k \in Keys : Product[k] = "FNO"}

ASSUME KeysAssumption == IsFiniteSet(Keys) /\ Product \in [Keys -> {"CNC", "MIS", "FNO"}]
ASSUME InputsAssumption ==
  /\ Quantities \subseteq Int \ {0}
  /\ Pnls \subseteq Int
  /\ {Capital, MaxCrashes, MaxHeld, MaxBooked, MaxCash} \subseteq Nat
  /\ {Weekly, QuotesMove, Serial} \subseteq BOOLEAN
  /\ WebOps \subseteq AllWebOps

VARIABLES
  slot,        \* time of day: 0 from 00:00, 1 from the square-off, 2 from 23:55
  sunday,      \* today is reset_day
  woke,        \* the scheduler has begun a pass in this slot (history)
  expired,     \* contracts whose expiry date has passed
  pos,         \* sandbox_positions: net quantity, age of updated_at, and the
               \* age of the last trade (history)
  resting,     \* margin of a pending MIS buy order, 0: none (sandbox_orders)
  holding,     \* sandbox_holdings: quantity
  fund,        \* sandbox_funds: available, used, realized, today
  last,        \* _sched_last_* markers: 0 is today, 1 an earlier day or never
  up,          \* "down", "boot" or "up"
  agenda, pc, loc,  \* per thread: tasks to do, where in the first, locals
  made,        \* PnL the user's fills realized since midnight (history)
  upset,       \* what has left the funds row out of step (history)
  crashes      \* crashes so far (bounded by MaxCrashes)

world == <<slot, sunday, woke, expired>>
book == <<pos, resting, holding>>
control == <<agenda, pc, loc>>
history == <<made, upset, crashes>>
vars == <<slot, sunday, woke, expired, pos, resting, holding, fund, last,
          up, agenda, pc, loc, made, upset, crashes>>

-----------------------------------------------------------------------------
(* Helpers *)

AbsOf(n) == IF n < 0 THEN -n ELSE n
MaxOf(a, b) == IF a > b THEN a ELSE b
MinOf(a, b) == IF a < b THEN a ELSE b
SizeOf(f) == SumFunction([k \in DOMAIN f |-> AbsOf(f[k])])

\* What a closing fill may realize, within the bound.
Outcomes == {0} \cup {p \in Pnls : AbsOf(fund.realized + p) <= MaxBooked}

NoPosition == [qty |-> 0, upd |-> 0, trd |-> 0]
NoRows == [k \in Keys |-> 0]

\* rows: the quantities a task has read; live: the rows of those that have not
\* been deleted since; held: the holdings as read; cash, booked: the funds row
\* as read.
NoLocals == [age |-> 0, rows |-> NoRows, live |-> {}, held |-> NoRows,
             amt |-> 0, pnl |-> 0, cash |-> 0, booked |-> 0]

\* Mutant: released margin is spent
ReleaseSpent(amt, pnl) ==
  fund' = [fund EXCEPT !.used = MaxOf(0, @ - amt), !.available = @ + pnl,
                       !.realized = @ + pnl, !.today = @ + pnl]

\* Mutant: no clamp at zero
ReleaseUnclamped(amt, pnl) ==
  fund' = [fund EXCEPT !.used = @ - amt, !.available = @ + amt + pnl,
                       !.realized = @ + pnl, !.today = @ + pnl]

\* fund_manager.release_margin
Release(amt, pnl) ==
  fund' = [fund EXCEPT !.used = MaxOf(0, @ - amt), !.available = @ + amt + pnl,
                       !.realized = @ + pnl, !.today = @ + pnl]

\* A fill of d against a net quantity n first closes, then opens.
ClosingPart(n, d) == IF n * d < 0 THEN MinOf(AbsOf(n), AbsOf(d)) ELSE 0
OpeningPart(n, d) == AbsOf(d) - ClosingPart(n, d)

\* A MARKET order of d shares that is placed and filled: margin for what it
\* opens, PnL and margin back for what it closes.  A fill that accumulates
\* raises in apply_fill: the position stays as it is.
Trade(k, d, pnl) ==
  LET n == pos[k].qty
      closing == ClosingPart(n, d)
      opening == OpeningPart(n, d)
      booked == IF closing > 0 THEN pnl ELSE 0
  IN  /\ opening <= fund.available
      /\ pos' = IF n * d > 0 THEN pos
                ELSE [pos EXCEPT ![k] = [qty |-> n + d, upd |-> 0, trd |-> 0]]
      /\ fund' = [fund EXCEPT
                    !.used = MaxOf(0, @ + opening - closing),
                    !.available = @ - opening + closing + booked,
                    !.realized = @ + booked, !.today = @ + booked]
      /\ made' = made + booked

Idle(t) == agenda[t] = <<>>
AtTask(t, task) == ~Idle(t) /\ pc[t] = "next" /\ Head(agenda[t]) = task
MayStart == Serial => \A t \in Threads : Idle(t)

\* The first task of t is done (or has raised, and the error is swallowed).
Done(t) ==
  /\ agenda' = [agenda EXCEPT ![t] = Tail(@)]
  /\ pc' = [pc EXCEPT ![t] = "next"]
  /\ loc' = [loc EXCEPT ![t] = IF Len(agenda[t]) = 1 THEN NoLocals
                               ELSE [NoLocals EXCEPT !.age = loc[t].age]]

Goto(t, label, l) ==
  /\ pc' = [pc EXCEPT ![t] = label]
  /\ loc' = l
  /\ UNCHANGED agenda

Init ==
  /\ slot = 0 /\ sunday = FALSE /\ woke = FALSE /\ expired = {}
  /\ pos = [k \in Keys |-> NoPosition]
  /\ resting = [k \in Keys |-> 0]
  /\ holding = [k \in Delivery |-> 0]
  /\ fund = [available |-> Capital, used |-> 0, realized |-> 0, today |-> 0]
  /\ last = [j \in Jobs |-> 1]
  /\ up = "down"
  /\ agenda = [t \in Threads |-> <<>>]
  /\ pc = [t \in Threads |-> "next"]
  /\ loc = [t \in Threads |-> NoLocals]
  /\ made = 0 /\ upset = {} /\ crashes = 0

-----------------------------------------------------------------------------
(* The clock and the process *)

\* Assumption on timing: the process sleeps 60 s between passes and 23:55 is
\* five minutes before midnight, so a pass begins in every slot the process is
\* up in, a pass ends before the next slot but one, and no boot is under way at
\* a boundary.
SchedulerKeepsUp == up = "down" \/ (up = "up" /\ woke /\ loc["jobs"].age = 0)

NextSlot ==
  /\ slot < 2
  /\ SchedulerKeepsUp
  /\ slot' = slot + 1 /\ woke' = FALSE
  /\ UNCHANGED <<sunday, expired, book, fund, last, up, control, history>>

\* Everything gets a day older; contracts may pass their expiry date.
Midnight ==
  /\ slot = 2
  /\ SchedulerKeepsUp
  /\ slot' = 0 /\ woke' = FALSE
  /\ sunday' \in (IF sunday \/ ~Weekly THEN {FALSE} ELSE BOOLEAN)
  /\ \E gone \in SUBSET Contracts : expired' = expired \cup gone
  /\ pos' = [k \in Keys |-> IF pos[k].qty = 0 THEN pos[k]
                            ELSE [pos[k] EXCEPT !.upd = 1, !.trd = 1]]
  /\ last' = [j \in Jobs |-> 1]
  /\ loc' = [t \in Threads |-> IF Idle(t) THEN loc[t] ELSE [loc[t] EXCEPT !.age = 1]]
  /\ made' = 0
  /\ UNCHANGED <<resting, holding, fund, up, agenda, pc, upset, crashes>>

\* main.py: the catch-up runs before the engine, the scheduler and the server.
BootTasks == <<"stale", "settle", "expired", "today">>

Boot ==
  /\ up = "down"
  /\ up' = "boot"
  /\ agenda' = [agenda EXCEPT !["jobs"] = BootTasks]
  /\ UNCHANGED <<world, book, fund, last, pc, loc, history>>

Started ==
  /\ up = "boot" /\ Idle("jobs")
  /\ up' = "up" /\ woke' = FALSE
  /\ UNCHANGED <<slot, sunday, expired, book, fund, last, control, history>>

Wiping == \E t \in Threads : pc[t] = "wipe_funds"

\* The process dies between two transactions; the tables survive.
Crash ==
  /\ up # "down" /\ crashes < MaxCrashes
  /\ up' = "down" /\ crashes' = crashes + 1
  /\ agenda' = [t \in Threads |-> <<>>]
  /\ pc' = [t \in Threads |-> "next"]
  /\ loc' = [t \in Threads |-> NoLocals]
  /\ upset' = IF Wiping THEN upset \cup {"torn wipe"} ELSE upset
  /\ UNCHANGED <<world, book, fund, last, made>>

\* scheduler._tick: the clock is read once; every job that is due runs and is
\* marked afterwards.
SlotOf(j) == CASE j = "squareoff" -> 1 [] j = "eod" -> 2 [] OTHER -> 0
Due(j) ==
  /\ slot >= SlotOf(j)
  /\ last[j] # 0
  /\ j = "weekly" => (Weekly /\ sunday)
MarkOf ==
  [squareoff |-> "mark_squareoff", eod |-> "mark_eod",
   daily |-> "mark_daily", weekly |-> "mark_weekly"]
TasksOf(j) ==
  CASE j = "squareoff" -> <<"squareoff", MarkOf[j]>>
    [] j = "eod" -> <<"settle", MarkOf[j]>>
    [] j = "daily" -> <<"today", "expired", MarkOf[j]>>
    [] j = "weekly" -> <<"wipe", MarkOf[j]>>
IfDue(j) == IF Due(j) THEN TasksOf(j) ELSE <<>>

Tick ==
  /\ up = "up" /\ Idle("jobs") /\ MayStart
  /\ agenda' = [agenda EXCEPT !["jobs"] =
                  IfDue("squareoff") \o IfDue("eod") \o IfDue("daily") \o IfDue("weekly")]
  /\ woke' = TRUE
  /\ UNCHANGED <<slot, sunday, expired, book, fund, last, up, pc, loc, history>>

\* scheduler._mark_ran: the date of the pass, not of the moment.
Mark(t, j) ==
  /\ AtTask(t, MarkOf[j])
  /\ last' = [last EXCEPT ![j] = loc[t].age]
  /\ Done(t)
  /\ UNCHANGED <<world, book, fund, up, history>>

\* routers/sandbox.py: the requests that run jobs.  Bound: one reconciliation
\* that writes between two wipes (each may create money).
WebCall(op) ==
  /\ up = "up" /\ Idle("web") /\ MayStart
  /\ op = "reconcile" => "reconciled" \notin upset
  /\ agenda' = [agenda EXCEPT !["web"] = <<op>>]
  /\ UNCHANGED <<world, book, fund, last, up, pc, loc, history>>

-----------------------------------------------------------------------------
(* Users, the filling engine and the MTM thread *)

MayTrade == up = "up" /\ MayStart

\* order_validation: a CNC sale is covered by the holding and the long position,
\* an MIS order after the square-off only reduces.
Owned(k) == IF k \in Delivery THEN holding[k] + MaxOf(0, pos[k].qty) ELSE 0
Permitted(k, d) ==
  /\ k \notin expired
  /\ (k \in Delivery /\ d < 0) => Owned(k) >= -d
  /\ (k \in Delivery /\ d > 0) => holding[k] + d <= MaxHeld
  /\ (k \in Intraday /\ slot > 0) => pos[k].qty * d < 0

OpenPosition(k) ==
  /\ MayTrade /\ pos[k].qty = 0 /\ fund.available <= MaxCash
  /\ \E d \in Quantities : Permitted(k, d) /\ Trade(k, d, 0)
  /\ UNCHANGED <<world, resting, holding, last, up, control, upset, crashes>>

ReducePosition(k) ==
  /\ MayTrade /\ pos[k].qty # 0
  /\ LET d == IF pos[k].qty > 0 THEN -1 ELSE 1
     IN  Permitted(k, d) /\ \E p \in Outcomes : Trade(k, d, p)
  /\ UNCHANGED <<world, resting, holding, last, up, control, upset, crashes>>

\* A pending MIS limit order to buy one share, its margin blocked.
RestOrder(k) ==
  /\ MayTrade /\ k \in Intraday /\ resting[k] = 0 /\ fund.available \in 1..MaxCash
  /\ Permitted(k, 1)
  /\ resting' = [resting EXCEPT ![k] = 1]
  /\ fund' = [fund EXCEPT !.available = @ - 1, !.used = @ + 1]
  /\ UNCHANGED <<world, pos, holding, last, up, control, history>>

\* The engine fills it: its margin opens the position, stays blocked when the
\* fill accumulates (apply_fill raises), or is released when it closes a short.
FillOrder(k) ==
  /\ MayTrade /\ resting[k] > 0
  /\ resting' = [resting EXCEPT ![k] = 0]
  /\ LET n == pos[k].qty
     IN  \/ /\ n = 0
            /\ pos' = [pos EXCEPT ![k] = [qty |-> 1, upd |-> 0, trd |-> 0]]
            /\ UNCHANGED <<fund, made>>
         \/ n > 0 /\ UNCHANGED <<pos, fund, made>>
         \/ /\ n < 0
            /\ pos' = [pos EXCEPT ![k] = [qty |-> n + 1, upd |-> 0, trd |-> 0]]
            /\ \E p \in Outcomes : Release(1 + resting[k], p) /\ made' = made + p
  /\ UNCHANGED <<world, holding, last, up, control, upset, crashes>>

\* mtm_updater._refresh_once: a changed quote is written into the row, which
\* moves updated_at (onupdate) though nothing was traded.
MtmWrite(k) ==
  /\ QuotesMove /\ up = "up"
  /\ pos[k].qty # 0
  /\ pos' = [pos EXCEPT ![k].upd = 0]
  /\ UNCHANGED <<world, resting, holding, fund, last, up, control, history>>

-----------------------------------------------------------------------------
(* squareoff.squareoff_bucket *)

\* Mutant: the status of the cancelled orders is not written
CancelPendingKeepsRow(t) ==
  /\ AtTask(t, "squareoff")
  /\ UNCHANGED resting
  /\ Goto(t, "sq_release", [loc EXCEPT ![t].amt = SizeOf(resting)])
  /\ UNCHANGED <<world, pos, holding, fund, last, up, history>>

CancelPending(t) ==
  /\ AtTask(t, "squareoff")
  /\ resting' = [k \in Keys |-> 0]
  /\ IF resting = NoRows THEN Goto(t, "sq_list", loc)
     ELSE Goto(t, "sq_release", [loc EXCEPT ![t].amt = SizeOf(resting)])
  /\ UNCHANGED <<world, pos, holding, fund, last, up, history>>

CancelRelease(t) ==
  /\ pc[t] = "sq_release"
  /\ Release(loc[t].amt, 0)
  /\ Goto(t, "sq_list", [loc EXCEPT ![t].amt = 0])
  /\ UNCHANGED <<world, book, last, up, history>>

\* Mutant: only positions of today are squared off
ListIntradayOfToday(t) ==
  /\ pc[t] = "sq_list"
  /\ Goto(t, "sq_place",
          [loc EXCEPT ![t].rows =
             [k \in Keys |-> IF k \in Intraday /\ pos[k].upd = 0 THEN pos[k].qty ELSE 0]])
  /\ UNCHANGED <<world, book, fund, last, up, history>>

ListIntraday(t) ==
  /\ pc[t] = "sq_list"
  /\ Goto(t, "sq_place",
          [loc EXCEPT ![t].rows = [k \in Keys |-> IF k \in Intraday THEN pos[k].qty ELSE 0]])
  /\ UNCHANGED <<world, book, fund, last, up, history>>

\* The reverse order of one listed position: filled at the quantity listed.
SquareOff(t, k) ==
  /\ pc[t] = "sq_place" /\ loc[t].rows[k] # 0
  /\ Permitted(k, -loc[t].rows[k])
  /\ \E p \in Outcomes : Trade(k, -loc[t].rows[k], p)
  /\ loc' = [loc EXCEPT ![t].rows[k] = 0]
  /\ UNCHANGED <<world, resting, holding, last, up, agenda, pc, upset, crashes>>

\* No quote, no margin, nothing left to reduce: the order is refused and the loop goes on.
SquareOffRefused(t, k) ==
  /\ pc[t] = "sq_place" /\ loc[t].rows[k] # 0
  /\ loc' = [loc EXCEPT ![t].rows[k] = 0]
  /\ UNCHANGED <<world, book, fund, last, up, agenda, pc, history>>

SquareOffDone(t) ==
  /\ pc[t] = "sq_place" /\ \A k \in Keys : loc[t].rows[k] = 0
  /\ Done(t)
  /\ UNCHANGED <<world, book, fund, last, up, history>>

-----------------------------------------------------------------------------
(* t1_settle.settle_cnc_to_holdings *)

\* Long delivery rows last written before the session began, and the holdings.
Eligible == {k \in Delivery : pos[k].qty > 0 /\ pos[k].upd = 1}

SettleRead(t) ==
  /\ AtTask(t, "settle")
  /\ IF Eligible = {} THEN Done(t)
     ELSE Goto(t, "st_commit",
               [loc EXCEPT ![t].rows = [k \in Keys |-> IF k \in Eligible THEN pos[k].qty ELSE 0],
                           ![t].live = Eligible,
                           ![t].held = [k \in Keys |-> IF k \in Delivery THEN holding[k] ELSE 0]])
  /\ UNCHANGED <<world, book, fund, last, up, history>>

\* A holding that appeared since the read violates the unique index, one that
\* vanished leaves the UPDATE without a row: either way the flush raises.
SettleConflict(t) ==
  \E k \in Delivery :
    loc[t].rows[k] # 0 /\ ((loc[t].held[k] = 0) # (holding[k] = 0))

\* Mutant: the row is not deleted
SettledKeepsRow(t) ==
  /\ holding' = [k \in Delivery |->
                   IF loc[t].rows[k] # 0 THEN loc[t].held[k] + loc[t].rows[k] ELSE holding[k]]
  /\ UNCHANGED pos
  /\ Goto(t, "transfer", [loc EXCEPT ![t] = [NoLocals EXCEPT !.age = loc[t].age,
                                              !.amt = SizeOf(loc[t].rows)]])

\* The row as read goes into the holding, the row as it is now is deleted.
Settled(t) ==
  LET moved == {k \in Delivery : loc[t].rows[k] # 0}
      deleted == moved \cap loc[t].live
  IN  /\ holding' = [k \in Delivery |->
                       IF k \in moved THEN loc[t].held[k] + loc[t].rows[k] ELSE holding[k]]
      /\ pos' = [k \in Keys |-> IF k \in deleted THEN NoPosition ELSE pos[k]]
      /\ Goto(t, "transfer",
              [u \in Threads |->
                 IF u = t THEN [loc[t] EXCEPT !.rows = NoRows, !.live = {}, !.held = NoRows,
                                              !.amt = SizeOf(loc[t].rows)]
                 ELSE [loc[u] EXCEPT !.live = @ \ deleted]])

SettleCommit(t) ==
  /\ pc[t] = "st_commit" /\ ~SettleConflict(t)
  /\ Settled(t)
  /\ UNCHANGED <<world, resting, fund, last, up, history>>

\* The scheduler swallows the error and goes on, the request fails.
SettleAbort(t) ==
  /\ pc[t] = "st_commit" /\ SettleConflict(t)
  /\ IF t = "jobs" THEN Done(t)
     ELSE /\ agenda' = [agenda EXCEPT ![t] = <<>>]
          /\ pc' = [pc EXCEPT ![t] = "next"]
          /\ loc' = [loc EXCEPT ![t] = NoLocals]
  /\ UNCHANGED <<world, book, fund, last, up, history>>

\* fund_manager.transfer_margin_to_holdings: the margin is spent, not released.
TransferMargin(t) ==
  /\ pc[t] = "transfer"
  /\ fund' = [fund EXCEPT !.used = MaxOf(0, @ - loc[t].amt)]
  /\ Done(t)
  /\ UNCHANGED <<world, book, last, up, history>>

-----------------------------------------------------------------------------
(* catch_up: stale MIS and expired contracts *)

\* Closed in the position book at the last price, with the quantity that was
\* read; what it frees is booked later.
CloseRows(t, rows, p) ==
  /\ rows # NoRows
  /\ pos' = [k \in Keys |-> IF rows[k] # 0 THEN [pos[k] EXCEPT !.qty = 0, !.upd = 0]
                            ELSE pos[k]]
  /\ Goto(t, "free",
          [loc EXCEPT ![t].rows = NoRows, ![t].live = {}, ![t].amt = SizeOf(rows),
                      ![t].pnl = p])

\* _close_stale_mis_positions, which only a boot runs.
StaleRows == [k \in Keys |-> IF k \in Intraday /\ pos[k].upd = 1 THEN pos[k].qty ELSE 0]
CloseStale(t) ==
  /\ AtTask(t, "stale")
  /\ \/ \E p \in Outcomes : CloseRows(t, StaleRows, p)
     \/ StaleRows = NoRows /\ Done(t) /\ UNCHANGED pos
  /\ UNCHANGED <<world, resting, holding, fund, last, up, history>>

\* _close_expired_fno_positions: the rows are read, then priced by a request to
\* the broker, then written.
ExpiredRead(t) ==
  /\ AtTask(t, "expired")
  /\ LET rows == {k \in expired : pos[k].qty # 0}
     IN  IF rows = {} THEN Done(t)
         ELSE Goto(t, "ex_commit",
                   [loc EXCEPT ![t].rows = [k \in Keys |-> IF k \in rows THEN pos[k].qty ELSE 0],
                               ![t].live = rows])
  /\ UNCHANGED <<world, book, fund, last, up, history>>

ExpiredCommit(t) ==
  /\ pc[t] = "ex_commit" /\ \A k \in Keys : loc[t].rows[k] # 0 => k \in loc[t].live
  /\ \E p \in Outcomes : CloseRows(t, loc[t].rows, p)
  /\ UNCHANGED <<world, resting, holding, fund, last, up, history>>

\* A row was deleted since: the UPDATE matches nothing, the flush raises.
ExpiredAbort(t) ==
  /\ pc[t] = "ex_commit" /\ \E k \in Keys : loc[t].rows[k] # 0 /\ k \notin loc[t].live
  /\ Done(t)
  /\ UNCHANGED <<world, book, fund, last, up, history>>

FreeMargin(t) ==
  /\ pc[t] = "free"
  /\ Release(loc[t].amt, 0)
  /\ IF loc[t].pnl = 0 THEN Done(t)
     ELSE Goto(t, "book_read", [loc EXCEPT ![t].amt = 0])
  /\ UNCHANGED <<world, book, last, up, history>>

\* The realized PnL goes to the cumulative bucket only, in a transaction of its
\* own that does not take the user's fund lock.
BookRead(t) ==
  /\ pc[t] = "book_read"
  /\ Goto(t, "book_write", [loc EXCEPT ![t].cash = fund.available,
                                       ![t].booked = fund.realized])
  /\ UNCHANGED <<world, book, fund, last, up, history>>

BookWrite(t) ==
  /\ pc[t] = "book_write"
  /\ fund' = [fund EXCEPT !.available = loc[t].cash + loc[t].pnl,
                          !.realized = loc[t].booked + loc[t].pnl]
  /\ Done(t)
  /\ UNCHANGED <<world, book, last, up, history>>

-----------------------------------------------------------------------------
(* daily_reset, weekly_reset, routers reset and reconcile *)

\* Mutant: the reset goes through the ORM, whose onupdate moves updated_at
ResetTodayTouches(t) ==
  /\ AtTask(t, "today")
  /\ fund' = [fund EXCEPT !.today = 0]
  /\ pos' = [k \in Keys |-> [pos[k] EXCEPT !.upd = 0]]
  /\ Done(t)
  /\ UNCHANGED <<world, resting, holding, last, up, history>>

ResetToday(t) ==
  /\ AtTask(t, "today")
  /\ fund' = [fund EXCEPT !.today = 0]
  /\ Done(t)
  /\ UNCHANGED <<world, book, last, up, history>>

\* weekly_reset.wipe_all_users, and the user's own reset.
Wipe(t) ==
  /\ AtTask(t, "wipe") \/ AtTask(t, "reset")
  /\ pos' = [k \in Keys |-> NoPosition]
  /\ resting' = [k \in Keys |-> 0]
  /\ holding' = [k \in Delivery |-> 0]
  /\ Goto(t, "wipe_funds", [u \in Threads |-> [loc[u] EXCEPT !.live = {}]])
  /\ UNCHANGED <<world, fund, last, up, history>>

\* fund_manager.reset_funds, after the rows are gone.
WipeFunds(t) ==
  /\ pc[t] = "wipe_funds"
  /\ fund' = [available |-> Capital, used |-> 0, realized |-> 0, today |-> 0]
  /\ made' = 0 /\ upset' = {}
  /\ Done(t)
  /\ UNCHANGED <<world, book, last, up, crashes>>

\* fund_manager.reconcile_margin: what positions do not account for is freed.
Reconcile(t) ==
  /\ AtTask(t, "reconcile")
  /\ LET orphan == fund.used - SizeOf([k \in Keys |-> pos[k].qty])
     IN  IF orphan > 0
         THEN /\ fund' = [fund EXCEPT !.used = @ - orphan, !.available = @ + orphan]
              /\ upset' = upset \cup {"reconciled"}
         ELSE UNCHANGED <<fund, upset>>
  /\ Done(t)
  /\ UNCHANGED <<world, book, last, up, made, crashes>>

-----------------------------------------------------------------------------

UserStep ==
  \/ \E k \in Keys : OpenPosition(k) \/ ReducePosition(k) \/ RestOrder(k)
  \/ \E op \in WebOps : WebCall(op)

TaskStep(t) ==
  \/ \E j \in Jobs : Mark(t, j)
  \/ CancelPending(t) \/ CancelRelease(t) \/ ListIntraday(t)
  \/ \E k \in Keys : SquareOff(t, k) \/ SquareOffRefused(t, k)
  \/ SquareOffDone(t)
  \/ SettleRead(t) \/ SettleCommit(t) \/ SettleAbort(t) \/ TransferMargin(t)
  \/ CloseStale(t) \/ ExpiredRead(t) \/ ExpiredCommit(t) \/ ExpiredAbort(t)
  \/ FreeMargin(t) \/ BookRead(t) \/ BookWrite(t)
  \/ ResetToday(t) \/ Wipe(t) \/ WipeFunds(t) \/ Reconcile(t)

Next ==
  \/ NextSlot \/ Midnight
  \/ Boot \/ Started \/ Crash \/ Tick
  \/ UserStep
  \/ \E k \in Keys : FillOrder(k) \/ MtmWrite(k)
  \/ \E t \in Threads : TaskStep(t)

Spec == Init /\ [][Next]_vars

\* Time passes, the process is started, the threads go on and the scheduler's
\* loop comes round: each is a thread of its own that nothing blocks for good.
\* A square-off order that is tried again and again finds a quote and margin
\* in the end.  Users owe nobody a request, the process need not crash.
Fairness ==
  /\ WF_vars(NextSlot) /\ WF_vars(Midnight)
  /\ WF_vars(Boot) /\ WF_vars(Started) /\ WF_vars(Tick)
  /\ \A t \in Threads : WF_vars(TaskStep(t))
  /\ SF_vars(\E k \in Keys : SquareOff("jobs", k))

FairSpec == Spec /\ Fairness

-----------------------------------------------------------------------------
(* Properties *)

PCs == {"next", "sq_release", "sq_list", "sq_place", "st_commit", "transfer",
        "ex_commit", "free", "book_read", "book_write", "wipe_funds"}
Tasks == {"stale", "settle", "expired", "today", "squareoff", "wipe", "reset", "reconcile"}
           \cup {MarkOf[j] : j \in Jobs}

TypeOK ==
  /\ slot \in 0..2 /\ sunday \in BOOLEAN /\ woke \in BOOLEAN
  /\ expired \subseteq Contracts
  /\ pos \in [Keys -> [qty : Int, upd : 0..1, trd : 0..1]]
  /\ resting \in [Keys -> Nat]
  /\ holding \in [Delivery -> Nat]
  /\ fund \in [available : Int, used : Nat, realized : Int, today : Int]
  /\ last \in [Jobs -> 0..1]
  /\ up \in {"down", "boot", "up"}
  /\ agenda \in [Threads -> Seq(Tasks)]
  /\ pc \in [Threads -> PCs]
  /\ loc \in [Threads -> [age : 0..1, rows : [Keys -> Int], live : SUBSET Keys,
                          held : [Keys -> Nat], amt : Nat, pnl : Int,
                          cash : Int, booked : Int]]
  /\ made \in Int /\ upset \subseteq {"reconciled", "torn wipe"} /\ crashes \in 0..MaxCrashes

\* A share that was bought is in exactly one place until the account is wiped,
\* whatever job crashes between two transactions or runs a second time
\* (t1_settle moves rows in one transaction; models/sandbox.py SandboxHolding).
Book == INSTANCE DeliveryBook
          WITH Shares <- Delivery, position <- [k \in Delivery |-> pos[k].qty],
               holding <- holding
SharesAreDeliveredOnce == Book!Spec

\* A delivery position of an earlier session: long, not traded today.
Undelivered(k) == pos[k].qty > 0 /\ pos[k].trd = 1

\* Once the EOD job of today is marked as run, every delivery position of an
\* earlier session is in the holdings: a position is settled "on the next EOD
\* pass after at least one session has elapsed" (t1_settle.py:42).
EodSettlesEarlierSessions == last["eod"] = 0 => \A k \in Delivery : ~Undelivered(k)

\* And it gets there, through crashes, boots and wipes.
DeliveryIsSettled == \A k \in Delivery : Undelivered(k) ~> ~Undelivered(k)

\* The margin of pending orders and positions, and what a job is about to give
\* back or spend, is blocked: a job that crashes or reruns leaves too much
\* margin blocked, never too little.  reconcile_margin ignores pending orders.
InFlight(t) == IF pc[t] \in {"sq_release", "transfer", "free"} THEN loc[t].amt ELSE 0
ClaimedMargin ==
  SizeOf([k \in Keys |-> pos[k].qty]) + SizeOf(resting)
    + SumFunction([t \in Threads |-> InFlight(t)])
MarginIsCovered == "reconciled" \notin upset => ClaimedMargin <= fund.used

\* Cash, margin and settled shares at cost are never less than the capital and
\* the booked PnL: no job destroys money, unless the account is being wiped.
EquityNeverDestroyed ==
  ~Wiping /\ "torn wipe" \notin upset => fund.available + fund.used + SizeOf(holding) >= Capital + fund.realized

\* The reset only takes out what an earlier session left: catch_up.py:19 zeroes
\* rows "older than the last session boundary".
TodayIsKept == last["daily"] = 0 => fund.today = made

\* An intraday position that outlived its session, because its square-off was
\* refused or the process was down, is closed by a later square-off or boot
\* (squareoff.py, catch_up.py: "survived past their bucket's squareoff cut-off").
Overnight(k) == pos[k].qty # 0 /\ pos[k].trd = 1
IntradayIsFlattened == \A k \in Intraday : Overnight(k) ~> ~Overnight(k)
=============================================================================
