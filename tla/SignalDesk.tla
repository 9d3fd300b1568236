----------------------------- MODULE SignalDesk -----------------------------
(***************************************************************************)
(* Signal-mode strategies: webhook signals that enter and exit single      *)
(* legs, the auto-square at the end of the trading window, the operator's  *)
(* stop, kill switch and unlock, checkpoints, and recovery after a crash   *)
(* (strategy/webhook_handler.py, engine.py, recovery.py, checkpoint.py,    *)
(* scheduler.py, repository.py), for one strategy.                         *)
(*                                                                         *)
(* A task is a coroutine: a request, a webhook or the scheduler's job.  An *)
(* action is what it does between two awaits that others can observe.      *)
(* What a leg holds is known three times: by the venue (the orders it has  *)
(* filled), by the order rows, and by the run state in Redis, which is     *)
(* what decides.                                                           *)
(***************************************************************************)
EXTENDS Integers, Sequences, FiniteSets, Functions

CONSTANTS
  Tasks,       \* coroutines
  Cron,        \* the one of them that runs the scheduled auto-stop
  Legs,        \* leg ids
  LegSide,     \* per leg, the configured side: "long", "short" or "both"
  Directions,  \* values the operator gives to strategy.direction
  Runs,        \* run ids, in the order they are given out
  Modes,       \* modes of a webhook payload: subset of {"sandbox", "live"}
  Answers,     \* what the venue does with an order
  AutoStop,    \* TRUE: the scheduler has an auto_stop_time, and it is exit_time
  MaxOrders,   \* bound: orders sent when a signal is taken
  MaxCrashes,  \* bound: crashes of the process
  Serial,      \* TRUE: a request starts when no task is under way
  NONE

Signals == {"long_entry", "long_exit", "short_entry", "short_exit"}
AllAnswers == {"filled", "resting", "refused"}

ASSUME TasksAssumption == Cron \in Tasks /\ NONE \notin Tasks
ASSUME LegsAssumption == LegSide \in [Legs -> {"long", "short", "both"}]
ASSUME RunsAssumption == Runs \subseteq Nat /\ NONE \notin Runs
ASSUME InputsAssumption ==
  /\ Directions \subseteq {"both", "long_only", "short_only"} /\ "both" \in Directions
  /\ Modes \subseteq {"sandbox", "live"} /\ Answers \subseteq AllAnswers
  /\ AutoStop \in BOOLEAN /\ Serial \in BOOLEAN /\ MaxOrders \in Nat /\ MaxCrashes \in Nat

VARIABLES
  row,      \* SmStrategy: current_run_id, webhook_locked, direction
  holder,   \* the task whose transaction holds the row's FOR UPDATE lock
  runs,     \* SmStrategyRun: unborn, active or stopped; its mode
  state,    \* Redis run state: per leg current_side, and the exits whose P&L
            \* is in pnl_realized; NONE when there is none
  saved,    \* latest checkpoint of the run state
  orders,   \* every order sent: its sm_strategy_order row and the venue's view
  phase,    \* "before" entry_time, "active", "after" exit_time
  due,      \* the auto-stop job is to be fired
  up,       \* the process runs
  task,     \* per task, where it is and its local variables
  crashes   \* crashes so far (bounded by MaxCrashes)

desk == <<row, holder, runs, state, saved>>
clock == <<phase, due, up>>
vars == <<row, holder, runs, state, saved, orders, phase, due, up, task,
          crashes>>

-----------------------------------------------------------------------------
(* Helpers *)

Entries == {"long_entry", "short_entry"}
SideOf(a) == IF a \in {"long_entry", "long_exit"} THEN "long" ELSE "short"
ExitOf(side) == IF side = "long" THEN "long_exit" ELSE "short_exit"
Lot(side) == CASE side = "long" -> 1 [] side = "short" -> -1 [] OTHER -> 0

\* engine._direction_admits_entry, and its copy in the webhook handler.
Admits(direction, a) ==
  \/ direction = "both"
  \/ direction = "long_only" /\ SideOf(a) = "long"
  \/ direction = "short_only" /\ SideOf(a) = "short"

\* engine._intraday_window_status: entries from entry_time, nothing after
\* exit_time.
WindowRefuses(a) == phase = "after" \/ (a \in Entries /\ phase = "before")

FlatLegs == [side |-> [l \in Legs |-> "flat"], booked |-> 0]

\* by: what the task is about; seen: the SmStrategy object of its session; copy:
\* the run state it has read; todo: the legs still to square; nr: the order in
\* hand.
Idle == [pc |-> "idle", by |-> "signal", leg |-> NONE, act |-> NONE, mode |-> NONE,
         seen |-> NONE, run |-> NONE, copy |-> FlatLegs, todo |-> {}, nr |-> 0]

At(t, pc) == task[t].pc = pc
Become(t, local) == task' = [task EXCEPT ![t] = local]
Goto(t, pc) == Become(t, [task[t] EXCEPT !.pc = pc])
Free(t) == holder \in {NONE, t}
Unlocked(t) == IF holder = t THEN NONE ELSE holder

Active(r) == r \in Runs /\ runs[r].status = "active"
Quiet == \A t \in Tasks : At(t, "idle")
MayStart == Serial => Quiet

\* A webhook is answered; the exit of a square goes on to the next leg.
Finish(t) ==
  IF task[t].by = "signal"
  THEN Become(t, Idle) /\ holder' = Unlocked(t)
  ELSE Goto(t, "next") /\ UNCHANGED holder

Init ==
  /\ row = [run |-> NONE, locked |-> FALSE, direction |-> "both"]
  /\ holder = NONE
  /\ runs = [r \in Runs |-> [status |-> "unborn", mode |-> "sandbox"]]
  /\ state = [r \in Runs |-> NONE]
  /\ saved = [r \in Runs |-> NONE]
  /\ orders = <<>>
  /\ phase = "before" /\ due = FALSE /\ up = TRUE
  /\ task = [t \in Tasks |-> Idle]
  /\ crashes = 0

-----------------------------------------------------------------------------
(* webhook_handler: a signal *)

\* Bounds: a signal is taken while fewer than MaxOrders orders have been sent (the
\* orders of squares come on top) and a run is left for it.
RoomForOrders == Len(orders) < MaxOrders
RoomForRuns == row.run # NONE \/ \E r \in Runs : runs[r].status = "unborn"

\* handle_webhook: a locked strategy refuses every signal; a wrong token, body or
\* address, or too high a rate, leaves an event row only.
Heard == ~row.locked

\* The signal passes the gates of signal mode: one
\* that does not, or repeats a signal of the last seconds (its dedupe key may be
\* gone at any moment), leaves only an event row.
Receive(t, l, a, m) ==
  /\ up /\ t # Cron /\ At(t, "idle") /\ MayStart
  /\ RoomForOrders /\ (a \in Entries => RoomForRuns)
  /\ Heard
  /\ Admits(row.direction, a)
  /\ LegSide[l] \in {"both", SideOf(a)}
  /\ Become(t, [Idle EXCEPT !.pc = "load", !.leg = l, !.act = a, !.mode = m])
  /\ UNCHANGED <<desk, orders, clock, crashes>>

\* The strategy is loaded into the session of the dispatch.
Load(t) ==
  /\ At(t, "load")
  /\ Become(t, [task[t] EXCEPT !.pc = "gate", !.seen = row])
  /\ UNCHANGED <<desk, orders, clock, crashes>>

-----------------------------------------------------------------------------
(* engine.enter_leg and exit_leg_by_signal *)

\* SELECT ... FOR UPDATE waits for the row and returns the object the session has
\* loaded before: the gates see what it held then.
GateRefuses(t) ==
  \/ ~Admits(task[t].seen.direction, task[t].act)
  \/ task[t].by = "signal" /\ WindowRefuses(task[t].act)

\* Blocked by direction or window, or an exit without an active run.  The run of
\* a square is the session's object, active as it was loaded.
Refuse(t) ==
  /\ At(t, "gate") /\ Free(t)
  /\ \/ GateRefuses(t)
     \/ task[t].by = "signal" /\ task[t].act \notin Entries /\ ~Active(task[t].seen.run)
  /\ Finish(t)
  /\ UNCHANGED <<row, runs, state, saved, orders, clock, crashes>>

UseRun(t) ==
  /\ At(t, "gate") /\ Free(t) /\ ~GateRefuses(t)
  /\ Active(task[t].seen.run) \/ task[t].by # "signal"
  /\ holder' = t
  /\ Become(t, [task[t] EXCEPT !.pc = "look", !.run = task[t].seen.run])
  /\ UNCHANGED <<row, runs, state, saved, orders, clock, crashes>>

\* _get_or_create_signal_run: no active run, one is created; the commit lets go of
\* the row lock.
OpenRun(t) ==
  /\ At(t, "gate") /\ Free(t) /\ ~GateRefuses(t)
  /\ task[t].act \in Entries /\ ~Active(task[t].seen.run)
  /\ \E r \in Runs :
       /\ runs[r].status = "unborn" /\ \A s \in Runs : runs[s].status = "unborn" => r <= s
       /\ runs' = [runs EXCEPT ![r] = [status |-> "active", mode |-> task[t].mode]]
       /\ row' = [row EXCEPT !.run = r]
       /\ Become(t, [task[t] EXCEPT !.pc = "look", !.run = r, !.seen = row'])
  /\ holder' = Unlocked(t)
  /\ UNCHANGED <<state, saved, orders, clock, crashes>>

\* Mutant: no default for a run that has no state yet.
LookRaw(t) ==
  /\ At(t, "look")
  /\ Become(t, [task[t] EXCEPT !.pc = "act", !.copy = state[task[t].run]])
  /\ UNCHANGED <<desk, orders, clock, crashes>>

\* The run state is read; without one, all legs are flat.
Look(t) ==
  /\ At(t, "look")
  /\ LET s == state[task[t].run]
     IN  Become(t, [task[t] EXCEPT !.pc = "act", !.copy = IF s = NONE THEN FlatLegs ELSE s])
  /\ UNCHANGED <<desk, orders, clock, crashes>>

Found(t) == task[t].copy.side[task[t].leg]
Entering(t) == task[t].act \in Entries

\* already_in_position: what was read is written back.
AlreadyThere(t) ==
  /\ At(t, "act") /\ Entering(t) /\ Found(t) = SideOf(task[t].act)
  /\ state' = [state EXCEPT ![task[t].run] = task[t].copy]
  /\ Finish(t)
  /\ UNCHANGED <<row, runs, saved, orders, clock, crashes>>

\* position_conflict, no_matching_position, or a contract that is not resolved.
Decline(t) ==
  /\ At(t, "act")
  /\ Found(t) # SideOf(task[t].act)
  /\ Finish(t)
  /\ UNCHANGED <<row, runs, state, saved, orders, clock, crashes>>

\* Mutant: an exit is sent for any open position, whatever its side.
DispatchAnySide(t) ==
  /\ At(t, "act")
  /\ Entering(t) => Found(t) = "flat"
  /\ \E answer \in Answers :
       orders' = Append(orders,
                   [run |-> task[t].run, leg |-> task[t].leg, side |-> SideOf(task[t].act),
                    entry |-> Entering(t), mode |-> task[t].mode, at |-> answer, row |-> "none"])
  /\ Become(t, [task[t] EXCEPT !.pc = "record", !.nr = Len(orders) + 1])
  /\ UNCHANGED <<desk, clock, crashes>>

\* dispatch_order, in the mode of the payload or of the square.  The call blocks
\* the event loop; its row is inserted afterwards.
Dispatch(t) ==
  /\ At(t, "act")
  /\ Found(t) = (IF Entering(t) THEN "flat" ELSE SideOf(task[t].act))
  /\ \E answer \in Answers :
       orders' = Append(orders,
                   [run |-> task[t].run, leg |-> task[t].leg, side |-> SideOf(task[t].act),
                    entry |-> Entering(t), mode |-> task[t].mode, at |-> answer, row |-> "none"])
  /\ Become(t, [task[t] EXCEPT !.pc = "record", !.nr = Len(orders) + 1])
  /\ UNCHANGED <<desk, clock, crashes>>

Sent(t) == orders[task[t].nr]

\* repository.record_order: the commit lets go of the row lock.
Record(t) ==
  /\ At(t, "record")
  /\ orders' = [orders EXCEPT ![task[t].nr].row = IF Sent(t).at = "refused" THEN "rejected" ELSE "open"]
  /\ holder' = Unlocked(t)
  /\ Goto(t, IF Sent(t).at # "refused" THEN "reconcile" ELSE IF Entering(t) THEN "store" ELSE "fail")
  /\ UNCHANGED <<row, runs, state, saved, clock, crashes>>

\* The status of an order's row, as the venue tells it.
Truth(o) == IF o.at = "filled" THEN "complete" ELSE IF o.at = "resting" THEN "open" ELSE "cancelled"

\* reconcile_order_fill: the fill is learnt, or the lookup fails.
Reconcile(t) ==
  /\ At(t, "reconcile")
  /\ \/ /\ orders' = [orders EXCEPT ![task[t].nr].row = Truth(Sent(t))]
        /\ Goto(t, IF ~Entering(t) /\ Sent(t).at = "filled" THEN "book" ELSE "store")
     \/ UNCHANGED orders /\ Goto(t, "store")
  /\ UNCHANGED <<desk, clock, crashes>>

\* _apply_fill_to_state of an exit: its P&L is realized in the run state.
Book(t) ==
  /\ At(t, "book")
  /\ LET r == task[t].run
     IN  state' = IF state[r] = NONE THEN state
                  ELSE [state EXCEPT ![r] = [side |-> [@.side EXCEPT ![task[t].leg] = "flat"],
                                             booked |-> @.booked + 1]]
  /\ Goto(t, "store")
  /\ UNCHANGED <<row, holder, runs, saved, orders, clock, crashes>>

\* Mutant: a refused entry is stored as a position.
StoreRefused(t) ==
  /\ At(t, "store")
  /\ LET side == IF Entering(t) THEN SideOf(task[t].act) ELSE "flat"
     IN  state' = [state EXCEPT ![task[t].run] =
                     [task[t].copy EXCEPT !.side[task[t].leg] = side]]
  /\ Finish(t)
  /\ UNCHANGED <<row, runs, saved, orders, clock, crashes>>

\* hydrate_run_state: the whole state as it was read before the order was sent,
\* with this leg's new side; a refused entry leaves the side as it was.
Store(t) ==
  /\ At(t, "store")
  /\ LET side == IF Sent(t).at = "refused" \/ ~Entering(t) THEN "flat" ELSE SideOf(task[t].act)
     IN  state' = [state EXCEPT ![task[t].run] =
                     [task[t].copy EXCEPT !.side[task[t].leg] = side]]
  /\ Finish(t)
  /\ UNCHANGED <<row, runs, saved, orders, clock, crashes>>

\* A refused exit leaves the run state alone.
ExitFailed(t) ==
  /\ At(t, "fail")
  /\ Finish(t)
  /\ UNCHANGED <<row, runs, state, saved, orders, clock, crashes>>

-----------------------------------------------------------------------------
(* engine.signal_auto_square: by the scheduler, the operator, the kill switch *)

\* routers: stop and kill_switch load the strategy and call the engine.
Call(t, what) ==
  /\ up /\ t # Cron /\ At(t, "idle") /\ MayStart
  /\ Become(t, [Idle EXCEPT !.pc = what, !.by = what, !.seen = row])
  /\ UNCHANGED <<desk, orders, clock, crashes>>

\* scheduler._fire_auto_stop: nothing to do for a strategy that is not running.
FireAutoStop ==
  /\ due /\ up /\ At(Cron, "idle") /\ MayStart
  /\ due' = FALSE
  /\ IF row.run = NONE THEN UNCHANGED task
     ELSE Become(Cron, [Idle EXCEPT !.pc = "square", !.by = "square", !.seen = row])
  /\ UNCHANGED <<desk, orders, phase, up, crashes>>

\* What follows a square: the kill switch goes on to lock the webhook.
Squared(t) ==
  IF task[t].by = "kill" THEN Goto(t, "lock") /\ UNCHANGED holder
  ELSE Become(t, Idle) /\ holder' = Unlocked(t)

\* The kill switch comes here with the run it has just seen active.
BeginSquare(t) ==
  /\ At(t, "square") /\ Free(t)
  /\ IF Active(task[t].seen.run) \/ task[t].by = "kill"
     THEN /\ holder' = t
          /\ Become(t, [task[t] EXCEPT !.pc = "list", !.run = task[t].seen.run])
     ELSE Squared(t)
  /\ UNCHANGED <<row, runs, state, saved, orders, clock, crashes>>

\* Mutant: only the legs whose orders are complete are listed.
ListOpenFilled(t) ==
  /\ At(t, "list")
  /\ LET r == task[t].run
         s == state[r]
         pending == {orders[i].leg : i \in {j \in DOMAIN orders :
                                             orders[j].run = r /\ orders[j].row = "open"}}
     IN  Become(t, [task[t] EXCEPT !.pc = "next", !.copy = IF s = NONE THEN FlatLegs ELSE s,
                      !.todo = IF s = NONE THEN {} ELSE {l \in Legs \ pending : s.side[l] # "flat"}])
  /\ UNCHANGED <<desk, orders, clock, crashes>>

\* The legs the run state shows open, listed once.
ListOpen(t) ==
  /\ At(t, "list")
  /\ LET s == state[task[t].run]
     IN  Become(t, [task[t] EXCEPT !.pc = "next", !.copy = IF s = NONE THEN FlatLegs ELSE s,
                      !.todo = IF s = NONE THEN {} ELSE {l \in Legs : s.side[l] # "flat"}])
  /\ UNCHANGED <<desk, orders, clock, crashes>>

\* The row is locked again, and one leg exited in the mode of the run.
SquareLeg(t) ==
  /\ At(t, "next") /\ Free(t)
  /\ \E l \in task[t].todo :
       Become(t, [task[t] EXCEPT !.pc = "gate", !.leg = l, !.todo = @ \ {l},
                    !.act = ExitOf(task[t].copy.side[l]), !.mode = runs[task[t].run].mode])
  /\ holder' = t
  /\ UNCHANGED <<row, runs, state, saved, orders, clock, crashes>>

\* Mutant: the run is closed, but current_run_id kept.
FinalizeRunOnly(t) ==
  /\ At(t, "next") /\ Free(t) /\ task[t].todo = {}
  /\ runs' = [runs EXCEPT ![task[t].run].status = "stopped"]
  /\ holder' = Unlocked(t)
  /\ Become(t, [task[t] EXCEPT !.pc = "clear", !.seen = row])
  /\ UNCHANGED <<row, state, saved, orders, clock, crashes>>

\* repository.finalize_run, whatever became of the exits.
FinalizeRun(t) ==
  /\ At(t, "next") /\ Free(t) /\ task[t].todo = {}
  /\ runs' = [runs EXCEPT ![task[t].run].status = "stopped"]
  /\ row' = [row EXCEPT !.run = NONE]
  /\ holder' = Unlocked(t)
  /\ Become(t, [task[t] EXCEPT !.pc = "clear", !.seen = row'])
  /\ UNCHANGED <<state, saved, orders, clock, crashes>>

ClearState(t) ==
  /\ At(t, "clear")
  /\ state' = [state EXCEPT ![task[t].run] = NONE]
  /\ Squared(t)
  /\ UNCHANGED <<row, runs, saved, orders, clock, crashes>>

-----------------------------------------------------------------------------
(* engine.kill_strategy, unlock_webhook; repository.update_strategy *)

Pending(r) == {i \in DOMAIN orders : orders[i].run = r /\ orders[i].row = "open"}

\* Mutant: the webhook is locked first.
CancelPendingLocked(t) ==
  /\ At(t, "kill") /\ Free(t)
  /\ row' = [row EXCEPT !.locked = TRUE]
  /\ holder' = Unlocked(t)
  /\ Goto(t, IF Active(task[t].seen.run) THEN "square" ELSE "lock")
  /\ UNCHANGED <<runs, state, saved, orders, clock, crashes>>

\* Step 1: every order whose row is not terminal is cancelled, if the venue still
\* can.  The commit after it lets go of the row lock.
CancelPending(t) ==
  /\ At(t, "kill") /\ Free(t)
  /\ LET r == task[t].seen.run
         pending == IF Active(r) THEN Pending(r) ELSE {}
     IN  \E gone \in SUBSET {i \in pending : orders[i].at = "resting"} :
           /\ orders' = [i \in DOMAIN orders |->
                           IF i \in gone THEN [orders[i] EXCEPT !.at = "cancelled", !.row = "cancelled"]
                           ELSE orders[i]]
           /\ holder' = IF pending = {} THEN t ELSE Unlocked(t)
  /\ Goto(t, IF Active(task[t].seen.run) THEN "square" ELSE "lock")
  /\ UNCHANGED <<row, runs, state, saved, clock, crashes>>

\* Step 3, under the row lock again: the flag of the session's object decides
\* whether it is written.
LockWebhook(t) ==
  /\ At(t, "lock") /\ Free(t)
  /\ row' = [row EXCEPT !.locked = IF task[t].seen.locked THEN @ ELSE TRUE]
  /\ holder' = Unlocked(t)
  /\ Become(t, Idle)
  /\ UNCHANGED <<runs, state, saved, orders, clock, crashes>>

Unlock ==
  /\ up /\ holder = NONE /\ row.locked /\ MayStart
  /\ row' = [row EXCEPT !.locked = FALSE]
  /\ UNCHANGED <<holder, runs, state, saved, orders, clock, task, crashes>>

\* Refused while the strategy runs.
EditDirection(d) ==
  /\ up /\ holder = NONE /\ row.run = NONE /\ MayStart
  /\ row' = [row EXCEPT !.direction = d]
  /\ UNCHANGED <<holder, runs, state, saved, orders, clock, task, crashes>>

-----------------------------------------------------------------------------
(* checkpoint.py, recovery.py, the venue and the clock *)

\* checkpoint._write_one, for an active run whose state is in Redis.  Bound: a
\* checkpoint that no recovery will read is left out.
Checkpoint(r) ==
  /\ crashes < MaxCrashes
  /\ up /\ Active(r) /\ state[r] # NONE /\ saved[r] # state[r]
  /\ saved' = [saved EXCEPT ![r] = state[r]]
  /\ UNCHANGED <<row, holder, runs, state, orders, clock, task, crashes>>

\* The process dies; database, Redis and venue survive it.
Crash ==
  /\ up /\ crashes < MaxCrashes
  /\ up' = FALSE /\ due' = FALSE /\ crashes' = crashes + 1
  /\ task' = [t \in Tasks |-> Idle]
  /\ holder' = NONE
  /\ UNCHANGED <<row, runs, state, saved, orders, phase>>

\* recovery._reconcile_run_orders: sandbox rows that are not terminal.
Reconciled(o) ==
  IF o.row = "open" /\ Active(o.run) /\ runs[o.run].mode = "sandbox"
  THEN [o EXCEPT !.row = Truth(o)] ELSE o

\* Mutant: the side is the checkpoint's, whatever the rows say of exits.
RecoveredFromCheckpoint(r, l, side) ==
  side = IF saved[r] = NONE THEN "flat" ELSE saved[r].side[l]

\* recovery._state_from_db_and_checkpoint: a leg is open when it has an entry row
\* that is not rejected (of several, any: the rows come in no order) and no exit
\* row but rejected ones; the side of an open leg is the checkpoint's.
Recovered(r, l, side) ==
  LET rows == {Reconciled(orders[i]) : i \in {j \in DOMAIN orders :
                 orders[j].run = r /\ orders[j].leg = l /\ orders[j].row # "none"}}
      exited == \E o \in rows : ~o.entry /\ o.row # "rejected"
      entered == \E o \in rows : o.entry /\ o.row # "rejected"
      refused == \E o \in rows : o.entry /\ o.row = "rejected"
  IN  \/ side = "flat" /\ (exited \/ ~entered \/ refused)
      \/ ~exited /\ entered /\ side = (IF saved[r] = NONE THEN "flat" ELSE saved[r].side[l])

\* recovery.recover_all at the next start; a run whose recovery raises is closed.
Recover ==
  /\ ~up /\ up' = TRUE
  /\ orders' = [i \in DOMAIN orders |-> Reconciled(orders[i])]
  /\ \E failed \in SUBSET {r \in Runs : Active(r)}, side \in [Runs -> [Legs -> {"flat", "long", "short"}]] :
       LET back == {r \in Runs : Active(r)} \ failed
       IN  /\ \A r \in Runs, l \in Legs : IF r \in back THEN Recovered(r, l, side[r][l])
                                          ELSE side[r][l] = "flat"
           /\ state' = [r \in Runs |->
                          IF r \in back
                          THEN [side |-> side[r],
                                booked |-> IF saved[r] = NONE THEN 0 ELSE saved[r].booked]
                          ELSE state[r]]
           /\ runs' = [r \in Runs |-> IF r \in failed THEN [runs[r] EXCEPT !.status = "stopped"]
                                      ELSE runs[r]]
           /\ row' = IF failed = {} THEN row ELSE [row EXCEPT !.run = NONE]
  /\ UNCHANGED <<holder, saved, phase, due, task, crashes>>

\* An order that rested is filled.
Fill(i) ==
  /\ orders[i].at = "resting"
  /\ orders' = [orders EXCEPT ![i].at = "filled"]
  /\ UNCHANGED <<desk, clock, task, crashes>>

\* Assumption on timing: the auto-stop of a day is over before the next day.
NextPhase ==
  /\ phase = "after" => ~due /\ At(Cron, "idle")
  /\ phase' = CASE phase = "before" -> "active" [] phase = "active" -> "after"
                [] phase = "after" -> "before"
  /\ due' = (phase = "active" /\ AutoStop /\ up)
  /\ UNCHANGED <<desk, orders, up, task, crashes>>

-----------------------------------------------------------------------------

TaskStep(t) ==
  \/ Load(t) \/ Refuse(t) \/ UseRun(t) \/ OpenRun(t) \/ Look(t)
  \/ AlreadyThere(t) \/ Decline(t) \/ Dispatch(t) \/ Record(t) \/ Reconcile(t)
  \/ Book(t) \/ Store(t) \/ ExitFailed(t)
  \/ BeginSquare(t) \/ ListOpen(t) \/ SquareLeg(t) \/ FinalizeRun(t) \/ ClearState(t)
  \/ CancelPending(t) \/ LockWebhook(t)

Request(t) ==
  \/ \E l \in Legs, a \in Signals, m \in Modes : Receive(t, l, a, m)
  \/ Call(t, "square") \/ Call(t, "kill")

Next ==
  \/ \E t \in Tasks : Request(t) \/ TaskStep(t)
  \/ FireAutoStop
  \/ Unlock \/ \E d \in Directions : EditDirection(d)
  \/ \E r \in Runs : Checkpoint(r)
  \/ Crash \/ Recover
  \/ \E i \in DOMAIN orders : Fill(i)
  \/ NextPhase

Spec == Init /\ [][Next]_vars

\* Time passes, the scheduler fires, a process that died is started again, and a
\* task goes on: the database, which queues the waiters for a row lock, and the
\* venue answer.  Requests leave the scheduler a gap (SF, under Serial).  Nobody owes a signal, a stop, a fill or a crash.
Fairness ==
  /\ WF_vars(NextPhase) /\ SF_vars(FireAutoStop) /\ WF_vars(Recover)
  /\ \A t \in Tasks : SF_vars(TaskStep(t))

FairSpec == Spec /\ Fairness

-----------------------------------------------------------------------------
(* Properties *)

PCs == {"idle", "load", "gate", "look", "act", "record", "reconcile", "book", "store",
        "fail", "square", "list", "next", "clear", "kill", "lock"}
Sides == {"flat", "long", "short"}
RowType == [run : Runs \cup {NONE}, locked : BOOLEAN, direction : {"both", "long_only", "short_only"}]
StateType == [side : [Legs -> Sides], booked : Nat]
OrderType == [run : Runs, leg : Legs, side : {"long", "short"}, entry : BOOLEAN,
              mode : {"sandbox", "live"}, at : AllAnswers \cup {"cancelled"},
              row : {"none", "open", "complete", "rejected", "cancelled"}]
TaskType == [pc : PCs, by : {"signal", "square", "kill"}, leg : Legs \cup {NONE},
             act : Signals \cup {NONE}, mode : {"sandbox", "live"} \cup {NONE},
             seen : RowType \cup {NONE}, run : Runs \cup {NONE}, copy : StateType,
             todo : SUBSET Legs, nr : Nat]

\* "No run state" is told from every run state.
ASSUME StateAssumption == NONE \notin StateType

TypeOK ==
  /\ row \in RowType /\ holder \in Tasks \cup {NONE}
  /\ runs \in [Runs -> [status : {"unborn", "active", "stopped"}, mode : {"sandbox", "live"}]]
  /\ state \in [Runs -> StateType \cup {NONE}] /\ saved \in [Runs -> StateType \cup {NONE}]
  /\ orders \in Seq(OrderType)
  /\ phase \in {"before", "active", "after"} /\ due \in BOOLEAN /\ up \in BOOLEAN
  /\ task \in [Tasks -> TaskType]
  /\ crashes \in Nat

\* What an order has done and will do to a leg, and what the orders of a run have
\* done and will do to a leg at the venue of mode m.
Works(o) == o.at \in {"filled", "resting"}
Part(o, r, l, m) ==
  IF o.run = r /\ o.leg = l /\ o.mode = m /\ Works(o)
  THEN IF o.entry THEN Lot(o.side) ELSE -Lot(o.side)
  ELSE 0
Exposure(r, l, m) == SumFunction([i \in DOMAIN orders |-> Part(orders[i], r, l, m)])

\* Between requests that do not overlap, and until a crash, the run state shows
\* of each leg of the running strategy what the venue holds or is about to hold:
\* "the qty actually in the market" (engine.py exit_leg_by_signal).
DeskMatchesVenue ==
  Quiet /\ crashes = 0 =>
    \A r \in Runs : Active(r) /\ state[r] # NONE =>
      \A l \in Legs, m \in Modes :
        Exposure(r, l, m) = IF m = runs[r].mode THEN Lot(state[r].side[l]) ELSE 0

\* An exit was refused, or an order withdrawn by the kill switch.
Disturbed(r, l) ==
  \E i \in DOMAIN orders : /\ orders[i].run = r /\ orders[i].leg = l
                           /\ \/ orders[i].at = "cancelled"
                              \/ orders[i].at = "refused" /\ ~orders[i].entry

\* A run that was squared (by the scheduler, a stop or the kill switch) leaves
\* nothing at the venue, but for legs whose exit was refused or whose order the
\* kill switch withdrew: signal_auto_square exits "every open signal-mode leg".
SquaredRunIsFlat ==
  Quiet /\ crashes = 0 =>
    \A r \in Runs, l \in Legs, m \in Modes :
      runs[r].status = "stopped" /\ ~Disturbed(r, l) => Exposure(r, l, m) = 0

\* A locked strategy does not run: the kill switch "refuses every subsequent
\* action" until the operator unlocks it, across crashes.
LockedDeskIsStopped == Quiet /\ row.locked => row.run = NONE

\* Whatever overlaps, crashes and is recovered: an exit is only sent for a leg
\* whose entry on that side was accepted in the same run.
ExitsFollowEntries ==
  \A i \in DOMAIN orders : ~orders[i].entry =>
    \E j \in 1..(i - 1) :
      /\ orders[j].entry /\ orders[j].at # "refused"
      /\ orders[j].run = orders[i].run /\ orders[j].leg = orders[i].leg
      /\ orders[j].side = orders[i].side

\* A recovery may forget a position (the checkpoint is older, or the leg was
\* exited before) but invents none, unless the crash came between an order and its
\* row or the kill switch had withdrawn the entry, whose row still opens the leg:
\* "the engine sees the broker's truth" (recovery.py).
RecoveryInventsNothing ==
  [][~up /\ up' =>
       \A r \in Runs, l \in Legs :
         /\ Active(r)' /\ ~Disturbed(r, l)
         /\ \A i \in DOMAIN orders : orders[i].row # "none"
         =>
           Lot(state'[r].side[l]) \in {0, Exposure(r, l, runs[r].mode)}]_vars

\* The run state has realized the P&L of every exit known to be filled: "the realized
\* column on the Live P&L card" is driven by it (engine.py exit_leg_by_signal).
ExitsAreRealized ==
  Quiet /\ crashes = 0 =>
    \A r \in Runs : Active(r) /\ state[r] # NONE =>
      state[r].booked = Cardinality({i \in DOMAIN orders :
        orders[i].run = r /\ ~orders[i].entry /\ orders[i].row = "complete"})

\* With an auto-stop at exit_time no run lasts: missed once, it comes the next day.
RunsEnd == \A r \in Runs : row.run = r ~> row.run # r
=============================================================================
