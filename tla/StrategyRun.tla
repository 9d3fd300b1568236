---------------------------- MODULE StrategyRun -----------------------------
(***************************************************************************)
(* The lifecycle of a batch strategy: start_run, stop_run, close_leg and   *)
(* the exits of the tick processor (strategy/engine.py, tick_processor.py, *)
(* repository.py), with the three copies of a leg's state they keep: the   *)
(* order rows in the database, the run state in Redis, and the position at *)
(* the broker.                                                             *)
(*                                                                         *)
(* A task is one coroutine (a request, a webhook, a scheduled job or the   *)
(* tick consumer); it can be suspended at every await, so each action is   *)
(* what a task does between two awaits that others can observe.  Prices    *)
(* are not in this module: RunRisk has the rules that decide on an exit.   *)
(* The process may crash and be started again: recovery.py then rebuilds   *)
(* the run states from the order rows before anything else happens.        *)
(***************************************************************************)
EXTENDS Integers

CONSTANTS
  Tasks,    \* coroutines that can be in the engine at once
  Legs,     \* leg ids of the strategy
  Runs,     \* run ids, in the order they are given out
  Ops,      \* the requests that arrive: subset of {"start", "stop", "close", "tick"}
  MaxCrashes, \* bound: crashes of the process
  NONE

ASSUME RunsAssumption == Runs \subseteq Nat /\ Legs \subseteq Nat
ASSUME NoneAssumption == NONE \notin Runs
ASSUME CrashesAssumption == MaxCrashes \in Nat

VARIABLES
  row,     \* SmStrategy: status and current_run_id
  runs,    \* SmStrategyRun: not created yet, active, or with stopped_at set
  entry,   \* per run and leg, the entry order's row
  exited,  \* per run, the legs with an exit order row that is not rejected
  state,   \* per run, the leg statuses of the Redis run state, or NONE
  held,    \* per run and leg, the lots the broker holds for it
  failed,  \* per run, the legs of which the broker rejected an exit (history)
  task,    \* per task, where it is and its local variables
  torn,    \* per run, the legs of which a crash lost track (history)
  crashes  \* crashes so far

vars == <<row, runs, entry, exited, state, held, failed, task, torn, crashes>>

Stopped == [status |-> "stopped", run |-> NONE]
Running(r) == [status |-> "running", run |-> r]

\* seen: the SmStrategy object of the task's session; todo: legs still to place or
\* to exit; skip: what _exit_legs leaves alone; whole: finalize whatever is open;
\* ok: the broker accepted the order just sent.
Idle == [pc |-> "idle", seen |-> Stopped, run |-> NONE, todo |-> {}, skip |-> {},
         whole |-> FALSE, ok |-> FALSE]

\* Exits take the legs in the order of their ids.
Firsts(S) == {l \in S : \A k \in S : l <= k}

At(t, pc) == task[t].pc = pc
Become(t, local) == task' = [task EXCEPT ![t] = local]
Goto(t, pc) == task' = [task EXCEPT ![t].pc = pc]

Init ==
  /\ row = Stopped
  /\ runs = [r \in Runs |-> "unborn"]
  /\ entry = [r \in Runs |-> [l \in Legs |-> "none"]]
  /\ exited = [r \in Runs |-> {}]
  /\ state = [r \in Runs |-> NONE]
  /\ held = [r \in Runs |-> [l \in Legs |-> 0]]
  /\ failed = [r \in Runs |-> {}]
  /\ task = [t \in Tasks |-> Idle]
  /\ torn = [r \in Runs |-> {}] /\ crashes = 0

-----------------------------------------------------------------------------
(* Starting a run *)

\* The caller loads the strategy (get_strategy, db.get) into its session.
LoadForStart(t) ==
  /\ "start" \in Ops /\ At(t, "idle")
  /\ Become(t, [Idle EXCEPT !.pc = "gate", !.seen = row])
  /\ UNCHANGED <<row, runs, entry, exited, state, held, failed>>

\* SELECT ... FOR UPDATE waits for the row, but returns the object the session has
\* already loaded, attributes as they were: the gate sees the status of the load.
Gate(t) == task[t].seen.status

\* The gate, the new run row and the commit that releases the row lock.
OpenRun(t) ==
  /\ At(t, "gate")
  /\ Gate(t) = "stopped"
  /\ \E r \in Runs :
       /\ runs[r] = "unborn" /\ \A s \in Runs : runs[s] = "unborn" => r <= s
       /\ runs' = [runs EXCEPT ![r] = "active"]
       /\ row' = Running(r)
       /\ Become(t, [Idle EXCEPT !.pc = "enter", !.seen = Running(r), !.run = r,
                               !.todo = Legs])
  /\ UNCHANGED <<entry, exited, state, held, failed>>

\* The strategy is running already, or one of its legs cannot be resolved.
RefuseStart(t) ==
  /\ At(t, "gate")
  /\ Become(t, Idle)
  /\ UNCHANGED <<row, runs, entry, exited, state, held, failed>>

\* One entry order: dispatched, recorded and reconciled.  Buys go before sells, which
\* for the leg ids may be any order.  Nobody can see an entry
\* between its dispatch and its row; a rejection that reconcile_order_fill learns of
\* is the broker's answer here, for exits too.
PlaceEntry(t) ==
  /\ At(t, "enter")
  /\ \E l \in task[t].todo :
     LET r == task[t].run
     IN  /\ \/ /\ entry' = [entry EXCEPT ![r][l] = "open"]
               /\ held' = [held EXCEPT ![r][l] = @ + 1]
            \/ /\ entry' = [entry EXCEPT ![r][l] = "rejected"]
               /\ UNCHANGED held
         /\ task' = [task EXCEPT ![t].todo = @ \ {l}]
  /\ UNCHANGED <<row, runs, exited, state, failed>>

\* Mutant: the state is built while entries are still being placed.
SeedStateEarly(t) ==
  /\ At(t, "enter")
  /\ LET r == task[t].run
     IN  /\ \E l \in Legs : entry[r][l] = "open"
         /\ state' = [state EXCEPT ![r] = entry[r]]
  /\ Become(t, Idle)
  /\ UNCHANGED <<row, runs, entry, exited, held, failed>>

\* At least one entry was accepted: the Redis state is built, the fills of the
\* entries included.
SeedState(t) ==
  /\ At(t, "enter") /\ task[t].todo = {}
  /\ LET r == task[t].run
     IN  /\ \E l \in Legs : entry[r][l] = "open"
         /\ state' = [state EXCEPT ![r] = entry[r]]
  /\ Become(t, Idle)
  /\ UNCHANGED <<row, runs, entry, exited, held, failed>>

\* Mutant: the strategy is stopped and the run is left open.
FinalizeRunRowOnly(t) ==
  /\ row' = Stopped
  /\ UNCHANGED runs

\* finalize_run stops the strategy through the object the task has loaded, whatever
\* the row says by now: the UPDATE is left out if that object is stopped already.
FinalizeRun(t) ==
  /\ runs' = [runs EXCEPT ![task[t].run] = "stopped"]
  /\ row' = IF task[t].seen = Stopped THEN row ELSE Stopped

\* Every entry was rejected.
AbandonRun(t) ==
  /\ At(t, "enter") /\ task[t].todo = {}
  /\ \A l \in Legs : entry[task[t].run][l] = "rejected"
  /\ FinalizeRun(t)
  /\ Become(t, Idle)
  /\ UNCHANGED <<entry, exited, state, held, failed>>

-----------------------------------------------------------------------------
(* Exiting legs *)

\* stop_run: the strategy as loaded is running; every leg is to be exited.
StopRun(t) ==
  /\ "stop" \in Ops /\ At(t, "idle")
  /\ row.status = "running"
  /\ Become(t, [Idle EXCEPT !.pc = "list", !.seen = row, !.run = row.run, !.todo = Legs,
                           !.whole = TRUE])
  /\ UNCHANGED <<row, runs, entry, exited, state, held, failed>>

\* close_leg
CloseLeg(t, l) ==
  /\ "close" \in Ops /\ At(t, "idle")
  /\ row.status = "running"
  /\ Become(t, [Idle EXCEPT !.pc = "list", !.seen = row, !.run = row.run, !.todo = {l}])
  /\ UNCHANGED <<row, runs, entry, exited, state, held, failed>>

\* _trigger_exit: a rule hit for an open leg of a run that is not finalized.
TriggerExit(t, r, l) ==
  /\ "tick" \in Ops /\ At(t, "idle")
  /\ state[r] # NONE /\ runs[r] = "active"
  /\ state[r][l] = "open"
  /\ Become(t, [Idle EXCEPT !.pc = "list", !.seen = row, !.run = r, !.todo = {l}])
  /\ UNCHANGED <<row, runs, entry, exited, state, held, failed>>

\* Mutant: the legs already exited are not collected.
SkippedEntriesOnly(r) == {l \in Legs : entry[r][l] # "open"}

\* Mutant: the rejected entries are not looked at.
SkippedExitsOnly(r) == exited[r]

\* What _exit_legs skips: no entry, a rejected entry, an exit on record.
Skipped(r) == {l \in Legs : entry[r][l] # "open"} \cup exited[r]

\* _exit_legs reads the run's orders once, for all the legs it will exit.
ListOrders(t) ==
  /\ At(t, "list")
  /\ task' = [task EXCEPT ![t].pc = "exit", ![t].skip = Skipped(task[t].run)]
  /\ UNCHANGED <<row, runs, entry, exited, state, held, failed>>

SkipLeg(t) ==
  /\ At(t, "exit")
  /\ \E l \in Firsts(task[t].todo) :
       /\ l \in task[t].skip
       /\ task' = [task EXCEPT ![t].todo = @ \ {l}]
  /\ UNCHANGED <<row, runs, entry, exited, state, held, failed>>

\* dispatch_order: the broker takes the order or rejects it.
SendExit(t) ==
  /\ At(t, "exit")
  /\ \E l \in Firsts(task[t].todo) :
     LET r == task[t].run
     IN  /\ l \notin task[t].skip
         /\ \/ /\ held' = [held EXCEPT ![r][l] = @ - 1]
               /\ task' = [task EXCEPT ![t].pc = "record", ![t].ok = TRUE]
               /\ UNCHANGED failed
            \/ /\ failed' = [failed EXCEPT ![r] = @ \cup {l}]
               /\ task' = [task EXCEPT ![t].pc = "record", ![t].ok = FALSE]
               /\ UNCHANGED held
  /\ UNCHANGED <<row, runs, entry, exited, state>>

\* record_order commits the exit's row.
RecordExit(t) ==
  /\ At(t, "record")
  /\ \E l \in Firsts(task[t].todo) :
       exited' = IF task[t].ok THEN [exited EXCEPT ![task[t].run] = @ \cup {l}] ELSE exited
  /\ Goto(t, "mark")
  /\ UNCHANGED <<row, runs, entry, state, held, failed>>

\* mark_leg_closed
LegStatusAfter(ok) == IF ok THEN "closed" ELSE "open"

\* _apply_fill_to_state and mark_leg_closed, under the state lock.
MarkLeg(t) ==
  /\ At(t, "mark")
  /\ \E l \in Firsts(task[t].todo) :
     LET r == task[t].run
     IN  /\ state' = IF state[r] = NONE THEN state
                     ELSE [state EXCEPT ![r][l] = LegStatusAfter(task[t].ok)]
         /\ task' = [task EXCEPT ![t].pc = "exit", ![t].todo = @ \ {l}]
  /\ UNCHANGED <<row, runs, entry, exited, held, failed>>

-----------------------------------------------------------------------------
(* Finalizing *)

\* Mutants: one flat leg is enough; a leg whose entry was rejected is not flat.
AllFlatSome(r) == state[r] # NONE /\ \E l \in Legs : state[r][l] # "open"
AllFlatClosed(r) == state[r] # NONE /\ \A l \in Legs : state[r][l] = "closed"

\* _finalize_run_if_all_flat looks at the Redis state.
AllFlat(r) == state[r] # NONE /\ \A l \in Legs : state[r][l] # "open"

\* The exits are done: stop_run finalizes, the others only a run that is flat.
CheckFlat(t) ==
  /\ At(t, "exit") /\ task[t].todo = {}
  /\ IF task[t].whole \/ AllFlat(task[t].run) THEN Goto(t, "finalize") ELSE Become(t, Idle)
  /\ UNCHANGED <<row, runs, entry, exited, state, held, failed>>

Finalize(t) ==
  /\ At(t, "finalize")
  /\ FinalizeRun(t)
  /\ Goto(t, "clear")
  /\ UNCHANGED <<entry, exited, state, held, failed>>

\* clear_run_state and remove_run_subscriptions
ClearState(t) ==
  /\ At(t, "clear")
  /\ state' = [state EXCEPT ![task[t].run] = NONE]
  /\ Become(t, Idle)
  /\ UNCHANGED <<row, runs, entry, exited, held, failed>>

-----------------------------------------------------------------------------
(* Crash and recovery *)

\* Mutant: a rejected exit counts as an exit.
RecoveredIgnoringRejects(r, l) ==
  IF entry[r][l] = "rejected" THEN "rejected"
  ELSE IF l \in exited[r] \cup failed[r] THEN "closed"
  ELSE IF entry[r][l] = "open" THEN "open" ELSE "configured"

\* _state_from_db_and_checkpoint: a leg's status from the rows of its orders.
Recovered(r, l) ==
  IF entry[r][l] = "rejected" THEN "rejected"
  ELSE IF l \in exited[r] THEN "closed"
  ELSE IF entry[r][l] = "open" THEN "open" ELSE "configured"

\* Entries a crash may catch between their dispatch and their row, one per starter.
Unrecorded ==
  {sent \in SUBSET (Runs \X Legs) :
     /\ \A p \in sent : \E t \in Tasks :
          At(t, "enter") /\ task[t].run = p[1] /\ p[2] \in task[t].todo
     /\ \A p, q \in sent : p[1] = q[1] => p = q}

\* Exits sent to the broker and not on record.
Sent(r) == UNION {Firsts(task[t].todo) : t \in {u \in Tasks :
                    At(u, "record") /\ task[u].run = r /\ task[u].ok}}

\* The process dies and starts again. recover_all comes before requests, ticks and
\* jobs (main.lifespan); it rebuilds the state of each run that is not finalized,
\* and finalizes those for which that raised.
Restart ==
  /\ crashes < MaxCrashes /\ crashes' = crashes + 1
  /\ task' = [t \in Tasks |-> Idle]
  /\ \E sent \in Unrecorded, bad \in SUBSET {r \in Runs : runs[r] = "active"} :
       /\ held' = [r \in Runs |-> [l \in Legs |->
                     held[r][l] + IF <<r, l>> \in sent THEN 1 ELSE 0]]
       /\ torn' = [r \in Runs |-> IF r \in bad THEN Legs
                     ELSE torn[r] \cup Sent(r) \cup {l \in Legs : <<r, l>> \in sent}]
       /\ runs' = [r \in Runs |-> IF r \in bad THEN "stopped" ELSE runs[r]]
       /\ row' = IF bad = {} THEN row ELSE Stopped
       /\ state' = [r \in Runs |-> IF runs[r] = "active" /\ r \notin bad
                                   THEN [l \in Legs |-> Recovered(r, l)] ELSE state[r]]
  /\ UNCHANGED <<entry, exited, failed>>

-----------------------------------------------------------------------------
Step(t) ==
  \/ OpenRun(t) \/ RefuseStart(t) \/ PlaceEntry(t) \/ SeedState(t) \/ AbandonRun(t)
  \/ ListOrders(t) \/ SkipLeg(t) \/ SendExit(t) \/ RecordExit(t) \/ MarkLeg(t)
  \/ CheckFlat(t) \/ Finalize(t) \/ ClearState(t)

Request(t) ==
  \/ LoadForStart(t) \/ StopRun(t)
  \/ \E l \in Legs : CloseLeg(t, l) \/ \E r \in Runs : TriggerExit(t, r, l)

Run == (\E t \in Tasks : Step(t) \/ Request(t)) /\ UNCHANGED <<torn, crashes>>

Next == Run \/ Restart

Spec == Init /\ [][Next]_vars

\* A task in the engine gets on with it: nothing it awaits is another task.
FairSpec == Spec /\ \A t \in Tasks : WF_vars(Step(t) /\ UNCHANGED <<torn, crashes>>)

-----------------------------------------------------------------------------
(* Properties *)

Rows == {Stopped} \cup {Running(r) : r \in Runs}
Local == [pc : {"idle", "gate", "enter", "list", "exit", "record", "mark", "finalize", "clear"},
          seen : Rows, run : Runs \cup {NONE}, todo : SUBSET Legs, skip : SUBSET Legs,
          whole : BOOLEAN, ok : BOOLEAN]

LegStatus == {"open", "closed", "rejected", "configured"}

\* "No run state" is told from every run state.
ASSUME StateAssumption == NONE \notin [Legs -> LegStatus]

\* Types; a run state, when there is one, has a status for every leg.
TypeOK ==
  /\ row \in Rows
  /\ runs \in [Runs -> {"unborn", "active", "stopped"}]
  /\ entry \in [Runs -> [Legs -> {"none", "open", "rejected"}]]
  /\ exited \in [Runs -> SUBSET Legs]
  /\ state \in [Runs -> {NONE} \cup [Legs -> LegStatus]]
  /\ held \in [Runs -> [Legs -> Int]]
  /\ failed \in [Runs -> SUBSET Legs]
  /\ task \in [Tasks -> Local]
  /\ torn \in [Runs -> SUBSET Legs] /\ crashes \in Nat

\* Every run that is not finalized is the current run of the strategy: at most one
\* is active, and stop and close can reach it (start_run: "two callers could both
\* observe status='stopped' ... producing duplicate broker orders and overwriting
\* current_run_id").
ActiveRunIsCurrent == \A r \in Runs : runs[r] = "active" => row = Running(r)

\* No leg is exited more often than it was entered: a second exit would open the
\* opposite position (_exit_legs: "must not get a duplicate exit"). A crash between
\* an exit and its row breaks it, as recovery shows the leg open.
NoLegExitedTwice == \A r \in Runs : \A l \in Legs \ torn[r] : held[r][l] >= 0

\* A finalized run holds no position, except in legs of which the broker rejected
\* the exit (stop_run: "Exit every leg that has an entry, then mark the run stopped"),
\* or of which a crash lost track.
StoppedRunHoldsNothing ==
  \A r \in Runs : runs[r] = "stopped" =>
    \A l \in Legs \ (failed[r] \cup torn[r]) : held[r][l] <= 0

\* The Redis state of an active run tells what the broker holds, once no task is
\* between sending an order and marking its leg: a leg that is held is shown open,
\* so its rules are evaluated, before a crash and after (mark_leg_closed,
\* _finalize_run_if_all_flat, _state_from_db_and_checkpoint).
HeldLegIsWatched ==
  \A r \in Runs : \A l \in Legs \ torn[r] :
    /\ runs[r] = "active" /\ held[r][l] > 0
    /\ \A t \in Tasks : task[t].run # r
    => state[r] # NONE /\ state[r][l] = "open"

\* A leg is only ever exited after the broker accepted its entry and that is on
\* record, however the listing of orders, the entries, the exits and crashes
\* interleave (_exit_legs).
NoExitWithoutEntry ==
  \A r \in Runs, l \in Legs : held[r][l] < 0 \/ l \in exited[r] \cup failed[r]
                             => entry[r][l] = "open"

\* "the run should finalize once every leg is flat — otherwise the strategy stays in
\* 'running' status with no open positions" (close_leg).
FlatRunEnds ==
  \A r \in Runs :
    runs[r] = "active" /\ state[r] # NONE /\ (\A l \in Legs : state[r][l] # "open")
      ~> runs[r] = "stopped" \/ crashes > 0

\* The same through a crash: between the last exit, or the last refused entry, and
\* the end of its run, it leaves a run that nothing looks at again.
FlatRunEndsAlways ==
  \A r \in Runs :
    runs[r] = "active" /\ state[r] # NONE /\ (\A l \in Legs : state[r][l] # "open")
      ~> runs[r] = "stopped"
=============================================================================
