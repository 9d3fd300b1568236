-------------------------- MODULE StrategyRunProofs --------------------------
(***************************************************************************)
(* Proof that no leg is exited without an accepted entry, for any number   *)
(* of tasks, legs and runs.  An exit is decided on a snapshot of the order *)
(* rows that may be old when the exit is sent; the argument is that what   *)
(* it relies on is stable: an accepted entry is never written again,       *)
(* because each run has one starter and it places each entry once; a crash *)
(* ends the starter for good.                                              *)
(*                                                                         *)
(* With one task, any number of legs, runs and crashes, the three copies   *)
(* of a leg agree: rows, run state and broker differ only by the exit the  *)
(* task has in hand (Alone).  That gives one active run at most, no exit   *)
(* sent twice, nothing held by a run that ended, and no position without   *)
(* its rules.                                                              *)
(***************************************************************************)
EXTENDS StrategyRun, TLAPS

\* What a task may rely on: its run exists; a starter's legs still to do, and no
\* others, are not entered yet; a leg it has not decided to skip has an accepted
\* entry, the one it is exiting too.
LocalOK(x) ==
  /\ x.run # NONE => runs[x.run] # "unborn"
  /\ x.pc \notin {"idle", "gate"} => x.run # NONE
  /\ x.pc = "enter" => \A l \in Legs : entry[x.run][l] = "none" <=> l \in x.todo
  /\ x.pc \in {"exit", "record", "mark"} =>
       \A l \in x.todo \ x.skip : entry[x.run][l] = "open"
  /\ x.pc \in {"record", "mark"} => Firsts(x.todo) \cap x.skip = {}

\* Each run is started by one task, and before that has no entries.
OneStarter ==
  \A t, u \in Tasks : At(t, "enter") /\ At(u, "enter") /\ t # u => task[t].run # task[u].run
UnbornIsEmpty ==
  \A r \in Runs : runs[r] = "unborn" => \A l \in Legs : entry[r][l] = "none"
RowIsBorn == row.run # NONE => runs[row.run] # "unborn"

EntryInv ==
  /\ TypeOK /\ UnbornIsEmpty /\ RowIsBorn /\ OneStarter
  /\ \A t \in Tasks : LocalOK(task[t])
  /\ NoExitWithoutEntry

-----------------------------------------------------------------------------
\* Writing the locals of one task.
LEMMA WriteTask ==
  ASSUME TypeOK, NEW t \in Tasks, NEW x \in Local, task' = [task EXCEPT ![t] = x]
  PROVE  /\ task' \in [Tasks -> Local] /\ task'[t] = x
         /\ \A u \in Tasks : u # t => task'[u] = task[u]
  BY DEF TypeOK

\* The locals of a task at rest.
LEMMA IdleLocal == Idle \in Local
  BY DEF Idle, Local, Rows, Stopped

\* A step that leaves the orders alone and brings no run to life keeps the invariant
\* if the locals it writes are in order.
LEMMA TaskStep ==
  ASSUME EntryInv, NEW t \in Tasks, NEW x \in Local, task' = [task EXCEPT ![t] = x],
         UNCHANGED <<entry, held, exited, failed, torn, crashes>>,
         runs' \in [Runs -> {"unborn", "active", "stopped"}],
         \A r \in Runs : runs'[r] = "unborn" <=> runs[r] = "unborn",
         row' = row \/ row' = Stopped,
         state' \in [Runs -> {NONE} \cup [Legs -> LegStatus]],
         LocalOK(x),
         x.pc = "enter" => At(t, "enter") /\ x.run = task[t].run
  PROVE  EntryInv'
<1>1. /\ task' \in [Tasks -> Local] /\ task'[t] = x
      /\ \A u \in Tasks : u # t => task'[u] = task[u]
  BY WriteTask DEF EntryInv
<1>2. TypeOK'
  BY <1>1 DEF EntryInv, TypeOK, Rows
<1>3. \A y \in Local : LocalOK(y) => LocalOK(y)'
  BY DEF LocalOK, Local
<1>4. \A u \in Tasks : LocalOK(task[u])'
  <2>1. \A u \in Tasks : task[u] \in Local /\ LocalOK(task[u])
    BY DEF EntryInv, TypeOK
  <2>2. ASSUME NEW u \in Tasks PROVE LocalOK(task[u])'
    <3>1. PICK y \in Local : y = task'[u] /\ LocalOK(y)
      BY <1>1, <2>1
    <3>2. LocalOK(y)'
      BY <1>3, <3>1
    <3>3. QED
      BY <3>1, <3>2 DEF LocalOK
  <2>3. QED
    BY <2>2
<1>5. OneStarter'
  BY <1>1 DEF EntryInv, OneStarter, At
<1>6. UnbornIsEmpty' /\ NoExitWithoutEntry'
  BY DEF EntryInv, UnbornIsEmpty, NoExitWithoutEntry
<1>7. RowIsBorn'
  BY NoneAssumption DEF EntryInv, RowIsBorn, TypeOK, Rows, Stopped, Running
<1>8. QED
  BY <1>2, <1>4, <1>5, <1>6, <1>7 DEF EntryInv

-----------------------------------------------------------------------------
(* The steps *)

\* Requests and refusals: the task is idle before or after.
LEMMA RequestKeeps ==
  ASSUME EntryInv, NEW t \in Tasks, Request(t) \/ RefuseStart(t),
         UNCHANGED <<torn, crashes>>
  PROVE  EntryInv'
<1>1. TypeOK /\ RowIsBorn
  BY DEF EntryInv
<1>2. CASE LoadForStart(t)
  <2> DEFINE x == [Idle EXCEPT !.pc = "gate", !.seen = row]
  <2>1. x \in Local
    BY <1>1, IdleLocal DEF Idle, Local, TypeOK
  <2>2. LocalOK(x)
    BY DEF LocalOK, Idle
  <2>3. QED
    BY <1>1, <1>2, <2>1, <2>2, TaskStep DEF LoadForStart, Become, TypeOK, Idle
<1>3. ASSUME NEW x \in Local, x.pc = "list", x.run \in Runs, runs[x.run] # "unborn",
             Become(t, x), UNCHANGED <<row, runs, entry, exited, state, held, failed>>
      PROVE  EntryInv'
  <2>1. LocalOK(x)
    BY <1>3, NoneAssumption DEF LocalOK
  <2>2. QED
    BY <1>1, <1>3, <2>1, TaskStep DEF Become, TypeOK
<1>4. row.status = "running" => row.run \in Runs /\ runs[row.run] # "unborn"
  BY <1>1, NoneAssumption DEF TypeOK, Rows, Stopped, Running, RowIsBorn
<1>5. CASE StopRun(t)
  <2> DEFINE x == [Idle EXCEPT !.pc = "list", !.seen = row, !.run = row.run, !.todo = Legs,
                                 !.whole = TRUE]
  <2>1. x \in Local /\ x.pc = "list" /\ x.run = row.run
    BY <1>1, <1>4, <1>5, IdleLocal DEF StopRun, Idle, Local, TypeOK
  <2> HIDE DEF x
  <2>2. QED
    BY <1>3, <1>4, <1>5, <2>1 DEF StopRun, x
<1>6. ASSUME NEW l \in Legs, CloseLeg(t, l) PROVE EntryInv'
  <2> DEFINE x == [Idle EXCEPT !.pc = "list", !.seen = row, !.run = row.run, !.todo = {l}]
  <2>1. x \in Local /\ x.pc = "list" /\ x.run = row.run
    BY <1>1, <1>4, <1>6, IdleLocal DEF CloseLeg, Idle, Local, TypeOK
  <2> HIDE DEF x
  <2>2. QED
    BY <1>3, <1>4, <1>6, <2>1 DEF CloseLeg, x
<1>7. ASSUME NEW l \in Legs, NEW r \in Runs, TriggerExit(t, r, l) PROVE EntryInv'
  <2> DEFINE x == [Idle EXCEPT !.pc = "list", !.seen = row, !.run = r, !.todo = {l}]
  <2>1. x \in Local /\ x.pc = "list" /\ x.run = r
    BY <1>1, IdleLocal DEF Idle, Local, TypeOK
  <2> HIDE DEF x
  <2>2. QED
    BY <1>3, <1>7, <2>1 DEF TriggerExit, x
<1>8. CASE RefuseStart(t)
  <2>1. LocalOK(Idle)
    BY DEF LocalOK, Idle
  <2>2. QED
    BY <1>1, <1>8, <2>1, IdleLocal, TaskStep DEF RefuseStart, Become, TypeOK, Idle
<1>9. QED
  BY <1>2, <1>5, <1>6, <1>7, <1>8 DEF Request

\* The locals of a task that only moves on.
LEMMA MoveOn ==
  ASSUME EntryInv, NEW t \in Tasks
  PROVE  /\ task[t] \in Local /\ LocalOK(task[t])
         /\ task[t].pc \notin {"idle", "gate"} =>
              task[t].run \in Runs /\ runs[task[t].run] # "unborn"
         /\ LocalOK(Idle)
  BY NoneAssumption DEF EntryInv, TypeOK, LocalOK, Local, Idle

\* Steps of a task that write no order.
LEMMA QuietKeeps ==
  ASSUME EntryInv, NEW t \in Tasks,
         \/ SeedState(t) \/ AbandonRun(t) \/ ListOrders(t) \/ SkipLeg(t) \/ MarkLeg(t)
         \/ CheckFlat(t) \/ Finalize(t) \/ ClearState(t),
         UNCHANGED <<torn, crashes>>
  PROVE  EntryInv'
<1>1. TypeOK /\ NoExitWithoutEntry
  BY DEF EntryInv
<1>2. /\ task[t] \in Local /\ LocalOK(task[t]) /\ LocalOK(Idle)
      /\ task[t].pc \notin {"idle", "gate"} =>
           task[t].run \in Runs /\ runs[task[t].run] # "unborn"
  BY MoveOn
<1> DEFINE r == task[t].run
<1>3. ASSUME r \in Runs, runs[r] # "unborn", FinalizeRun(t)
      PROVE  /\ runs' \in [Runs -> {"unborn", "active", "stopped"}]
             /\ \A s \in Runs : runs'[s] = "unborn" <=> runs[s] = "unborn"
             /\ row' = row \/ row' = Stopped
  BY <1>1, <1>3 DEF FinalizeRun, TypeOK
<1>4. CASE SeedState(t)
  <2>1. r \in Runs
    BY <1>2, <1>4 DEF SeedState, At
  <2>2. state' \in [Runs -> {NONE} \cup [Legs -> LegStatus]]
    <3>1. \A l \in Legs : entry[r][l] \in LegStatus
      BY <1>1, <1>2, <1>4, <2>1 DEF SeedState, At, LocalOK, TypeOK, LegStatus
    <3>2. entry[r] \in [Legs -> LegStatus]
      BY <1>1, <2>1, <3>1 DEF TypeOK
    <3>3. QED
      BY <1>1, <1>4, <3>2 DEF SeedState, TypeOK
  <2>3. QED
    BY <1>1, <1>2, <1>4, <2>2, IdleLocal, TaskStep DEF SeedState, Become, TypeOK, Idle
<1>5. CASE AbandonRun(t)
  BY <1>1, <1>2, <1>3, <1>5, IdleLocal, TaskStep DEF AbandonRun, Become, TypeOK, Idle, At
<1>6. CASE ListOrders(t)
  <2> DEFINE x == [task[t] EXCEPT !.pc = "exit", !.skip = Skipped(r)]
  <2>1. Skipped(r) \in SUBSET Legs /\ \A l \in Legs \ Skipped(r) : entry[r][l] = "open"
    BY <1>1, <1>2, <1>6 DEF Skipped, TypeOK, ListOrders, At
  <2>2. x \in Local
    BY <1>2, <2>1 DEF Local
  <2>3. LocalOK(x) /\ x.pc = "exit"
    BY <1>2, <1>6, <2>1 DEF LocalOK, Local, ListOrders, At
  <2>4. task' = [task EXCEPT ![t] = x]
    BY <1>6 DEF ListOrders
  <2> HIDE DEF x
  <2>5. QED
    BY <1>1, <1>6, <2>2, <2>3, <2>4, TaskStep DEF ListOrders, TypeOK
<1>7. CASE SkipLeg(t)
  <2>1. PICK l \in Firsts(task[t].todo) : task' = [task EXCEPT ![t].todo = @ \ {l}]
    BY <1>7 DEF SkipLeg
  <2> DEFINE x == [task[t] EXCEPT !.todo = @ \ {l}]
  <2>2. x \in Local
    BY <1>2 DEF Local
  <2>3. LocalOK(x) /\ x.pc = "exit"
    BY <1>2, <1>7 DEF LocalOK, Local, SkipLeg, At
  <2>4. task' = [task EXCEPT ![t] = x]
    BY <2>1
  <2> HIDE DEF x
  <2>5. QED
    BY <1>1, <1>7, <2>2, <2>3, <2>4, TaskStep DEF SkipLeg, TypeOK
<1>8. CASE MarkLeg(t)
  <2>1. r \in Runs
    BY <1>2, <1>8 DEF MarkLeg, At
  <2>2. PICK l \in Firsts(task[t].todo) :
          /\ state' = IF state[r] = NONE THEN state
                      ELSE [state EXCEPT ![r][l] = LegStatusAfter(task[t].ok)]
          /\ task' = [task EXCEPT ![t].pc = "exit", ![t].todo = @ \ {l}]
    BY <1>8 DEF MarkLeg
  <2>3. l \in Legs /\ LegStatusAfter(task[t].ok) \in LegStatus
    BY <1>2 DEF Firsts, Local, LegStatusAfter, LegStatus
  <2>4. state' \in [Runs -> {NONE} \cup [Legs -> LegStatus]]
    <3>1. CASE state[r] = NONE
      BY <1>1, <2>2, <3>1 DEF TypeOK
    <3>2. CASE state[r] # NONE
      <4>1. state[r] \in [Legs -> LegStatus]
        BY <1>1, <2>1, <3>2 DEF TypeOK
      <4>2. [state[r] EXCEPT ![l] = LegStatusAfter(task[t].ok)]
              \in [Legs -> LegStatus]
        BY <2>3, <4>1
      <4>3. state' = [state EXCEPT ![r] = [state[r] EXCEPT ![l] = LegStatusAfter(task[t].ok)]]
        BY <2>2, <3>2
      <4>4. QED
        BY <1>1, <4>2, <4>3 DEF TypeOK
    <3>3. QED
      BY <3>1, <3>2
  <2> DEFINE x == [task[t] EXCEPT !.pc = "exit", !.todo = @ \ {l}]
  <2>5. x \in Local
    BY <1>2 DEF Local
  <2>6. LocalOK(x) /\ x.pc = "exit"
    BY <1>2, <1>8 DEF LocalOK, Local, MarkLeg, At
  <2>7. task' = [task EXCEPT ![t] = x]
    BY <2>2
  <2> HIDE DEF x
  <2>8. QED
    BY <1>1, <1>8, <2>4, <2>5, <2>6, <2>7, TaskStep DEF MarkLeg, TypeOK
<1>9. ASSUME NEW pc \in {"finalize", "clear"}, task[t].pc \notin {"idle", "gate"},
             Goto(t, pc), UNCHANGED <<entry, exited, state, held, failed>>,
             \/ UNCHANGED <<runs, row>>
             \/ FinalizeRun(t)
      PROVE  EntryInv'
  <2> DEFINE x == [task[t] EXCEPT !.pc = pc]
  <2>1. x \in Local
    BY <1>2, <1>9 DEF Local
  <2>2. LocalOK(x) /\ x.pc # "enter"
    BY <1>2, <1>9 DEF LocalOK, Local
  <2>3. task' = [task EXCEPT ![t] = x]
    BY <1>9 DEF Goto
  <2> HIDE DEF x
  <2>4. CASE UNCHANGED <<runs, row>>
    BY <1>1, <1>9, <2>1, <2>2, <2>3, <2>4, TaskStep DEF TypeOK
  <2>5. CASE FinalizeRun(t)
    BY <1>1, <1>2, <1>3, <1>9, <2>1, <2>2, <2>3, <2>5, TaskStep DEF TypeOK
  <2>6. QED
    BY <1>9, <2>4, <2>5
<1>10. CASE CheckFlat(t)
  <2>1. CASE Goto(t, "finalize")
    BY <1>9, <1>10, <2>1 DEF CheckFlat, At
  <2>2. CASE Become(t, Idle)
    BY <1>1, <1>2, <1>10, <2>2, IdleLocal, TaskStep DEF CheckFlat, Become, TypeOK, Idle
  <2>3. QED
    BY <1>10, <2>1, <2>2 DEF CheckFlat
<1>11. CASE Finalize(t)
  BY <1>9, <1>11 DEF Finalize, At
<1>12. CASE ClearState(t)
  <2>1. state' \in [Runs -> {NONE} \cup [Legs -> LegStatus]]
    BY <1>1, <1>12 DEF ClearState, TypeOK
  <2>2. QED
    BY <1>1, <1>2, <1>12, <2>1, IdleLocal, TaskStep DEF ClearState, Become, TypeOK, Idle
<1>13. QED
  BY <1>4, <1>5, <1>6, <1>7, <1>8, <1>10, <1>11, <1>12

\* The starter of a run is its first task, and its legs are those without an entry.
LEMMA OpenRunKeeps ==
  ASSUME EntryInv, NEW t \in Tasks, OpenRun(t), UNCHANGED <<torn, crashes>>
  PROVE  EntryInv'
<1>1. TypeOK /\ UnbornIsEmpty /\ OneStarter
  BY DEF EntryInv
<1>2. PICK r \in Runs :
        /\ runs[r] = "unborn"
        /\ runs' = [runs EXCEPT ![r] = "active"]
        /\ row' = Running(r)
        /\ task' = [task EXCEPT ![t] = [Idle EXCEPT !.pc = "enter", !.seen = Running(r), !.run = r,
                                          !.todo = Legs]]
  BY DEF OpenRun, Become
<1>3. UNCHANGED <<entry, exited, state, held, failed>>
  BY DEF OpenRun
<1> DEFINE x == [Idle EXCEPT !.pc = "enter", !.seen = Running(r), !.run = r,
                                          !.todo = Legs]
<1>4. x \in Local /\ x.pc = "enter" /\ x.run = r /\ x.todo = Legs
  BY IdleLocal DEF Idle, Local, Rows
<1>5. /\ task' \in [Tasks -> Local] /\ task'[t] = x
      /\ \A u \in Tasks : u # t => task'[u] = task[u]
  BY <1>1, <1>2, <1>4, WriteTask
<1> HIDE DEF x
<1>6. runs' \in [Runs -> {"unborn", "active", "stopped"}] /\ runs'[r] = "active"
      /\ \A s \in Runs : s # r => runs'[s] = runs[s]
  BY <1>1, <1>2 DEF TypeOK
<1>7. TypeOK'
  BY <1>1, <1>2, <1>3, <1>5, <1>6 DEF TypeOK, Rows, Running, Stopped
<1>8. UnbornIsEmpty' /\ NoExitWithoutEntry'
  BY <1>1, <1>3, <1>6 DEF EntryInv, UnbornIsEmpty, NoExitWithoutEntry
<1>9. RowIsBorn'
  BY <1>2, <1>6 DEF RowIsBorn, Running
<1>10. \A u \in Tasks : task[u] \in Local /\ LocalOK(task[u])
  BY DEF EntryInv, TypeOK
<1>11. OneStarter'
  <2>1. \A u \in Tasks : At(u, "enter") => task[u].run # r
    BY <1>2, <1>10, NoneAssumption DEF At, LocalOK, Local
  <2>2. QED
    BY <1>1, <1>4, <1>5, <2>1 DEF OneStarter, At
<1>12. LocalOK(x)'
  BY <1>1, <1>2, <1>3, <1>4, <1>6, NoneAssumption DEF LocalOK, UnbornIsEmpty
<1>13. ASSUME NEW u \in Tasks PROVE LocalOK(task[u])'
  <2>1. CASE u = t
    BY <1>5, <1>12, <2>1 DEF LocalOK
  <2>2. CASE u # t
    <3>1. task'[u] = task[u] /\ task[u] \in Local /\ LocalOK(task[u])
      BY <1>5, <1>10, <2>2
    <3>2. task[u].run \in Runs \cup {NONE}
      BY <3>1 DEF Local
    <3>3. QED
      BY <1>3, <1>6, <3>1, <3>2 DEF LocalOK
  <2>3. QED
    BY <2>1, <2>2
<1>14. QED
  BY <1>7, <1>8, <1>9, <1>11, <1>13 DEF EntryInv

\* Only the run's starter writes an entry, once: what the others rely on, that an
\* entry is accepted, stays so.
LEMMA PlaceEntryKeeps ==
  ASSUME EntryInv, NEW t \in Tasks, PlaceEntry(t), UNCHANGED <<torn, crashes>>
  PROVE  EntryInv'
<1>1. TypeOK /\ UnbornIsEmpty /\ OneStarter /\ RowIsBorn /\ NoExitWithoutEntry
  BY DEF EntryInv
<1>2. task[t].pc = "enter" /\ UNCHANGED <<row, runs, exited, state, failed>>
  BY DEF PlaceEntry, At
<1> DEFINE r == task[t].run
<1>3. /\ task[t] \in Local /\ LocalOK(task[t])
      /\ r \in Runs /\ runs[r] # "unborn" /\ r # NONE
  BY <1>2, MoveOn, NoneAssumption
<1>4. PICK l \in task[t].todo, v \in {"open", "rejected"} :
        /\ entry' = [entry EXCEPT ![r][l] = v]
        /\ v = "open" => held' = [held EXCEPT ![r][l] = @ + 1]
        /\ v = "rejected" => held' = held
        /\ task' = [task EXCEPT ![t].todo = @ \ {l}]
  BY DEF PlaceEntry
<1>5. l \in task[t].todo /\ l \in Legs /\ entry[r][l] = "none"
  BY <1>2, <1>3, <1>4 DEF Local, LocalOK
<1> DEFINE x == [task[t] EXCEPT !.todo = @ \ {l}]
<1>6. x \in Local /\ x.pc = "enter" /\ x.run = r /\ x.todo = task[t].todo \ {l}
  BY <1>2, <1>3 DEF Local
<1>7. /\ task' \in [Tasks -> Local] /\ task'[t] = x
      /\ \A u \in Tasks : u # t => task'[u] = task[u]
  <2>1. task' = [task EXCEPT ![t] = x]
    BY <1>4
  <2> HIDE DEF x
  <2>2. QED
    BY <1>1, <1>6, <2>1, WriteTask
<1>8. /\ entry' \in [Runs -> [Legs -> {"none", "open", "rejected"}]]
      /\ entry'[r][l] = v
      /\ \A s \in Runs, k \in Legs : s # r \/ k # l => entry'[s][k] = entry[s][k]
  BY <1>1, <1>3, <1>4, <1>5 DEF TypeOK
<1>9. /\ held' \in [Runs -> [Legs -> Int]]
      /\ v = "rejected" => held' = held
      /\ \A s \in Runs, k \in Legs : s # r \/ k # l => held'[s][k] = held[s][k]
  <2>1. CASE v = "open"
    <3>1. held[r] \in [Legs -> Int] /\ held[r][l] + 1 \in Int
      BY <1>1, <1>3, <1>5 DEF TypeOK
    <3>2. held' = [held EXCEPT ![r] = [held[r] EXCEPT ![l] = held[r][l] + 1]]
      BY <1>4, <2>1
    <3>3. QED
      BY <1>1, <1>3, <1>5, <2>1, <3>1, <3>2 DEF TypeOK
  <2>2. CASE v = "rejected"
    BY <1>1, <1>4, <2>2 DEF TypeOK
  <2>3. QED
    BY <1>4, <2>1, <2>2
<1> HIDE DEF r, x
<1>10. TypeOK'
  BY <1>1, <1>2, <1>7, <1>8, <1>9 DEF TypeOK
<1>11. UnbornIsEmpty' /\ RowIsBorn'
  BY <1>1, <1>2, <1>3, <1>8 DEF UnbornIsEmpty, RowIsBorn
<1>12. OneStarter'
  BY <1>1, <1>2, <1>6, <1>7 DEF OneStarter, At, r
<1>13. NoExitWithoutEntry'
  <2>1. ASSUME NEW s \in Runs, NEW k \in Legs,
               held'[s][k] < 0 \/ k \in exited[s] \cup failed[s]
        PROVE  entry'[s][k] = "open"
    <3>1. CASE s # r \/ k # l
      BY <1>1, <1>8, <1>9, <2>1, <3>1 DEF NoExitWithoutEntry
    <3>2. CASE s = r /\ k = l /\ v = "rejected"
      BY <1>1, <1>3, <1>5, <1>9, <2>1, <3>2 DEF NoExitWithoutEntry
    <3>3. CASE s = r /\ k = l /\ v = "open"
      BY <1>8, <3>3
    <3>4. QED
      BY <1>4, <3>1, <3>2, <3>3
  <2>2. QED
    BY <1>2, <2>1 DEF NoExitWithoutEntry
<1>14. ASSUME NEW u \in Tasks PROVE LocalOK(task[u])'
  <2>1. CASE u = t
    <3>1. \A k \in Legs : entry'[r][k] = "none" <=> k \in task[t].todo \ {l}
      BY <1>2, <1>3, <1>4, <1>5, <1>8 DEF LocalOK, r
    <3>2. QED
      BY <1>2, <1>3, <1>6, <1>7, <2>1, <3>1 DEF LocalOK
  <2>2. CASE u # t
    <3>1. task'[u] = task[u] /\ task[u] \in Local /\ LocalOK(task[u])
      BY <1>7, <2>2 DEF EntryInv, TypeOK
    <3>2. task[u].pc = "enter" => task[u].run # r
      BY <1>1, <1>2, <2>2 DEF OneStarter, At, r
    <3>3. \A k \in Legs : entry[task[u].run][k] = "open" /\ task[u].run \in Runs
                          => entry'[task[u].run][k] = "open"
      BY <1>5, <1>8
    <3>4. QED
      BY <1>2, <1>8, <3>1, <3>2, <3>3 DEF LocalOK, Local
  <2>3. QED
    BY <2>1, <2>2
<1>15. QED
  BY <1>10, <1>11, <1>12, <1>13, <1>14 DEF EntryInv

\* A step that writes no entry and no run keeps the invariant if the locals it
\* writes are in order and what it sends or records is for an accepted entry.
LEMMA ExitStep ==
  ASSUME EntryInv, NEW t \in Tasks, NEW x \in Local, task' = [task EXCEPT ![t] = x],
         LocalOK(x), x.pc # "enter", UNCHANGED <<row, runs, entry, state, torn, crashes>>,
         held' \in [Runs -> [Legs -> Int]],
         exited' \in [Runs -> SUBSET Legs], failed' \in [Runs -> SUBSET Legs],
         NoExitWithoutEntry'
  PROVE  EntryInv'
<1>1. /\ task' \in [Tasks -> Local] /\ task'[t] = x
      /\ \A u \in Tasks : u # t => task'[u] = task[u]
  BY WriteTask DEF EntryInv
<1>2. TypeOK'
  BY <1>1 DEF EntryInv, TypeOK
<1>3. OneStarter'
  BY <1>1 DEF EntryInv, OneStarter, At
<1>4. UnbornIsEmpty' /\ RowIsBorn'
  BY DEF EntryInv, UnbornIsEmpty, RowIsBorn
<1>5. ASSUME NEW u \in Tasks PROVE LocalOK(task[u])'
  <2>1. PICK y \in Local : y = task'[u] /\ LocalOK(y)
    BY <1>1 DEF EntryInv, TypeOK
  <2>2. QED
    BY <2>1 DEF LocalOK
<1>6. QED
  BY <1>2, <1>3, <1>4, <1>5 DEF EntryInv

\* An exit is sent and recorded for a leg the task has not skipped.
LEMMA ExitKeeps ==
  ASSUME EntryInv, NEW t \in Tasks, SendExit(t) \/ RecordExit(t), UNCHANGED <<torn, crashes>>
  PROVE  EntryInv'
<1>1. TypeOK /\ NoExitWithoutEntry
  BY DEF EntryInv
<1>2. task[t].pc \in {"exit", "record"} /\ UNCHANGED <<row, runs, entry, state>>
  BY DEF SendExit, RecordExit, At
<1> DEFINE r == task[t].run
<1>3. task[t] \in Local /\ LocalOK(task[t]) /\ r \in Runs
  BY <1>2, MoveOn
<1>4. \A k, l \in Legs : k \in Firsts(task[t].todo) /\ l \in Firsts(task[t].todo) => k = l
  <2>1. \A k, l \in Legs : k <= l /\ l <= k => k = l
    BY RunsAssumption
  <2>2. QED
    BY <2>1 DEF Firsts
<1>5. CASE SendExit(t)
  <2>1. PICK l \in Firsts(task[t].todo), ok \in BOOLEAN :
          /\ l \notin task[t].skip
          /\ ok => held' = [held EXCEPT ![r][l] = @ - 1] /\ failed' = failed
          /\ ~ok => held' = held /\ failed' = [failed EXCEPT ![r] = @ \cup {l}]
          /\ task' = [task EXCEPT ![t].pc = "record", ![t].ok = ok]
    BY <1>5 DEF SendExit
  <2>2. task[t].pc = "exit" /\ exited' = exited
    BY <1>5 DEF SendExit, At
  <2>3. l \in Legs /\ l \in task[t].todo /\ entry[r][l] = "open"
    BY <1>3, <2>1, <2>2 DEF Firsts, Local, LocalOK
  <2> DEFINE x == [task[t] EXCEPT !.pc = "record", !.ok = ok]
  <2>4. /\ x \in Local /\ x.pc = "record" /\ x.run = r
        /\ x.todo = task[t].todo /\ x.skip = task[t].skip
    BY <1>3, <2>1 DEF Local
  <2>5. task' = [task EXCEPT ![t] = x]
    BY <2>1
  <2> HIDE DEF x
  <2>6. LocalOK(x)
    <3>1. Firsts(task[t].todo) \cap task[t].skip = {}
      BY <1>3, <1>4, <2>1, <2>3 DEF Firsts, Local
    <3>2. QED
      BY <1>3, <2>2, <2>4, <3>1 DEF LocalOK
  <2>7. /\ held' \in [Runs -> [Legs -> Int]]
        /\ \A s \in Runs, k \in Legs : s # r \/ k # l => held'[s][k] = held[s][k]
    <3>1. CASE ok
      <4>1. held[r] \in [Legs -> Int] /\ held[r][l] - 1 \in Int
        BY <1>1, <1>3, <2>3 DEF TypeOK
      <4>2. held' = [held EXCEPT ![r] = [held[r] EXCEPT ![l] = held[r][l] - 1]]
        BY <2>1, <3>1
      <4>3. QED
        BY <1>1, <1>3, <2>3, <4>1, <4>2 DEF TypeOK
    <3>2. CASE ~ok
      BY <1>1, <2>1, <3>2 DEF TypeOK
    <3>3. QED
      BY <3>1, <3>2
  <2>8. /\ failed' \in [Runs -> SUBSET Legs]
        /\ \A s \in Runs, k \in Legs : s # r \/ k # l => (k \in failed'[s] <=> k \in failed[s])
    <3>1. CASE ok
      BY <1>1, <2>1, <3>1 DEF TypeOK
    <3>2. CASE ~ok
      <4>1. failed' = [failed EXCEPT ![r] = failed[r] \cup {l}]
        BY <2>1, <3>2
      <4>2. failed[r] \cup {l} \in SUBSET Legs
        BY <1>1, <1>3, <2>3 DEF TypeOK
      <4>3. QED
        BY <1>1, <1>3, <4>1, <4>2 DEF TypeOK
    <3>3. QED
      BY <3>1, <3>2
  <2>9. NoExitWithoutEntry'
    BY <1>1, <1>2, <1>3, <2>2, <2>3, <2>7, <2>8 DEF NoExitWithoutEntry
  <2>10. QED
    BY <1>1, <1>2, <2>2, <2>4, <2>5, <2>6, <2>7, <2>8, <2>9, ExitStep DEF TypeOK
<1>6. CASE RecordExit(t)
  <2>1. PICK l \in Firsts(task[t].todo) :
          exited' = IF task[t].ok THEN [exited EXCEPT ![r] = @ \cup {l}] ELSE exited
    BY <1>6 DEF RecordExit
  <2>2. task[t].pc = "record" /\ UNCHANGED <<held, failed>>
    BY <1>6 DEF RecordExit, At
  <2>3. l \in Legs /\ l \in task[t].todo /\ entry[r][l] = "open"
    BY <1>3, <2>2 DEF Firsts, Local, LocalOK
  <2> DEFINE x == [task[t] EXCEPT !.pc = "mark"]
  <2>4. /\ x \in Local /\ x.pc = "mark" /\ x.run = r
        /\ x.todo = task[t].todo /\ x.skip = task[t].skip
    BY <1>3 DEF Local
  <2>5. task' = [task EXCEPT ![t] = x]
    BY <1>6 DEF RecordExit, Goto
  <2> HIDE DEF x
  <2>6. LocalOK(x)
    BY <1>3, <2>2, <2>4 DEF LocalOK
  <2>7. /\ exited' \in [Runs -> SUBSET Legs]
        /\ \A s \in Runs, k \in Legs : s # r \/ k # l => (k \in exited'[s] <=> k \in exited[s])
    BY <1>1, <1>3, <2>1, <2>3 DEF TypeOK
  <2>8. NoExitWithoutEntry'
    BY <1>1, <1>2, <1>3, <2>2, <2>3, <2>7 DEF NoExitWithoutEntry
  <2>9. QED
    BY <1>1, <1>2, <2>2, <2>4, <2>5, <2>6, <2>7, <2>8, ExitStep DEF TypeOK
<1>7. QED
  BY <1>5, <1>6

\* A restart leaves every task idle and every accepted entry accepted; what it adds
\* to the broker's lots is an entry, never an exit.
LEMMA RestartKeeps ==
  ASSUME EntryInv, Restart
  PROVE  EntryInv'
<1>1. TypeOK /\ UnbornIsEmpty /\ RowIsBorn /\ NoExitWithoutEntry
  BY DEF EntryInv
<1>2. task' = [t \in Tasks |-> Idle] /\ UNCHANGED <<entry, exited, failed>>
  BY DEF Restart
<1>3. PICK sent \in Unrecorded, bad \in SUBSET {r \in Runs : runs[r] = "active"} :
        /\ held' = [r \in Runs |-> [l \in Legs |->
                      held[r][l] + IF <<r, l>> \in sent THEN 1 ELSE 0]]
        /\ torn' = [r \in Runs |-> IF r \in bad THEN Legs
                      ELSE torn[r] \cup Sent(r) \cup {l \in Legs : <<r, l>> \in sent}]
        /\ runs' = [r \in Runs |-> IF r \in bad THEN "stopped" ELSE runs[r]]
        /\ row' = IF bad = {} THEN row ELSE Stopped
        /\ state' = [r \in Runs |-> IF runs[r] = "active" /\ r \notin bad
                                    THEN [l \in Legs |-> Recovered(r, l)] ELSE state[r]]
  BY DEF Restart
<1>4. /\ runs' \in [Runs -> {"unborn", "active", "stopped"}]
      /\ \A r \in Runs : runs'[r] = "unborn" <=> runs[r] = "unborn"
  BY <1>1, <1>3 DEF TypeOK
<1>5. /\ held' \in [Runs -> [Legs -> Int]]
      /\ \A r \in Runs, l \in Legs : held'[r][l] < 0 => held[r][l] < 0
  BY <1>1, <1>3 DEF TypeOK
<1>6. state' \in [Runs -> {NONE} \cup [Legs -> LegStatus]]
  <2>1. \A r \in Runs, l \in Legs : Recovered(r, l) \in LegStatus
    BY DEF Recovered, LegStatus
  <2>2. QED
    BY <1>1, <1>3, <2>1 DEF TypeOK
<1>7. torn' \in [Runs -> SUBSET Legs] /\ crashes' \in Nat
  <2>1. \A r \in Runs : Sent(r) \subseteq Legs
    BY <1>1 DEF Sent, Firsts, TypeOK, Local
  <2>2. \A r \in Runs : torn'[r] \in SUBSET Legs
    BY <1>1, <1>3, <2>1 DEF TypeOK
  <2>3. crashes' \in Nat
    BY <1>1 DEF Restart, TypeOK
  <2>4. QED
    BY <1>3, <2>2, <2>3
<1>8. TypeOK'
  BY <1>1, <1>2, <1>3, <1>4, <1>5, <1>6, <1>7, IdleLocal DEF TypeOK, Rows
<1>9. UnbornIsEmpty' /\ NoExitWithoutEntry'
  BY <1>1, <1>2, <1>4, <1>5 DEF UnbornIsEmpty, NoExitWithoutEntry
<1>10. RowIsBorn'
  BY <1>1, <1>3, <1>4, NoneAssumption DEF RowIsBorn, TypeOK, Rows, Stopped, Running
<1>11. OneStarter' /\ \A t \in Tasks : LocalOK(task[t])'
  BY <1>2 DEF OneStarter, At, LocalOK, Idle
<1>12. QED
  BY <1>8, <1>9, <1>10, <1>11 DEF EntryInv

-----------------------------------------------------------------------------
(* The theorems *)

\* The invariant is inductive.
LEMMA EntriesInductive == Spec => []EntryInv
<1>1. Init => EntryInv
  <2>1. SUFFICES ASSUME Init PROVE EntryInv
    OBVIOUS
  <2>2. TypeOK
    BY <2>1, IdleLocal DEF Init, TypeOK, Rows, Stopped
  <2>3. UnbornIsEmpty /\ RowIsBorn /\ OneStarter /\ NoExitWithoutEntry
    BY <2>1 DEF Init, UnbornIsEmpty, RowIsBorn, OneStarter, NoExitWithoutEntry, Stopped, At, Idle
  <2>4. \A t \in Tasks : LocalOK(task[t])
    BY <2>1 DEF Init, LocalOK, Idle
  <2>5. QED
    BY <2>2, <2>3, <2>4 DEF EntryInv
<1>2. EntryInv /\ [Next]_vars => EntryInv'
  <2>1. SUFFICES ASSUME EntryInv, [Next]_vars PROVE EntryInv'
    OBVIOUS
  <2>2. ASSUME NEW t \in Tasks, Step(t) \/ Request(t), UNCHANGED <<torn, crashes>>
        PROVE EntryInv'
    BY <2>1, <2>2, RequestKeeps, QuietKeeps, OpenRunKeeps, PlaceEntryKeeps, ExitKeeps DEF Step
  <2>3. CASE UNCHANGED vars
    BY <2>1, <2>3 DEF vars, EntryInv, TypeOK, UnbornIsEmpty, RowIsBorn, OneStarter,
                      NoExitWithoutEntry, LocalOK, At
  <2>4. QED
    BY <2>1, <2>2, <2>3, RestartKeeps DEF Next, Run
<1>3. QED
  BY <1>1, <1>2, PTL DEF Spec

\* The engine's three copies of a run keep their shape: in particular a run state is
\* only built when each leg has an entry order, accepted or rejected.
THEOREM RunTypes == Spec => []TypeOK
<1>1. EntryInv => TypeOK
  BY DEF EntryInv
<1>2. QED
  BY <1>1, EntriesInductive, PTL

\* However many tasks start, stop and close at once, and whatever crashes, no leg is
\* exited at the broker or has an exit on record unless its entry was accepted
\* (_exit_legs).
THEOREM ExitsFollowEntries == Spec => []NoExitWithoutEntry
<1>1. EntryInv => NoExitWithoutEntry
  BY DEF EntryInv
<1>2. QED
  BY <1>1, EntriesInductive, PTL

-----------------------------------------------------------------------------
(* One task at a time *)

\* A leg is open by the order rows; a leg with nothing more to exit.
Out(r, l) == entry[r][l] = "open" /\ l \notin exited[r]
Done(r, l) == ~Out(r, l) \/ l \in failed[r]

\* The leg whose exit the broker has taken but no row records yet.
InFlight(x, r, l) == x.pc = "record" /\ x.run = r /\ x.ok /\ l \in Firsts(x.todo)

\* The strategy as the task has loaded it is the row; its run is the active one.
RowFits(x) ==
  /\ \A r \in Runs : runs[r] = "active" <=> row = Running(r)
  /\ x.pc \notin {"idle", "clear"} => x.seen = row
  /\ x.pc \in {"enter", "list", "exit", "record", "mark", "finalize"} => row = Running(x.run)
  /\ x.pc = "clear" => runs[x.run] = "stopped"

\* No leg is exited before all are entered.  What the task decided to skip is what the rows would have it skip now; the leg it
\* is exiting is settled by the broker's answer.
ListFits(x) ==
  /\ x.pc = "enter" => exited[x.run] = {}
  /\ x.pc \in {"exit", "record"} => \A l \in x.todo : l \in x.skip <=> l \in Skipped(x.run)
  /\ x.pc = "mark" => \A l \in x.todo : /\ l \in Firsts(x.todo) => entry[x.run][l] = "open"
                                        /\ l \in Firsts(x.todo) => (l \in exited[x.run] <=> x.ok)
                                        /\ l \notin Firsts(x.todo) => (l \in x.skip <=> l \in Skipped(x.run))
  /\ x.pc \in {"record", "mark"} /\ ~x.ok => Firsts(x.todo) \subseteq failed[x.run]

\* The legs a stop has been through, and those of a run about to be finalized.
LegsDone(x) ==
  /\ x.whole /\ x.pc \in {"list", "exit", "record", "mark"} =>
       \A l \in Legs \ x.todo : Done(x.run, l)
  /\ x.pc = "finalize" => \A l \in Legs : Done(x.run, l)

\* The broker holds what the rows say, but for the exit in flight.
HeldFits(x) ==
  \A r \in Runs : \A l \in Legs \ torn[r] :
    held[r][l] = IF Out(r, l) /\ ~InFlight(x, r, l) THEN 1 ELSE 0

\* The run state says what the rows say, but for the leg to be marked.
StateFits(x) ==
  \A r \in Runs : runs[r] = "active" /\ ~(x.pc = "enter" /\ x.run = r) =>
    /\ state[r] # NONE
    /\ \A l \in Legs : ~(x.pc = "mark" /\ x.run = r /\ l \in Firsts(x.todo)) =>
         (state[r][l] = "open" <=> Out(r, l))

EndedIsDone ==
  \A r \in Runs : runs[r] = "stopped" => \A l \in Legs \ torn[r] : Done(r, l)

Alone(x) ==
  /\ RowFits(x) /\ ListFits(x) /\ LegsDone(x)
  /\ HeldFits(x) /\ StateFits(x) /\ EndedIsDone

-----------------------------------------------------------------------------
LEMMA FirstsOne == \A S \in SUBSET Legs : \A k, l \in Firsts(S) : k = l
  BY RunsAssumption DEF Firsts

\* What is known of the task before its step.
LEMMA AloneParts ==
  ASSUME EntryInv, NEW t \in Tasks, NEW y, y = task[t], Alone(y)
  PROVE  /\ y \in Local /\ LocalOK(y) /\ TypeOK /\ NoExitWithoutEntry /\ UnbornIsEmpty
         /\ RowFits(y) /\ ListFits(y) /\ LegsDone(y)
         /\ HeldFits(y) /\ StateFits(y) /\ EndedIsDone
         /\ y.pc \notin {"idle", "gate"} => y.run \in Runs
  BY NoneAssumption DEF EntryInv, TypeOK, LocalOK, Alone, Local

\* A step that only changes the task keeps the rest.
LEMMA AloneMoves ==
  ASSUME NEW y, NEW z, Alone(y), RowFits(z), ListFits(z), LegsDone(z),
         UNCHANGED <<row, runs, entry, exited, state, held, failed, torn>>,
         y.pc \notin {"enter", "record", "mark"}, z.pc \notin {"enter", "record", "mark"}
  PROVE  Alone(z)'
<1>1. /\ \A r, l : Out(r, l)' <=> Out(r, l)
      /\ \A r, l : Done(r, l)' <=> Done(r, l)
  BY DEF Out, Done
<1>2. RowFits(z)'
  BY DEF RowFits
<1>3. ListFits(z)'
  BY DEF ListFits, Skipped
<1>4. LegsDone(z)'
  BY <1>1 DEF LegsDone
<1>5. HeldFits(z)'
  BY <1>1 DEF Alone, HeldFits, InFlight
<1>6. StateFits(z)'
  BY <1>1 DEF Alone, StateFits
<1>7. EndedIsDone'
  BY <1>1 DEF Alone, EndedIsDone
<1>8. QED
  BY <1>2, <1>3, <1>4, <1>5, <1>6, <1>7 DEF Alone

\* Requests, refusals, and the listing and skipping of legs.
LEMMA AloneRequest ==
  ASSUME NEW t, Tasks = {t}, EntryInv, Alone(task[t]),
         Request(t) \/ RefuseStart(t), UNCHANGED torn
  PROVE  Alone(task[t])'
<1>1. PICK y : y = task[t]
  OBVIOUS
<1>2. /\ y \in Local /\ LocalOK(y) /\ TypeOK /\ RowFits(y) /\ LegsDone(y)
      /\ Alone(y) /\ y.pc \in {"idle", "gate"}
  BY <1>1, AloneParts DEF Request, LoadForStart, StopRun, CloseLeg, TriggerExit, RefuseStart, At
<1>3. UNCHANGED <<row, runs, entry, exited, state, held, failed, torn>>
  BY DEF Request, LoadForStart, StopRun, CloseLeg, TriggerExit, RefuseStart
<1>4. ASSUME NEW z, Become(t, z), z.pc \in {"idle", "gate", "list"}, RowFits(z), LegsDone(z)
      PROVE  Alone(task[t])'
  <2>1. ListFits(z)
    BY <1>4 DEF ListFits
  <2>2. task'[t] = z
    BY <1>2, <1>4 DEF Become, TypeOK
  <2>3. Alone(z)'
    BY <1>2, <1>3, <1>4, <2>1, AloneMoves
  <2>4. QED
    BY <2>2, <2>3
<1>5. \A r \in Runs : runs[r] = "active" <=> row = Running(r)
  BY <1>2 DEF RowFits
<1>6. row.status = "running" => row = Running(row.run)
  BY <1>2 DEF TypeOK, Rows, Stopped, Running
<1>7. CASE LoadForStart(t) \/ RefuseStart(t)
  <2>1. ASSUME NEW z, Become(t, z), z.pc = "idle" \/ (z.pc = "gate" /\ z.seen = row)
        PROVE  Alone(task[t])'
    <3>1. RowFits(z) /\ LegsDone(z)
      BY <1>5, <2>1 DEF RowFits, LegsDone
    <3>2. QED
      BY <1>4, <2>1, <3>1
  <2>2. PICK z : z = [Idle EXCEPT !.pc = "gate", !.seen = row]
    OBVIOUS
  <2>3. z.pc = "gate" /\ z.seen = row /\ Idle.pc = "idle"
    BY <2>2 DEF Idle
  <2>4. QED
    BY <1>7, <2>1, <2>2, <2>3 DEF LoadForStart, RefuseStart
<1>8. ASSUME NEW z, Become(t, z), z.pc = "list", z.seen = row, row = Running(z.run),
             z.whole => z.todo = Legs
      PROVE  Alone(task[t])'
  <2>1. RowFits(z) /\ LegsDone(z)
    BY <1>5, <1>8 DEF RowFits, LegsDone
  <2>2. QED
    BY <1>4, <1>8, <2>1
<1>9. CASE StopRun(t)
  <2>1. PICK z : z = [Idle EXCEPT !.pc = "list", !.seen = row, !.run = row.run, !.todo = Legs,
                                 !.whole = TRUE]
    OBVIOUS
  <2>2. z.pc = "list" /\ z.seen = row /\ z.run = row.run /\ z.todo = Legs
    BY <2>1 DEF Idle
  <2>3. QED
    BY <1>6, <1>8, <1>9, <2>1, <2>2 DEF StopRun
<1>10. ASSUME NEW l \in Legs, CloseLeg(t, l) PROVE Alone(task[t])'
  <2>1. PICK z : z = [Idle EXCEPT !.pc = "list", !.seen = row, !.run = row.run, !.todo = {l}]
    OBVIOUS
  <2>2. z.pc = "list" /\ z.seen = row /\ z.run = row.run /\ z.whole = FALSE
    BY <2>1 DEF Idle
  <2>3. QED
    BY <1>6, <1>8, <1>10, <2>1, <2>2 DEF CloseLeg
<1>11. ASSUME NEW l \in Legs, NEW r \in Runs, TriggerExit(t, r, l) PROVE Alone(task[t])'
  <2>1. PICK z : z = [Idle EXCEPT !.pc = "list", !.seen = row, !.run = r, !.todo = {l}]
    OBVIOUS
  <2>2. z.pc = "list" /\ z.seen = row /\ z.run = r /\ z.whole = FALSE
    BY <2>1 DEF Idle
  <2>3. QED
    BY <1>5, <1>8, <1>11, <2>1, <2>2 DEF TriggerExit
<1>12. QED
  BY <1>7, <1>9, <1>10, <1>11 DEF Request

LEMMA AloneList ==
  ASSUME NEW t, Tasks = {t}, EntryInv, Alone(task[t]),
         ListOrders(t) \/ SkipLeg(t) \/ CheckFlat(t), UNCHANGED torn
  PROVE  Alone(task[t])'
<1>1. PICK y : y = task[t]
  OBVIOUS
<1>2. /\ y \in Local /\ LocalOK(y) /\ TypeOK /\ Alone(y) /\ y.pc \in {"list", "exit"}
      /\ RowFits(y) /\ ListFits(y) /\ LegsDone(y) /\ StateFits(y) /\ y.run \in Runs
  BY <1>1, AloneParts DEF ListOrders, SkipLeg, CheckFlat, At
<1>3. UNCHANGED <<row, runs, entry, exited, state, held, failed, torn>>
  BY DEF ListOrders, SkipLeg, CheckFlat
<1>4. ASSUME NEW z, Become(t, z), z.pc \in {"idle", "exit", "finalize"},
             z.pc # "idle" => z.run = y.run /\ z.seen = y.seen, ListFits(z), LegsDone(z)
      PROVE  Alone(task[t])'
  <2>1. task'[t] = z
    BY <1>2, <1>4 DEF Become, TypeOK
  <2>2. RowFits(z)
    BY <1>2, <1>4 DEF RowFits
  <2>3. Alone(z)'
    BY <1>2, <1>3, <1>4, <2>2, AloneMoves
  <2>4. QED
    BY <2>1, <2>3
<1>5. CASE ListOrders(t)
  <2>1. PICK z : z = [y EXCEPT !.pc = "exit", !.skip = Skipped(y.run)]
    OBVIOUS
  <2>2. z.pc = "exit" /\ z.skip = Skipped(y.run) /\ z.run = y.run /\ z.seen = y.seen
        /\ z.todo = y.todo /\ z.whole = y.whole
    BY <1>2, <2>1 DEF Local
  <2>3. Become(t, z)
    BY <1>1, <1>2, <1>5, <2>1 DEF ListOrders, Become, TypeOK, Local
  <2>4. ListFits(z) /\ LegsDone(z)
    BY <1>1, <1>2, <1>5, <2>2 DEF ListFits, LegsDone, ListOrders, At
  <2>5. QED
    BY <1>4, <2>2, <2>3, <2>4
<1>6. CASE SkipLeg(t)
  <2>1. PICK l \in Firsts(y.todo) : l \in y.skip /\ task' = [task EXCEPT ![t].todo = @ \ {l}]
    BY <1>1, <1>6 DEF SkipLeg
  <2>2. PICK z : z = [y EXCEPT !.todo = @ \ {l}]
    OBVIOUS
  <2>3. z.pc = y.pc /\ z.skip = y.skip /\ z.run = y.run /\ z.seen = y.seen
        /\ z.todo = y.todo \ {l} /\ z.whole = y.whole /\ y.pc = "exit" /\ l \in y.todo
    BY <1>1, <1>2, <1>6, <2>1, <2>2 DEF Local, SkipLeg, At, Firsts
  <2>4. Become(t, z)
    BY <1>1, <1>2, <2>1, <2>2 DEF Become, TypeOK, Local
  <2>5. Done(y.run, l)
    BY <1>2, <2>1, <2>3 DEF ListFits, Skipped, Done, Out
  <2>6. ListFits(z) /\ LegsDone(z)
    BY <1>2, <2>3, <2>5 DEF ListFits, LegsDone
  <2>7. QED
    BY <1>4, <2>3, <2>4, <2>6
<1>7. CASE CheckFlat(t)
  <2>1. y.pc = "exit" /\ y.todo = {}
    BY <1>1, <1>7 DEF CheckFlat, At
  <2>2. CASE y.whole \/ AllFlat(y.run)
    <3>1. PICK z : z = [y EXCEPT !.pc = "finalize"]
      OBVIOUS
    <3>2. z.pc = "finalize" /\ z.run = y.run /\ z.seen = y.seen
      BY <1>2, <3>1 DEF Local
    <3>3. Become(t, z)
      BY <1>1, <1>2, <1>7, <2>2, <3>1 DEF CheckFlat, Goto, Become, TypeOK, Local
    <3>4. runs[y.run] = "active"
      BY <1>2, <2>1 DEF RowFits
    <3>5. \A l \in Legs : Done(y.run, l)
      BY <1>2, <2>1, <2>2, <3>4 DEF LegsDone, AllFlat, StateFits, Done
    <3>6. ListFits(z) /\ LegsDone(z)
      BY <3>2, <3>5 DEF ListFits, LegsDone
    <3>7. QED
      BY <1>4, <3>2, <3>3, <3>6
  <2>3. CASE ~(y.whole \/ AllFlat(y.run))
    <3>1. Become(t, Idle) /\ Idle.pc = "idle"
      BY <1>1, <1>7, <2>3 DEF CheckFlat, Idle
    <3>2. ListFits(Idle) /\ LegsDone(Idle)
      BY <3>1 DEF ListFits, LegsDone
    <3>3. QED
      BY <1>4, <3>1, <3>2
  <2>4. QED
    BY <2>2, <2>3
<1>8. QED
  BY <1>5, <1>6, <1>7

\* A start: its run is the one active run and has no orders.
LEMMA AloneOpen ==
  ASSUME NEW t, Tasks = {t}, EntryInv, Alone(task[t]), OpenRun(t), UNCHANGED torn
  PROVE  Alone(task[t])'
<1>1. PICK y : y = task[t]
  OBVIOUS
<1>2. /\ y \in Local /\ TypeOK /\ RowFits(y) /\ y.pc = "gate" /\ y.seen.status = "stopped"
      /\ NoExitWithoutEntry /\ UnbornIsEmpty /\ HeldFits(y) /\ StateFits(y) /\ EndedIsDone
  BY <1>1, AloneParts DEF OpenRun, Gate, At
<1>3. PICK r \in Runs :
        /\ runs[r] = "unborn" /\ runs' = [runs EXCEPT ![r] = "active"] /\ row' = Running(r)
        /\ Become(t, [Idle EXCEPT !.pc = "enter", !.seen = Running(r), !.run = r, !.todo = Legs])
  BY DEF OpenRun
<1>4. PICK z : z = [Idle EXCEPT !.pc = "enter", !.seen = Running(r), !.run = r, !.todo = Legs]
  OBVIOUS
<1>5. z.pc = "enter" /\ z.seen = Running(r) /\ z.run = r /\ z.whole = FALSE
  BY <1>4 DEF Idle
<1>6. task'[t] = z
  BY <1>2, <1>3, <1>4 DEF Become, TypeOK
<1>7. UNCHANGED <<entry, exited, state, held, failed>>
  BY DEF OpenRun
<1>8. /\ \A q, l : Out(q, l)' <=> Out(q, l)
      /\ \A q, l : Done(q, l)' <=> Done(q, l)
  BY <1>7 DEF Out, Done
<1>9. \A q \in Runs : runs[q] # "active"
  BY <1>2 DEF RowFits, Running
<1>10. \A q \in Runs : q # r => runs'[q] = runs[q]
  BY <1>2, <1>3 DEF TypeOK
<1>11. runs'[r] = "active"
  BY <1>2, <1>3 DEF TypeOK
<1>12. RowFits(z)'
  BY <1>3, <1>5, <1>9, <1>10, <1>11 DEF RowFits, Running
<1>13. ListFits(z)' /\ LegsDone(z)'
  <2>1. exited[r] = {}
    BY <1>2, <1>3 DEF TypeOK, NoExitWithoutEntry, UnbornIsEmpty
  <2>2. QED
    BY <1>5, <1>7, <2>1 DEF ListFits, LegsDone
<1>14. HeldFits(z)'
  BY <1>2, <1>5, <1>7, <1>8 DEF HeldFits, InFlight
<1>15. StateFits(z)'
  BY <1>5, <1>9, <1>10 DEF StateFits
<1>16. EndedIsDone'
  BY <1>2, <1>8, <1>10, <1>11 DEF EndedIsDone
<1>17. Alone(z)'
  BY <1>12, <1>13, <1>14, <1>15, <1>16 DEF Alone
<1>18. QED
  BY <1>6, <1>17

\* An entry is placed: the broker holds it, and its row says so, or neither.
LEMMA AloneEnter ==
  ASSUME NEW t, Tasks = {t}, EntryInv, Alone(task[t]), PlaceEntry(t), UNCHANGED torn
  PROVE  Alone(task[t])'
<1>1. PICK y : y = task[t]
  OBVIOUS
<1>2. /\ y \in Local /\ TypeOK /\ RowFits(y) /\ y.pc = "enter" /\ LocalOK(y) /\ y.run \in Runs
      /\ ListFits(y)
      /\ NoExitWithoutEntry /\ HeldFits(y) /\ StateFits(y) /\ EndedIsDone
  BY <1>1, AloneParts DEF PlaceEntry, At
<1>3. PICK l \in y.todo :
        /\ \/ entry' = [entry EXCEPT ![y.run][l] = "open"] /\ held' = [held EXCEPT ![y.run][l] = @ + 1]
           \/ entry' = [entry EXCEPT ![y.run][l] = "rejected"] /\ held' = held
        /\ task' = [task EXCEPT ![t].todo = @ \ {l}]
  BY <1>1 DEF PlaceEntry
<1>4. UNCHANGED <<row, runs, exited, state, failed>>
  BY DEF PlaceEntry
<1>5. PICK z : z = [y EXCEPT !.todo = @ \ {l}]
  OBVIOUS
<1>6. z.pc = "enter" /\ z.seen = y.seen /\ z.run = y.run
  BY <1>2, <1>5 DEF Local
<1>7. task'[t] = z
  BY <1>1, <1>2, <1>3, <1>5 DEF TypeOK, Local
<1>8. l \in Legs /\ entry[y.run][l] = "none"
  BY <1>2, <1>3 DEF LocalOK, Local
<1>9. \A q \in Runs, k \in Legs : q # y.run \/ k # l =>
        entry'[q][k] = entry[q][k] /\ held'[q][k] = held[q][k]
  BY <1>2, <1>3, <1>8 DEF TypeOK
<1>10. \/ entry'[y.run][l] = "open" /\ held'[y.run][l] = held[y.run][l] + 1
       \/ entry'[y.run][l] = "rejected" /\ held'[y.run][l] = held[y.run][l]
  BY <1>2, <1>3, <1>8 DEF TypeOK
<1>11. RowFits(z)'
  BY <1>2, <1>4, <1>6 DEF RowFits
<1>12. ListFits(z)' /\ LegsDone(z)'
  BY <1>2, <1>4, <1>6 DEF ListFits, LegsDone
<1>13. HeldFits(z)'
  <2>1. SUFFICES ASSUME NEW q \in Runs, NEW k \in Legs \ torn[q]
                 PROVE  held'[q][k] = IF Out(q, k)' THEN 1 ELSE 0
    BY <1>6 DEF HeldFits, InFlight
  <2>2. held[q][k] = IF Out(q, k) THEN 1 ELSE 0
    BY <1>2 DEF HeldFits, InFlight
  <2>3. CASE q # y.run \/ k # l
    BY <1>4, <1>9, <2>2, <2>3 DEF Out
  <2>4. CASE q = y.run /\ k = l
    <3>1. ~Out(q, k) /\ l \notin exited[y.run]
      BY <1>2, <1>8, <2>4 DEF Out, NoExitWithoutEntry
    <3>2. held[y.run][l] = 0
      BY <2>2, <2>4, <3>1
    <3>3. CASE entry'[y.run][l] = "open"
      BY <1>4, <1>10, <2>4, <3>1, <3>2, <3>3 DEF Out
    <3>4. CASE entry'[y.run][l] = "rejected"
      BY <1>4, <1>10, <2>4, <3>1, <3>2, <3>4 DEF Out
    <3>5. QED
      BY <1>10, <3>3, <3>4
  <2>5. QED
    BY <2>3, <2>4
<1>14. StateFits(z)'
  BY <1>2, <1>4, <1>6, <1>9 DEF StateFits, Out
<1>15. EndedIsDone'
  <2>1. runs[y.run] = "active"
    BY <1>2 DEF RowFits
  <2>2. QED
    BY <1>2, <1>4, <1>9, <2>1 DEF EndedIsDone, Done, Out
<1>16. Alone(z)'
  BY <1>11, <1>12, <1>13, <1>14, <1>15 DEF Alone
<1>17. QED
  BY <1>7, <1>16

\* The state is built from the entries, once there is one for each leg.
LEMMA AloneSeed ==
  ASSUME NEW t, Tasks = {t}, EntryInv, Alone(task[t]), SeedState(t), UNCHANGED torn
  PROVE  Alone(task[t])'
<1>1. PICK y : y = task[t]
  OBVIOUS
<1>2. /\ y \in Local /\ TypeOK /\ RowFits(y) /\ y.pc = "enter" /\ y.todo = {} /\ y.run \in Runs
      /\ LocalOK(y) /\ ListFits(y) /\ HeldFits(y) /\ StateFits(y) /\ EndedIsDone
  BY <1>1, AloneParts DEF SeedState, At
<1>3. UNCHANGED <<row, runs, entry, exited, held, failed>>
  BY DEF SeedState
<1>4. state' = [state EXCEPT ![y.run] = entry[y.run]] /\ task'[t] = Idle
  BY <1>1, <1>2 DEF SeedState, Become, TypeOK
<1>5. Idle.pc = "idle"
  BY DEF Idle
<1>6. \A l \in Legs : entry[y.run][l] \in {"open", "rejected"}
  BY <1>2 DEF LocalOK, TypeOK
<1>7. entry[y.run] # NONE
  <2>1. entry[y.run] \in [Legs -> LegStatus]
    BY <1>2, <1>6 DEF TypeOK, LegStatus
  <2>2. QED
    BY <2>1, StateAssumption
<1>8. /\ \A q, l : Out(q, l)' <=> Out(q, l)
      /\ \A q, l : Done(q, l)' <=> Done(q, l)
  BY <1>3 DEF Out, Done
<1>9. StateFits(Idle)'
  <2>1. SUFFICES ASSUME NEW q \in Runs, runs[q] = "active"
                 PROVE  state'[q] # NONE /\ \A l \in Legs : state'[q][l] = "open" <=> Out(q, l)
    BY <1>3, <1>5, <1>8 DEF StateFits
  <2>2. CASE q = y.run
    <3>1. state'[q] = entry[y.run]
      BY <1>2, <1>4, <2>2 DEF TypeOK
    <3>2. exited[y.run] = {}
      BY <1>2 DEF ListFits
    <3>3. QED
      BY <1>7, <2>2, <3>1, <3>2 DEF Out
  <2>3. CASE q # y.run
    BY <1>2, <1>4, <2>1, <2>3 DEF StateFits, TypeOK
  <2>4. QED
    BY <2>2, <2>3
<1>10. RowFits(Idle)' /\ ListFits(Idle)' /\ LegsDone(Idle)'
  BY <1>2, <1>3, <1>5 DEF RowFits, ListFits, LegsDone
<1>11. HeldFits(Idle)' /\ EndedIsDone'
  BY <1>2, <1>3, <1>5, <1>8 DEF HeldFits, EndedIsDone, InFlight
<1>12. Alone(Idle)'
  BY <1>9, <1>10, <1>11 DEF Alone
<1>13. QED
  BY <1>4, <1>12

\* Every entry was refused, or the legs are done with: the run ends.
LEMMA AloneEnd ==
  ASSUME NEW t, Tasks = {t}, EntryInv, Alone(task[t]),
         AbandonRun(t) \/ Finalize(t), UNCHANGED torn
  PROVE  Alone(task[t])'
<1>1. PICK y : y = task[t]
  OBVIOUS
<1>2. /\ y \in Local /\ TypeOK /\ RowFits(y) /\ y.pc \in {"enter", "finalize"} /\ y.run \in Runs
      /\ LegsDone(y) /\ HeldFits(y) /\ StateFits(y) /\ EndedIsDone
  BY <1>1, AloneParts DEF AbandonRun, Finalize, At
<1>3. UNCHANGED <<entry, exited, state, held, failed>>
  BY DEF AbandonRun, Finalize
<1>4. row = Running(y.run) /\ y.seen = row
  BY <1>2 DEF RowFits
<1>5. runs' = [runs EXCEPT ![y.run] = "stopped"] /\ row' = Stopped
  BY <1>1, <1>4 DEF AbandonRun, Finalize, FinalizeRun, Running, Stopped
<1>6. PICK z : /\ task'[t] = z /\ z.pc \in {"idle", "clear"}
               /\ z.pc = "clear" => z.run = y.run
  <2>1. CASE AbandonRun(t)
    <3>1. task'[t] = Idle /\ Idle.pc = "idle"
      BY <1>2, <2>1 DEF AbandonRun, Become, TypeOK, Idle
    <3>2. QED
      BY <3>1
  <2>2. CASE Finalize(t)
    BY <1>1, <1>2, <2>2 DEF Finalize, Goto, TypeOK, Local
  <2>3. QED
    BY <2>1, <2>2
<1>7. /\ \A q, l : Out(q, l)' <=> Out(q, l)
      /\ \A q, l : Done(q, l)' <=> Done(q, l)
  BY <1>3 DEF Out, Done
<1>8. \A l \in Legs : Done(y.run, l)
  <2>1. CASE AbandonRun(t)
    BY <1>1, <2>1 DEF AbandonRun, Done, Out
  <2>2. CASE Finalize(t)
    BY <1>1, <1>2, <2>2 DEF Finalize, At, LegsDone
  <2>3. QED
    BY <2>1, <2>2
<1>9. runs'[y.run] = "stopped" /\ \A q \in Runs : q # y.run => runs'[q] = runs[q]
  BY <1>2, <1>5 DEF TypeOK
<1>10. \A q \in Runs : runs'[q] # "active"
  <2>1. \A q : row = Running(q) => q = y.run
    BY <1>4 DEF Running
  <2>2. QED
    BY <1>2, <1>9, <2>1 DEF RowFits
<1>11. RowFits(z)'
  BY <1>5, <1>6, <1>9, <1>10 DEF RowFits, Running, Stopped
<1>12. ListFits(z)' /\ LegsDone(z)' /\ StateFits(z)'
  BY <1>6, <1>10 DEF ListFits, LegsDone, StateFits
<1>13. HeldFits(z)'
  BY <1>2, <1>3, <1>6, <1>7 DEF HeldFits, InFlight
<1>14. EndedIsDone'
  BY <1>2, <1>3, <1>7, <1>8, <1>9 DEF EndedIsDone
<1>15. Alone(z)'
  BY <1>11, <1>12, <1>13, <1>14 DEF Alone
<1>16. QED
  BY <1>6, <1>15

\* The state of an ended run is dropped.
LEMMA AloneClear ==
  ASSUME NEW t, Tasks = {t}, EntryInv, Alone(task[t]), ClearState(t), UNCHANGED torn
  PROVE  Alone(task[t])'
<1>1. PICK y : y = task[t]
  OBVIOUS
<1>2. /\ y \in Local /\ TypeOK /\ RowFits(y) /\ y.pc = "clear" /\ y.run \in Runs
      /\ HeldFits(y) /\ StateFits(y) /\ EndedIsDone
  BY <1>1, AloneParts DEF ClearState, At
<1>3. /\ UNCHANGED <<row, runs, entry, exited, held, failed>> /\ task'[t] = Idle
      /\ state' = [state EXCEPT ![y.run] = NONE]
  BY <1>1, <1>2 DEF ClearState, Become, TypeOK
<1>4. Idle.pc = "idle" /\ runs[y.run] = "stopped"
  BY <1>2 DEF Idle, RowFits
<1>5. /\ \A q, l : Out(q, l)' <=> Out(q, l)
      /\ \A q, l : Done(q, l)' <=> Done(q, l)
  BY <1>3 DEF Out, Done
<1>6. \A q \in Runs : q # y.run => state'[q] = state[q]
  BY <1>2, <1>3 DEF TypeOK
<1>7. RowFits(Idle)' /\ ListFits(Idle)' /\ LegsDone(Idle)'
  BY <1>2, <1>3, <1>4 DEF RowFits, ListFits, LegsDone
<1>8. HeldFits(Idle)' /\ EndedIsDone'
  BY <1>2, <1>3, <1>4, <1>5 DEF HeldFits, EndedIsDone, InFlight
<1>9. StateFits(Idle)'
  BY <1>2, <1>3, <1>4, <1>5, <1>6 DEF StateFits
<1>10. Alone(Idle)'
  BY <1>7, <1>8, <1>9 DEF Alone
<1>11. QED
  BY <1>3, <1>10

\* An exit is sent: the broker takes it, and the leg is in flight, or rejects it.
LEMMA AloneSend ==
  ASSUME NEW t, Tasks = {t}, EntryInv, Alone(task[t]), SendExit(t), UNCHANGED torn
  PROVE  Alone(task[t])'
<1>1. PICK y : y = task[t]
  OBVIOUS
<1>2. /\ y \in Local /\ TypeOK /\ RowFits(y) /\ ListFits(y) /\ y.pc = "exit" /\ y.run \in Runs
      /\ LegsDone(y) /\ HeldFits(y) /\ StateFits(y) /\ EndedIsDone
  BY <1>1, AloneParts DEF SendExit, At
<1>3. PICK l \in Firsts(y.todo) :
        /\ l \notin y.skip
        /\ \/ /\ held' = [held EXCEPT ![y.run][l] = @ - 1] /\ failed' = failed
              /\ task' = [task EXCEPT ![t].pc = "record", ![t].ok = TRUE]
           \/ /\ failed' = [failed EXCEPT ![y.run] = @ \cup {l}] /\ held' = held
              /\ task' = [task EXCEPT ![t].pc = "record", ![t].ok = FALSE]
  BY <1>1 DEF SendExit
<1>4. UNCHANGED <<row, runs, entry, exited, state>>
  BY DEF SendExit
<1>4a. PICK z : z = task'[t]
  OBVIOUS
<1>5. /\ z.pc = "record" /\ z.run = y.run /\ z.seen = y.seen /\ z.todo = y.todo
      /\ z.skip = y.skip /\ z.whole = y.whole
      /\ \/ z.ok = TRUE /\ held' = [held EXCEPT ![y.run][l] = @ - 1] /\ failed' = failed
         \/ z.ok = FALSE /\ held' = held /\ failed' = [failed EXCEPT ![y.run] = @ \cup {l}]
  <2>1. CASE held' = [held EXCEPT ![y.run][l] = @ - 1] /\ failed' = failed
             /\ task' = [task EXCEPT ![t].pc = "record", ![t].ok = TRUE]
    <3>1. z = [y EXCEPT !.pc = "record", !.ok = TRUE]
      BY <1>1, <1>2, <1>4a, <2>1 DEF TypeOK
    <3>2. QED
      BY <1>2, <2>1, <3>1 DEF Local
  <2>2. CASE failed' = [failed EXCEPT ![y.run] = @ \cup {l}] /\ held' = held
             /\ task' = [task EXCEPT ![t].pc = "record", ![t].ok = FALSE]
    <3>1. z = [y EXCEPT !.pc = "record", !.ok = FALSE]
      BY <1>1, <1>2, <1>4a, <2>2 DEF TypeOK
    <3>2. QED
      BY <1>2, <2>2, <3>1 DEF Local
  <2>3. QED
    BY <1>3, <2>1, <2>2
<1>6. l \in y.todo /\ y.todo \subseteq Legs /\ l \in Legs /\ \A k \in Firsts(y.todo) : k = l
  BY <1>2, <1>3, FirstsOne DEF Local, Firsts
<1>7. Out(y.run, l) /\ runs[y.run] = "active"
  BY <1>2, <1>3, <1>6 DEF ListFits, Skipped, Out, RowFits
<1>8. \A q, k : Out(q, k)' <=> Out(q, k)
  BY <1>4 DEF Out
<1>9. /\ \A q \in Runs : failed[q] \subseteq failed'[q]
      /\ ~z.ok => l \in failed'[y.run]
  <2>1. CASE failed' = failed /\ z.ok = TRUE
    BY <2>1
  <2>2. CASE failed' = [failed EXCEPT ![y.run] = @ \cup {l}]
    BY <1>2, <2>2 DEF TypeOK
  <2>3. QED
    BY <1>5, <2>1, <2>2
<1>10. \A q \in Runs : \A k : Done(q, k) => Done(q, k)'
  BY <1>8, <1>9 DEF Done
<1>11. RowFits(z)'
  BY <1>2, <1>4, <1>5 DEF RowFits
<1>12. ListFits(z)'
  BY <1>2, <1>4, <1>5, <1>6, <1>9 DEF ListFits, Skipped
<1>13. LegsDone(z)'
  BY <1>2, <1>5, <1>10 DEF LegsDone
<1>14. HeldFits(z)'
  <2>1. SUFFICES ASSUME NEW q \in Runs, NEW k \in Legs \ torn[q]
                 PROVE  held'[q][k] = IF Out(q, k) /\ ~InFlight(z, q, k) THEN 1 ELSE 0
    BY <1>8 DEF HeldFits, InFlight
  <2>2. held[q][k] = IF Out(q, k) THEN 1 ELSE 0
    BY <1>2 DEF HeldFits, InFlight
  <2>3. CASE q = y.run /\ k = l /\ z.ok = TRUE
    <3>1. InFlight(z, q, k)
      BY <1>3, <1>5, <2>3 DEF InFlight
    <3>2. held'[q][k] = held[q][k] - 1
      BY <1>2, <1>5, <1>6, <2>3 DEF TypeOK
    <3>3. held[q][k] = 1
      BY <1>7, <2>2, <2>3
    <3>4. QED
      BY <3>1, <3>2, <3>3
  <2>4. CASE ~(q = y.run /\ k = l /\ z.ok = TRUE)
    <3>1. ~InFlight(z, q, k)
      BY <1>5, <1>6, <2>4 DEF InFlight
    <3>2. held'[q][k] = held[q][k]
      BY <1>2, <1>5, <1>6, <2>4 DEF TypeOK
    <3>3. QED
      BY <2>2, <3>1, <3>2
  <2>5. QED
    BY <2>3, <2>4
<1>15. StateFits(z)'
  BY <1>2, <1>4, <1>5, <1>8 DEF StateFits
<1>16. EndedIsDone'
  BY <1>2, <1>4, <1>10 DEF EndedIsDone
<1>17. Alone(z)'
  BY <1>11, <1>12, <1>13, <1>14, <1>15, <1>16 DEF Alone
<1>18. QED
  BY <1>4a, <1>17

\* The exit gets its row: what was in flight is on record.
LEMMA AloneRecord ==
  ASSUME NEW t, Tasks = {t}, EntryInv, Alone(task[t]), RecordExit(t), UNCHANGED torn
  PROVE  Alone(task[t])'
<1>1. PICK y : y = task[t]
  OBVIOUS
<1>2. /\ y \in Local /\ TypeOK /\ RowFits(y) /\ ListFits(y) /\ y.pc = "record" /\ y.run \in Runs
      /\ LocalOK(y) /\ LegsDone(y) /\ HeldFits(y) /\ StateFits(y) /\ EndedIsDone
  BY <1>1, AloneParts DEF RecordExit, At
<1>3. PICK l \in Firsts(y.todo) :
        exited' = IF y.ok THEN [exited EXCEPT ![y.run] = @ \cup {l}] ELSE exited
  BY <1>1 DEF RecordExit
<1>4. UNCHANGED <<row, runs, entry, state, held, failed>>
  BY DEF RecordExit
<1>5. PICK z : z = [y EXCEPT !.pc = "mark"]
  OBVIOUS
<1>6. /\ task'[t] = z /\ z.pc = "mark" /\ z.run = y.run /\ z.seen = y.seen /\ z.todo = y.todo
      /\ z.skip = y.skip /\ z.whole = y.whole /\ z.ok = y.ok
  BY <1>1, <1>2, <1>5 DEF RecordExit, Goto, TypeOK, Local
<1>7. l \in y.todo /\ l \in Legs /\ y.todo \subseteq Legs /\ \A k \in Firsts(y.todo) : k = l
  BY <1>2, <1>3, FirstsOne DEF Local, Firsts
<1>8. Out(y.run, l) /\ runs[y.run] = "active" /\ l \notin y.skip
  BY <1>2, <1>3, <1>7 DEF ListFits, Skipped, Out, RowFits, LocalOK
<1>9. /\ \A q \in Runs : q # y.run => exited'[q] = exited[q]
      /\ \A k : k # l => (k \in exited'[y.run] <=> k \in exited[y.run])
      /\ l \in exited'[y.run] <=> y.ok
  <2>1. CASE y.ok
    BY <1>2, <1>3, <2>1 DEF TypeOK
  <2>2. CASE ~y.ok
    BY <1>3, <1>8, <2>2 DEF Out
  <2>3. QED
    BY <2>1, <2>2
<1>10. /\ \A q \in Runs : \A k : q # y.run \/ k # l => (Out(q, k)' <=> Out(q, k))
       /\ Out(y.run, l)' <=> ~y.ok
       /\ \A q \in Runs : \A k : Done(q, k) => Done(q, k)'
  <2>1. \A q \in Runs : \A k : q # y.run \/ k # l => (Out(q, k)' <=> Out(q, k))
    BY <1>4, <1>9 DEF Out
  <2>2. Out(y.run, l)' <=> ~y.ok
    BY <1>4, <1>8, <1>9 DEF Out
  <2>3. \A q \in Runs : \A k : Done(q, k) => Done(q, k)'
    BY <1>4, <1>8, <2>1 DEF Done
  <2>4. QED
    BY <2>1, <2>2, <2>3
<1>11. RowFits(z)'
  BY <1>2, <1>4, <1>6 DEF RowFits
<1>12. ListFits(z)'
  <2>1. Firsts(z.todo) \subseteq {l} /\ l \in Firsts(z.todo)
    BY <1>3, <1>6, <1>7
  <2>2. \A k \in z.todo : k # l => (k \in z.skip <=> k \in Skipped(z.run)')
    BY <1>2, <1>4, <1>6, <1>9 DEF ListFits, Skipped
  <2>3. entry'[z.run][l] = "open" /\ (l \in exited'[z.run] <=> z.ok)
    BY <1>4, <1>6, <1>8, <1>9 DEF Out
  <2>4. ~z.ok => Firsts(z.todo) \subseteq failed'[z.run]
    BY <1>2, <1>4, <1>6 DEF ListFits
  <2>5. QED
    BY <1>6, <2>1, <2>2, <2>3, <2>4 DEF ListFits
<1>13. LegsDone(z)'
  BY <1>2, <1>6, <1>10 DEF LegsDone
<1>14. HeldFits(z)'
  <2>1. SUFFICES ASSUME NEW q \in Runs, NEW k \in Legs \ torn[q]
                 PROVE  held[q][k] = IF Out(q, k)' THEN 1 ELSE 0
    BY <1>4, <1>6 DEF HeldFits, InFlight
  <2>2. held[q][k] = IF Out(q, k) /\ ~InFlight(y, q, k) THEN 1 ELSE 0
    BY <1>2 DEF HeldFits
  <2>3. Out(q, k)' <=> Out(q, k) /\ ~InFlight(y, q, k)
    <3>1. CASE q = y.run /\ k = l
      BY <1>2, <1>3, <1>8, <1>10, <3>1 DEF InFlight
    <3>2. CASE q # y.run \/ k # l
      BY <1>7, <1>10, <3>2 DEF InFlight
    <3>3. QED
      BY <3>1, <3>2
  <2>4. QED
    BY <2>2, <2>3
<1>15. StateFits(z)'
  <2>1. SUFFICES ASSUME NEW q \in Runs, runs[q] = "active"
                 PROVE  /\ state[q] # NONE
                        /\ \A k \in Legs : ~(q = y.run /\ k = l) => (state[q][k] = "open" <=> Out(q, k)')
    BY <1>3, <1>4, <1>6 DEF StateFits
  <2>2. state[q] # NONE /\ \A k \in Legs : state[q][k] = "open" <=> Out(q, k)
    BY <1>2, <2>1 DEF StateFits
  <2>3. QED
    BY <1>10, <2>2
<1>16. EndedIsDone'
  BY <1>2, <1>4, <1>10 DEF EndedIsDone
<1>17. Alone(z)'
  BY <1>11, <1>12, <1>13, <1>14, <1>15, <1>16 DEF Alone
<1>18. QED
  BY <1>6, <1>17

\* The leg is marked in the run state as the broker answered.
LEMMA AloneMark ==
  ASSUME NEW t, Tasks = {t}, EntryInv, Alone(task[t]), MarkLeg(t), UNCHANGED torn
  PROVE  Alone(task[t])'
<1>1. PICK y : y = task[t]
  OBVIOUS
<1>2. /\ y \in Local /\ TypeOK /\ RowFits(y) /\ ListFits(y) /\ y.pc = "mark" /\ y.run \in Runs
      /\ LegsDone(y) /\ HeldFits(y) /\ StateFits(y) /\ EndedIsDone
  BY <1>1, AloneParts DEF MarkLeg, At
<1>3. PICK l \in Firsts(y.todo) :
        /\ state' = IF state[y.run] = NONE THEN state
                    ELSE [state EXCEPT ![y.run][l] = LegStatusAfter(y.ok)]
        /\ task' = [task EXCEPT ![t].pc = "exit", ![t].todo = @ \ {l}]
  BY <1>1 DEF MarkLeg
<1>4. UNCHANGED <<row, runs, entry, exited, held, failed>>
  BY DEF MarkLeg
<1>5. PICK z : z = task'[t]
  OBVIOUS
<1>6. /\ z.pc = "exit" /\ z.run = y.run /\ z.seen = y.seen /\ z.todo = y.todo \ {l}
      /\ z.skip = y.skip /\ z.whole = y.whole
  <2>1. z = [y EXCEPT !.pc = "exit", !.todo = @ \ {l}]
    BY <1>1, <1>2, <1>3, <1>5 DEF TypeOK
  <2>2. QED
    BY <1>2, <2>1 DEF Local
<1>7. l \in y.todo /\ l \in Legs /\ y.todo \subseteq Legs /\ \A k \in Firsts(y.todo) : k = l
  BY <1>2, <1>3, FirstsOne DEF Local, Firsts
<1>8. /\ runs[y.run] = "active"
      /\ Out(y.run, l) <=> ~y.ok
      /\ Done(y.run, l)
  BY <1>2, <1>3, <1>7 DEF ListFits, Out, RowFits, Done
<1>9. \A q, k : (Out(q, k)' <=> Out(q, k)) /\ (Done(q, k)' <=> Done(q, k))
  BY <1>4 DEF Out, Done
<1>10. RowFits(z)'
  BY <1>2, <1>4, <1>6 DEF RowFits
<1>11. ListFits(z)'
  BY <1>2, <1>4, <1>6, <1>7 DEF ListFits, Skipped
<1>12. LegsDone(z)'
  BY <1>2, <1>6, <1>8, <1>9 DEF LegsDone
<1>13. HeldFits(z)'
  BY <1>2, <1>4, <1>6, <1>9 DEF HeldFits, InFlight
<1>14. StateFits(z)'
  <2>1. SUFFICES ASSUME NEW q \in Runs, runs[q] = "active"
                 PROVE  state'[q] # NONE /\ \A k \in Legs : state'[q][k] = "open" <=> Out(q, k)
    BY <1>4, <1>6, <1>9 DEF StateFits
  <2>2. state[q] # NONE /\ \A k \in Legs : ~(q = y.run /\ k = l) => (state[q][k] = "open" <=> Out(q, k))
    BY <1>2, <1>7, <2>1 DEF StateFits
  <2>3. CASE q # y.run
    BY <1>2, <1>3, <2>2, <2>3 DEF TypeOK
  <2>4. CASE q = y.run
    <3>1. state[q] \in [Legs -> LegStatus]
      BY <1>2, <2>2 DEF TypeOK
    <3>2. state'[q] = [state[q] EXCEPT ![l] = LegStatusAfter(y.ok)]
      BY <1>2, <1>3, <2>2, <2>4 DEF TypeOK
    <3>3. state'[q] \in [Legs -> LegStatus]
      BY <3>1, <3>2 DEF LegStatusAfter, LegStatus
    <3>4. state'[q] # NONE
      BY <3>3, StateAssumption
    <3>5. \A k \in Legs : state'[q][k] = "open" <=> Out(q, k)
      BY <1>7, <1>8, <2>2, <2>4, <3>1, <3>2 DEF LegStatusAfter
    <3>6. QED
      BY <3>4, <3>5
  <2>5. QED
    BY <2>3, <2>4
<1>15. EndedIsDone'
  BY <1>2, <1>4, <1>9 DEF EndedIsDone
<1>16. Alone(z)'
  BY <1>10, <1>11, <1>12, <1>13, <1>14, <1>15 DEF Alone
<1>17. QED
  BY <1>5, <1>16

\* A crash: the task is gone, what it had in flight is torn, and recovery rebuilds
\* the state of the active run from its rows, or ends the run.
LEMMA AloneRestart ==
  ASSUME NEW t, Tasks = {t}, EntryInv, Alone(task[t]), Restart
  PROVE  Alone(task[t])'
<1>1. PICK y : y = task[t]
  OBVIOUS
<1>2. /\ y \in Local /\ TypeOK /\ RowFits(y) /\ HeldFits(y) /\ EndedIsDone
  BY <1>1, AloneParts
<1>3. PICK sent \in Unrecorded, bad \in SUBSET {r \in Runs : runs[r] = "active"} :
        /\ held' = [r \in Runs |-> [l \in Legs |-> held[r][l] + IF <<r, l>> \in sent THEN 1 ELSE 0]]
        /\ torn' = [r \in Runs |-> IF r \in bad THEN Legs
                      ELSE torn[r] \cup Sent(r) \cup {l \in Legs : <<r, l>> \in sent}]
        /\ runs' = [r \in Runs |-> IF r \in bad THEN "stopped" ELSE runs[r]]
        /\ row' = IF bad = {} THEN row ELSE Stopped
        /\ state' = [r \in Runs |-> IF runs[r] = "active" /\ r \notin bad
                                    THEN [l \in Legs |-> Recovered(r, l)] ELSE state[r]]
  BY DEF Restart
<1>4. UNCHANGED <<entry, exited, failed>> /\ task'[t] = Idle /\ Idle.pc = "idle"
  BY DEF Restart, Idle
<1>5. /\ \A q, l : Out(q, l)' <=> Out(q, l)
      /\ \A q, l : Done(q, l)' <=> Done(q, l)
  BY <1>4 DEF Out, Done
<1>6. RowFits(Idle)'
  <2>1. \A r, q \in Runs : runs[r] = "active" /\ runs[q] = "active" => r = q
    BY <1>2 DEF RowFits, Running
  <2>2. CASE bad = {}
    BY <1>2, <1>3, <1>4, <2>2 DEF RowFits
  <2>3. CASE bad # {}
    <3>1. \A r \in Runs : runs'[r] # "active"
      BY <1>3, <2>1, <2>3
    <3>2. \A r : row' # Running(r)
      BY <1>3, <2>3 DEF Running, Stopped
    <3>3. QED
      BY <1>4, <3>1, <3>2 DEF RowFits
  <2>4. QED
    BY <2>2, <2>3
<1>7. ListFits(Idle)' /\ LegsDone(Idle)'
  BY <1>4 DEF ListFits, LegsDone
<1>8. HeldFits(Idle)'
  <2>1. SUFFICES ASSUME NEW r \in Runs, NEW l \in Legs \ torn'[r]
                 PROVE  held'[r][l] = IF Out(r, l) THEN 1 ELSE 0
    BY <1>4, <1>5 DEF HeldFits, InFlight
  <2>2. r \notin bad
    BY <1>3, <2>1
  <2>3. l \notin torn[r] /\ l \notin Sent(r) /\ <<r, l>> \notin sent
    BY <1>3, <2>1, <2>2
  <2>4. ~InFlight(y, r, l)
    BY <1>1, <2>3 DEF InFlight, Sent, At
  <2>5. held[r][l] = IF Out(r, l) THEN 1 ELSE 0
    BY <1>2, <2>1, <2>3, <2>4 DEF HeldFits
  <2>6. held'[r][l] = held[r][l]
    BY <1>2, <1>3, <2>1, <2>3 DEF TypeOK
  <2>7. QED
    BY <2>5, <2>6
<1>9. StateFits(Idle)'
  <2>1. SUFFICES ASSUME NEW r \in Runs, runs'[r] = "active"
                 PROVE  state'[r] # NONE /\ \A l \in Legs : state'[r][l] = "open" <=> Out(r, l)
    BY <1>4, <1>5 DEF StateFits
  <2>2. state'[r] = [l \in Legs |-> Recovered(r, l)]
    BY <1>3, <2>1
  <2>3. state'[r] \in [Legs -> LegStatus]
    BY <2>2 DEF Recovered, LegStatus
  <2>4. state'[r] # NONE
    BY <2>3, StateAssumption
  <2>5. \A l \in Legs : Recovered(r, l) = "open" <=> Out(r, l)
    BY DEF Recovered, Out
  <2>6. QED
    BY <2>2, <2>4, <2>5
<1>10. EndedIsDone'
  <2>1. SUFFICES ASSUME NEW r \in Runs, runs'[r] = "stopped", NEW l \in Legs \ torn'[r] PROVE Done(r, l)
    BY <1>5 DEF EndedIsDone
  <2>2. r \notin bad
    BY <1>3, <2>1
  <2>3. runs[r] = "stopped" /\ l \notin torn[r]
    BY <1>3, <2>1, <2>2
  <2>4. QED
    BY <1>2, <2>1, <2>3 DEF EndedIsDone
<1>11. Alone(Idle)'
  BY <1>6, <1>7, <1>8, <1>9, <1>10 DEF Alone
<1>12. QED
  BY <1>4, <1>11

LEMMA AloneNext ==
  ASSUME NEW t, Tasks = {t}, EntryInv, Alone(task[t]), [Next]_vars
  PROVE  Alone(task[t])'
<1>1. CASE Run
  <2>1. (Step(t) \/ Request(t)) /\ UNCHANGED torn
    BY <1>1 DEF Run
  <2>2. QED
    BY <2>1, AloneRequest, AloneList, AloneOpen, AloneEnter, AloneSeed, AloneEnd, AloneClear,
       AloneSend, AloneRecord, AloneMark DEF Step
<1>2. CASE Restart
  BY <1>2, AloneRestart
<1>3. CASE UNCHANGED vars
  <2>1. PICK y : y = task[t]
    OBVIOUS
  <2>2. UNCHANGED <<row, runs, entry, exited, state, held, failed, torn, task>>
    BY <1>3 DEF vars
  <2>3. Alone(y)'
    <3>1. \A r, l : (Out(r, l)' <=> Out(r, l)) /\ (Done(r, l)' <=> Done(r, l))
      BY <2>2 DEF Out, Done
    <3>2. RowFits(y)' /\ ListFits(y)' /\ LegsDone(y)'
      BY <2>1, <2>2, <3>1 DEF Alone, RowFits, ListFits, LegsDone, Skipped
    <3>3. HeldFits(y)' /\ StateFits(y)' /\ EndedIsDone'
      BY <2>1, <2>2, <3>1 DEF Alone, HeldFits, StateFits, EndedIsDone, InFlight
    <3>4. QED
      BY <3>2, <3>3 DEF Alone
  <2>4. QED
    BY <2>1, <2>2, <2>3
<1>4. QED
  BY <1>1, <1>2, <1>3 DEF Next

LEMMA AloneInit ==
  ASSUME NEW t, Tasks = {t}, Init
  PROVE  Alone(task[t])
<1>1. task[t] = Idle /\ Idle.pc = "idle" /\ Idle.whole = FALSE
  BY DEF Init, Idle
<1>2. \A r \in Runs : row # Running(r)
  BY DEF Init, Running, Stopped
<1>3. \A r, l : r \in Runs /\ l \in Legs => ~Out(r, l)
  BY DEF Init, Out
<1>4. QED
  BY <1>1, <1>2, <1>3 DEF Init, Alone, RowFits, ListFits, LegsDone, HeldFits, InFlight, StateFits,
     EndedIsDone

LEMMA AloneInvariant ==
  ASSUME NEW t, Tasks = {t}
  PROVE  Spec => [](EntryInv /\ Alone(task[t]))
<1>1. Init => Alone(task[t])
  BY AloneInit
<1>2. EntryInv /\ Alone(task[t]) /\ [Next]_vars => Alone(task[t])'
  BY AloneNext
<1>3. QED
  BY <1>1, <1>2, EntriesInductive, PTL DEF Spec

\* A strategy has at most one active run, and it is the one the row names, so stop_run
\* and close_leg reach it: when requests and ticks are handled one after the other,
\* through any number of crashes.
THEOREM OneActiveRun ==
  ASSUME NEW t, Tasks = {t}
  PROVE  Spec => []ActiveRunIsCurrent
<1>1. Alone(task[t]) => ActiveRunIsCurrent
  BY DEF Alone, RowFits, ActiveRunIsCurrent
<1>2. QED
  BY <1>1, AloneInvariant, PTL

\* _exit_legs sends no second exit for an entry, so no leg is turned round: when
\* requests and ticks are handled one after the other, but for the legs of which a
\* crash lost track.
THEOREM ExitsAreNotRepeated ==
  ASSUME NEW t, Tasks = {t}
  PROVE  Spec => []NoLegExitedTwice
<1>1. EntryInv /\ Alone(task[t]) => NoLegExitedTwice
  BY DEF Alone, HeldFits, NoLegExitedTwice
<1>2. QED
  BY <1>1, AloneInvariant, PTL

\* stop_run and _finalize_run_if_all_flat leave no position behind, but where the
\* broker rejected the exit or a crash lost track, one request or tick at a time.
THEOREM StopsLeaveNothing ==
  ASSUME NEW t, Tasks = {t}
  PROVE  Spec => []StoppedRunHoldsNothing
<1>1. EntryInv /\ Alone(task[t]) => StoppedRunHoldsNothing
  <2>1. SUFFICES ASSUME Alone(task[t]), NEW r \in Runs, runs[r] = "stopped",
                        NEW l \in Legs \ (failed[r] \cup torn[r])
                 PROVE  held[r][l] <= 0
    BY DEF StoppedRunHoldsNothing
  <2>2. ~Out(r, l)
    BY <2>1 DEF Alone, EndedIsDone, Done
  <2>3. held[r][l] = 0
    BY <2>1, <2>2 DEF Alone, HeldFits
  <2>4. QED
    BY <2>3
<1>2. QED
  BY <1>1, AloneInvariant, PTL

\* What the broker holds for an active run is shown open in its state, so its rules
\* are evaluated, whether start_run built the state or recovery did.
THEOREM HeldLegsAreWatched ==
  ASSUME NEW t, Tasks = {t}
  PROVE  Spec => []HeldLegIsWatched
<1>1. EntryInv /\ Alone(task[t]) => HeldLegIsWatched
  <2>1. SUFFICES ASSUME EntryInv, Alone(task[t]), NEW r \in Runs, NEW l \in Legs \ torn[r],
                        runs[r] = "active", held[r][l] > 0, task[t].run # r
                 PROVE  state[r] # NONE /\ state[r][l] = "open"
    BY DEF HeldLegIsWatched
  <2>2. Out(r, l)
    BY <2>1 DEF Alone, HeldFits
  <2>3. QED
    BY <2>1, <2>2 DEF Alone, StateFits
<1>2. QED
  BY <1>1, AloneInvariant, PTL

=============================================================================
