--------------------------- MODULE SignalDeskProofs ---------------------------
(***************************************************************************)
(* Proof that a signal-mode leg is exited only after its entry on that     *)
(* side was accepted, for any number of tasks, legs and runs, overlapping, *)
(* crashing and recovering.  What a task knows of a leg is a copy that may *)
(* be old when it acts on it, and recovery works from a checkpoint that is *)
(* older still; the argument is that every copy shows a position only      *)
(* where an entry was accepted, and that acceptance is never taken back.   *)
(*                                                                         *)
(* Requests that do not overlap keep more.  While one task at a time is    *)
(* under way, what it has loaded of the strategy is what the row says, so  *)
(* that a locked webhook has no active run, even across crashes (TurnInv). *)
(* Until the first crash, its copy of the run state is the run state, and  *)
(* each leg the run state shows is what the venue holds, but for the one   *)
(* order in hand and the legs still to be squared (DeskInv).               *)
(* Hence a leg that was never exited was entered once, and the side that   *)
(* the recovery after that crash takes from a checkpoint is the side of    *)
(* its only entry (OnceInv).                                               *)
(***************************************************************************)
EXTENDS SignalDesk, SumProofs

\* Where a task is says which of its locals are set.
OrderPCs == {"load", "gate", "look", "act", "record", "reconcile", "book", "store", "fail"}
RunPCs == {"look", "act", "record", "reconcile", "book", "store", "fail", "list", "next", "clear"}

Placed(x) ==
  /\ x.pc \notin {"idle", "load"} => x.seen \in RowType
  /\ x.pc \in OrderPCs => x.leg \in Legs /\ x.act \in Signals /\ x.mode \in {"sandbox", "live"}
  /\ x.pc \in RunPCs => x.run \in Runs
  /\ x.by # "signal" /\ x.pc \in (RunPCs \cup {"gate"}) \ {"clear"} =>
       x.run \in Runs /\ x.seen.run \in Runs
  /\ x.by = "kill" /\ x.pc = "square" => x.seen.run \in Runs
  /\ x.pc = "load" => x.by = "signal"

TypeInv == TypeOK /\ \A t \in Tasks : Placed(task[t])

\* An entry of the run was accepted for the leg on this side.
EnteredIn(os, r, l, side) ==
  \E j \in DOMAIN os : /\ os[j].entry /\ os[j].at # "refused"
                       /\ os[j].run = r /\ os[j].leg = l /\ os[j].side = side

\* A run state, or a copy of one, shows positions only where that is so.
Grounded(s, os, r) == \A l \in Legs : s.side[l] # "flat" => EnteredIn(os, r, l, s.side[l])

\* A task that will write its copy back, or that has an order in hand.
CopyPCs == {"act", "record", "reconcile", "book", "store"}
SentPCs == {"record", "reconcile", "book", "store"}

Ready(x, os) ==
  /\ x.pc \in CopyPCs => Grounded(x.copy, os, x.run)
  /\ x.pc \in SentPCs =>
       /\ x.nr \in DOMAIN os
       /\ os[x.nr].run = x.run /\ os[x.nr].leg = x.leg
       /\ os[x.nr].side = SideOf(x.act) /\ os[x.nr].entry = (x.act \in Entries)

StatesGrounded == \A r \in Runs : state[r] # NONE => Grounded(state[r], orders, r)
SavedGrounded == \A r \in Runs : saved[r] # NONE => Grounded(saved[r], orders, r)
TasksReady == \A t \in Tasks : Ready(task[t], orders)

EntryInv == TypeInv /\ StatesGrounded /\ SavedGrounded /\ TasksReady /\ ExitsFollowEntries

-----------------------------------------------------------------------------
(* Types *)

LEMMA IdleLocal == Idle \in TaskType /\ Placed(Idle)
  BY RunsAssumption DEF Idle, TaskType, Placed, OrderPCs, RunPCs, PCs, StateType, FlatLegs, Sides

\* Writing the locals of one task.
LEMMA WriteTask ==
  ASSUME TypeInv, NEW t \in Tasks, NEW x \in TaskType, Placed(x), Become(t, x)
  PROVE  task' \in [Tasks -> TaskType] /\ \A u \in Tasks : Placed(task'[u])
<1>1. task' \in [Tasks -> TaskType] /\ task'[t] = x /\ \A u \in Tasks : u # t => task'[u] = task[u]
  BY DEF TypeInv, TypeOK, Become
<1>2. QED
  BY <1>1 DEF TypeInv

\* What a typed task is made of.
LEMMA TaskParts ==
  ASSUME TypeInv, NEW t \in Tasks
  PROVE  /\ task[t] \in TaskType /\ Placed(task[t])
  BY DEF TypeInv, TypeOK

\* A step that writes one task and leaves the orders alone.
LEMMA TypedStep ==
  ASSUME TypeInv, NEW t \in Tasks, NEW x \in TaskType, Placed(x), Become(t, x),
         row' \in RowType, holder' \in Tasks \cup {NONE},
         runs' \in [Runs -> [status : {"unborn", "active", "stopped"}, mode : {"sandbox", "live"}]],
         state' \in [Runs -> StateType \cup {NONE}],
         orders' \in Seq(OrderType), due' \in BOOLEAN,
         UNCHANGED <<saved, phase, up, crashes>>
  PROVE  TypeInv'
<1>1. task' \in [Tasks -> TaskType] /\ \A u \in Tasks : Placed(task'[u])
  BY WriteTask
<1>2. TypeOK'
  BY <1>1 DEF TypeInv, TypeOK
<1>3. QED
  BY <1>1, <1>2 DEF TypeInv, Placed

\* The answer of a webhook, or the next leg of a square.
LEMMA FinishTyped ==
  ASSUME TypeInv, NEW t \in Tasks, task[t].pc \in {"gate", "act", "store", "fail"}, Finish(t)
  PROVE  /\ holder' \in Tasks \cup {NONE}
         /\ \E x \in TaskType : Placed(x) /\ Become(t, x) /\ x.pc \in {"idle", "next"}
<1>1. task[t] \in TaskType /\ Placed(task[t])
  BY TaskParts
<1>2. holder' \in Tasks \cup {NONE}
  BY DEF Finish, Unlocked, TypeInv, TypeOK
<1>3. CASE task[t].by = "signal"
  BY <1>2, <1>3, IdleLocal DEF Finish, Idle
<1>4. CASE task[t].by # "signal"
  <2>. DEFINE x == [task[t] EXCEPT !.pc = "next"]
  <2>1. x \in TaskType /\ x.pc = "next"
    BY <1>1 DEF TaskType, PCs
  <2>2. Placed(x)
    BY <1>1, <1>4 DEF Placed, TaskType, RunPCs, OrderPCs
  <2>3. QED
    BY <1>2, <1>4, <2>1, <2>2 DEF Finish, Goto
<1>5. QED
  BY <1>3, <1>4

\* The requests.
LEMMA RequestTyped ==
  ASSUME TypeInv, NEW t \in Tasks, Request(t)
  PROVE  TypeInv'
<1>1. ASSUME NEW l \in Legs, NEW a \in Signals, NEW m \in Modes, Receive(t, l, a, m) PROVE TypeInv'
  <2>. DEFINE x == [Idle EXCEPT !.pc = "load", !.leg = l, !.act = a, !.mode = m]
  <2>1. x \in TaskType /\ Placed(x)
    BY <1>1, RunsAssumption, InputsAssumption
    DEF Idle, TaskType, Placed, OrderPCs, RunPCs, PCs, StateType, FlatLegs, Sides
  <2>2. QED
    BY <1>1, <2>1, TypedStep DEF Receive, desk, clock, TypeInv, TypeOK
<1>2. ASSUME NEW what \in {"square", "kill"}, Call(t, what) PROVE TypeInv'
  <2>. DEFINE x == [Idle EXCEPT !.pc = what, !.by = what, !.seen = row]
  <2>1. x \in TaskType
    BY RunsAssumption DEF Idle, TaskType, PCs, StateType, FlatLegs, Sides, TypeInv, TypeOK
  <2>2. Placed(x)
    BY DEF Idle, Placed, OrderPCs, RunPCs, TypeInv, TypeOK
  <2>3. QED
    BY <1>2, <2>1, <2>2, TypedStep DEF Call, desk, clock, TypeInv, TypeOK
<1>3. QED
  BY <1>1, <1>2 DEF Request

\* The steps of a signal, up to its order.
LEMMA SignalTyped ==
  ASSUME TypeInv, NEW t \in Tasks,
         Load(t) \/ Refuse(t) \/ UseRun(t) \/ OpenRun(t) \/ Look(t) \/ AlreadyThere(t)
         \/ Decline(t) \/ Dispatch(t)
  PROVE  TypeInv'
<1>. DEFINE y == task[t]
<1>0. y \in TaskType /\ Placed(y)
  BY TaskParts
<1>00. /\ row \in RowType /\ holder \in Tasks \cup {NONE} /\ state \in [Runs -> StateType \cup {NONE}]
       /\ runs \in [Runs -> [status : {"unborn", "active", "stopped"}, mode : {"sandbox", "live"}]]
       /\ orders \in Seq(OrderType) /\ due \in BOOLEAN
  BY DEF TypeInv, TypeOK
<1>1. CASE Load(t)
  <2>. DEFINE x == [y EXCEPT !.pc = "gate", !.seen = row]
  <2>1. x \in TaskType
    BY <1>0, <1>00 DEF TaskType, PCs
  <2>2. x.pc = "gate" /\ x.seen = row /\ x.by = y.by
        /\ x.leg = y.leg /\ x.act = y.act /\ x.mode = y.mode
    BY <1>0 DEF TaskType
  <2>3. y.pc = "load" /\ y.by = "signal"
    BY <1>0, <1>1 DEF Load, At, Placed
  <2>4. Placed(x)
    BY <1>0, <1>00, <2>2, <2>3 DEF Placed, OrderPCs, RunPCs
  <2>5. QED
    BY <1>1, <1>00, <2>1, <2>4, TypedStep DEF Load, desk, clock
<1>2. CASE Refuse(t)
  <2>1. PICK x \in TaskType : Placed(x) /\ Become(t, x)
    BY <1>2, FinishTyped DEF Refuse, At
  <2>2. holder' \in Tasks \cup {NONE}
    BY <1>2, FinishTyped DEF Refuse, At
  <2>3. QED
    BY <1>2, <1>00, <2>1, <2>2, TypedStep DEF Refuse, clock
<1>3. CASE UseRun(t)
  <2>. DEFINE x == [y EXCEPT !.pc = "look", !.run = y.seen.run]
  <2>1. y.seen \in RowType /\ y.seen.run \in Runs
    BY <1>0, <1>3 DEF UseRun, At, Placed, Active, OrderPCs, RunPCs
  <2>2. x \in TaskType
    BY <1>0, <2>1 DEF TaskType, PCs
  <2>3. x.pc = "look" /\ x.run = y.seen.run /\ x.seen = y.seen /\ x.by = y.by
        /\ x.leg = y.leg /\ x.act = y.act /\ x.mode = y.mode
    BY <1>0 DEF TaskType
  <2>4. y.leg \in Legs /\ y.act \in Signals /\ y.mode \in {"sandbox", "live"}
    BY <1>0, <1>3 DEF Placed, OrderPCs, UseRun, At
  <2>5. Placed(x)
    BY <2>1, <2>3, <2>4 DEF Placed
  <2>6. QED
    BY <1>3, <1>00, <2>2, <2>5, TypedStep DEF UseRun, clock
<1>4. CASE OpenRun(t)
  <2>1. PICK r \in Runs :
          /\ runs' = [runs EXCEPT ![r] = [status |-> "active", mode |-> y.mode]]
          /\ row' = [row EXCEPT !.run = r]
          /\ Become(t, [y EXCEPT !.pc = "look", !.run = r, !.seen = row'])
    BY <1>4 DEF OpenRun
  <2>. DEFINE x == [y EXCEPT !.pc = "look", !.run = r, !.seen = row']
  <2>2. row' \in RowType /\ row'.run = r
    BY <1>00, <2>1 DEF RowType
  <2>3. y.mode \in {"sandbox", "live"}
    BY <1>0, <1>4 DEF OpenRun, At, Placed, OrderPCs
  <2>4. x \in TaskType
    BY <1>0, <2>2 DEF TaskType, PCs
  <2>5. Placed(x)
    BY <1>0, <1>4, <2>2 DEF Placed, TaskType, OrderPCs, RunPCs, OpenRun, At
  <2>6. runs' \in [Runs -> [status : {"unborn", "active", "stopped"}, mode : {"sandbox", "live"}]]
    BY <1>00, <2>1, <2>3
  <2>7. holder' \in Tasks \cup {NONE}
    BY <1>4, <1>00 DEF OpenRun, Unlocked
  <2>8. QED
    BY <1>4, <1>00, <2>1, <2>2, <2>4, <2>5, <2>6, <2>7, TypedStep DEF OpenRun, clock
<1>5. CASE Look(t)
  <2>. DEFINE c == IF state[y.run] = NONE THEN FlatLegs ELSE state[y.run]
              x == [y EXCEPT !.pc = "act", !.copy = c]
  <2>1. y.run \in Runs
    BY <1>0, <1>5 DEF Placed, Look, At, RunPCs
  <2>2. c \in StateType
    BY <1>00, <2>1 DEF StateType, FlatLegs, Sides
  <2>3. x \in TaskType
    BY <1>0, <2>2 DEF TaskType, PCs
  <2>4. Placed(x)
    BY <1>0, <1>5 DEF Placed, TaskType, OrderPCs, RunPCs, Look, At
  <2>5. QED
    BY <1>5, <1>00, <2>3, <2>4, TypedStep DEF Look, desk, clock
<1>6. CASE AlreadyThere(t) \/ Decline(t)
  <2>1. PICK x \in TaskType : Placed(x) /\ Become(t, x)
    BY <1>6, FinishTyped DEF AlreadyThere, Decline, At
  <2>2. holder' \in Tasks \cup {NONE}
    BY <1>6, FinishTyped DEF AlreadyThere, Decline, At
  <2>3. y.copy \in StateType
    BY <1>0 DEF TaskType
  <2>4. state' \in [Runs -> StateType \cup {NONE}]
    BY <1>6, <1>00, <2>3 DEF AlreadyThere, Decline
  <2>5. QED
    BY <1>6, <1>00, <2>1, <2>2, <2>4, TypedStep DEF AlreadyThere, Decline, clock
<1>7. CASE Dispatch(t)
  <2>1. PICK answer \in Answers :
          orders' = Append(orders,
                      [run |-> y.run, leg |-> y.leg, side |-> SideOf(y.act),
                       entry |-> Entering(t), mode |-> y.mode, at |-> answer, row |-> "none"])
    BY <1>7 DEF Dispatch
  <2>2. y.run \in Runs /\ y.leg \in Legs /\ y.mode \in {"sandbox", "live"}
    BY <1>0, <1>7 DEF Placed, Dispatch, At, OrderPCs, RunPCs
  <2>3. SideOf(y.act) \in {"long", "short"} /\ Entering(t) \in BOOLEAN
    BY DEF SideOf, Entering
  <2>4. [run |-> y.run, leg |-> y.leg, side |-> SideOf(y.act), entry |-> Entering(t),
         mode |-> y.mode, at |-> answer, row |-> "none"] \in OrderType
    BY <2>2, <2>3, InputsAssumption DEF OrderType, AllAnswers
  <2>5. orders' \in Seq(OrderType)
    BY <1>00, <2>1, <2>4
  <2>. DEFINE x == [y EXCEPT !.pc = "record", !.nr = Len(orders) + 1]
  <2>6. Len(orders) + 1 \in Nat
    BY <1>00
  <2>60. x \in TaskType
    BY <1>0, <2>6 DEF TaskType, PCs
  <2>7. Placed(x)
    BY <1>0, <1>7 DEF Placed, TaskType, OrderPCs, RunPCs, Dispatch, At
  <2>8. QED
    BY <1>7, <1>00, <2>5, <2>60, <2>7, TypedStep DEF Dispatch, desk, clock
<1>8. QED
  BY <1>1, <1>2, <1>3, <1>4, <1>5, <1>6, <1>7

\* The order in hand is one that was sent.
LEMMA OrderInHand ==
  ASSUME EntryInv, NEW t \in Tasks, task[t].pc \in SentPCs
  PROVE  /\ task[t].nr \in DOMAIN orders /\ Sent(t) \in OrderType
         /\ \A f \in {"none", "open", "complete", "rejected", "cancelled"} :
              [orders EXCEPT ![task[t].nr].row = f] \in Seq(OrderType)
<1>1. task[t].nr \in DOMAIN orders /\ orders \in Seq(OrderType)
  BY DEF EntryInv, TasksReady, Ready, TypeInv, TypeOK
<1>2. Sent(t) \in OrderType
  BY <1>1 DEF Sent
<1>3. ASSUME NEW f \in {"none", "open", "complete", "rejected", "cancelled"}
      PROVE  [orders EXCEPT ![task[t].nr].row = f] \in Seq(OrderType)
  <2>1. [Sent(t) EXCEPT !.row = f] \in OrderType
    BY <1>2 DEF OrderType
  <2>2. [orders EXCEPT ![task[t].nr] = [Sent(t) EXCEPT !.row = f]] \in Seq(OrderType)
    BY <1>1, <2>1
  <2>3. QED
    BY <2>2 DEF Sent
<1>4. QED
  BY <1>1, <1>2, <1>3

\* The steps of a signal, after its order.
LEMMA AnswerTyped ==
  ASSUME EntryInv, NEW t \in Tasks,
         Record(t) \/ Reconcile(t) \/ Book(t) \/ Store(t) \/ ExitFailed(t)
  PROVE  TypeInv'
<1>. DEFINE y == task[t]
<1>0. TypeInv /\ y \in TaskType /\ Placed(y)
  BY TaskParts DEF EntryInv
<1>00. /\ row \in RowType /\ holder \in Tasks \cup {NONE} /\ state \in [Runs -> StateType \cup {NONE}]
       /\ runs \in [Runs -> [status : {"unborn", "active", "stopped"}, mode : {"sandbox", "live"}]]
       /\ orders \in Seq(OrderType) /\ due \in BOOLEAN
  BY <1>0 DEF TypeInv, TypeOK
<1>01. ASSUME NEW pc \in {"reconcile", "store", "fail", "book"}, y.pc \in {"record", "reconcile", "book"}
       PROVE  [y EXCEPT !.pc = pc] \in TaskType /\ Placed([y EXCEPT !.pc = pc])
  <2>. DEFINE x == [y EXCEPT !.pc = pc]
  <2>1. x \in TaskType
    BY <1>0 DEF TaskType, PCs
  <2>2. x.pc = pc /\ x.run = y.run /\ x.seen = y.seen /\ x.by = y.by
        /\ x.leg = y.leg /\ x.act = y.act /\ x.mode = y.mode
    BY <1>0 DEF TaskType
  <2>3. Placed(x)
    BY <1>0, <1>01, <2>2 DEF Placed, OrderPCs, RunPCs
  <2>4. QED
    BY <2>1, <2>3
<1>1. CASE Record(t)
  <2>1. PICK pc \in {"reconcile", "store", "fail"} : Goto(t, pc)
    BY <1>1 DEF Record
  <2>2. y.pc = "record"
    BY <1>1 DEF Record, At
  <2>3. orders' \in Seq(OrderType)
    BY <1>1, <2>2, OrderInHand DEF Record, SentPCs
  <2>4. holder' \in Tasks \cup {NONE}
    BY <1>1, <1>00 DEF Record, Unlocked
  <2>5. QED
    BY <1>0, <1>00, <1>01, <1>1, <2>1, <2>2, <2>3, <2>4, TypedStep DEF Record, clock, Goto
<1>2. CASE Reconcile(t)
  <2>1. PICK pc \in {"book", "store"} : Goto(t, pc)
    BY <1>2 DEF Reconcile
  <2>2. y.pc = "reconcile"
    BY <1>2 DEF Reconcile, At
  <2>3. Truth(Sent(t)) \in {"none", "open", "complete", "rejected", "cancelled"}
    BY DEF Truth
  <2>30. [orders EXCEPT ![y.nr].row = Truth(Sent(t))] \in Seq(OrderType)
    BY <2>2, <2>3, OrderInHand DEF SentPCs
  <2>4. orders' \in Seq(OrderType)
    BY <1>00, <1>2, <2>30 DEF Reconcile
  <2>5. QED
    BY <1>0, <1>00, <1>01, <1>2, <2>1, <2>2, <2>4, TypedStep DEF Reconcile, desk, clock, Goto
<1>3. CASE Book(t)
  <2>1. y.pc = "book" /\ y.run \in Runs /\ y.leg \in Legs
    BY <1>0, <1>3 DEF Book, At, Placed, OrderPCs, RunPCs
  <2>2. state' \in [Runs -> StateType \cup {NONE}]
    <3>1. CASE state[y.run] = NONE
      BY <1>00, <1>3, <3>1 DEF Book
    <3>2. CASE state[y.run] # NONE
      <4>. DEFINE s == [side |-> [state[y.run].side EXCEPT ![y.leg] = "flat"],
                        booked |-> state[y.run].booked + 1]
      <4>1. state[y.run] \in StateType
        BY <1>00, <2>1, <3>2
      <4>2. /\ [state[y.run].side EXCEPT ![y.leg] = "flat"] \in [Legs -> Sides]
            /\ state[y.run].booked + 1 \in Nat
        <5>1. state[y.run].side \in [Legs -> Sides] /\ state[y.run].booked \in Nat
          BY <4>1 DEF StateType
        <5>2. [state[y.run].side EXCEPT ![y.leg] = "flat"] \in [Legs -> Sides]
          <6>1. \A f \in [Legs -> Sides] : [f EXCEPT ![y.leg] = "flat"] \in [Legs -> Sides]
            BY DEF Sides
          <6>2. QED
            BY <5>1, <6>1
        <5>3. state[y.run].booked + 1 \in Nat
          BY <5>1
        <5>4. QED
          BY <5>2, <5>3
      <4>20. s \in StateType
        BY <4>2 DEF StateType
      <4>3. state' = [state EXCEPT ![y.run] = s]
        BY <1>00, <1>3, <2>1, <3>2 DEF Book
      <4>4. QED
        BY <1>00, <4>20, <4>3
    <3>3. QED
      BY <3>1, <3>2
  <2>3. Goto(t, "store")
    BY <1>3 DEF Book
  <2>4. QED
    BY <1>0, <1>00, <1>01, <1>3, <2>1, <2>2, <2>3, TypedStep DEF Book, clock, Goto
<1>4. CASE Store(t) \/ ExitFailed(t)
  <2>1. y.pc \in {"store", "fail"} /\ y.run \in Runs /\ y.leg \in Legs
    BY <1>0, <1>4 DEF Store, ExitFailed, At, Placed, OrderPCs, RunPCs
  <2>2. PICK x \in TaskType : Placed(x) /\ Become(t, x)
    BY <1>0, <1>4, <2>1, FinishTyped DEF Store, ExitFailed
  <2>3. holder' \in Tasks \cup {NONE}
    BY <1>0, <1>4, <2>1, FinishTyped DEF Store, ExitFailed
  <2>4. ASSUME Store(t) PROVE state' \in [Runs -> StateType \cup {NONE}]
    <3>1. PICK side \in Sides : state' = [state EXCEPT ![y.run] = [y.copy EXCEPT !.side[y.leg] = side]]
      BY <2>4 DEF Store, Sides, SideOf
    <3>2. [y.copy EXCEPT !.side[y.leg] = side] \in StateType
      <4>1. y.copy \in StateType
        BY <1>0 DEF TaskType
      <4>2. [y.copy.side EXCEPT ![y.leg] = side] \in [Legs -> Sides]
        BY <4>1, <2>1 DEF StateType
      <4>3. QED
        BY <4>1, <4>2 DEF StateType
    <3>3. QED
      BY <1>00, <3>1, <3>2
  <2>5. state' \in [Runs -> StateType \cup {NONE}]
    BY <1>00, <1>4, <2>4 DEF ExitFailed
  <2>6. QED
    BY <1>0, <1>00, <1>4, <2>2, <2>3, <2>5, TypedStep DEF Store, ExitFailed, clock
<1>5. QED
  BY <1>1, <1>2, <1>3, <1>4

\* A sequence is a function from an initial segment of the numbers.
LEMMA SeqDef ==
  ASSUME NEW S, NEW n \in Nat, NEW f \in [1..n -> S]
  PROVE  f \in Seq(S)
  OBVIOUS

\* The steps of a square and of the kill switch.
LEMMA SquareTyped ==
  ASSUME TypeInv, NEW t \in Tasks,
         BeginSquare(t) \/ ListOpen(t) \/ SquareLeg(t) \/ FinalizeRun(t) \/ ClearState(t)
         \/ CancelPending(t) \/ LockWebhook(t)
  PROVE  TypeInv'
<1>. DEFINE y == task[t]
<1>0. y \in TaskType /\ Placed(y)
  BY TaskParts
<1>00. /\ row \in RowType /\ holder \in Tasks \cup {NONE} /\ state \in [Runs -> StateType \cup {NONE}]
       /\ runs \in [Runs -> [status : {"unborn", "active", "stopped"}, mode : {"sandbox", "live"}]]
       /\ orders \in Seq(OrderType) /\ due \in BOOLEAN
  BY DEF TypeInv, TypeOK
<1>01. Unlocked(t) \in Tasks \cup {NONE}
  BY <1>00 DEF Unlocked
<1>02. ASSUME y.pc \in {"square", "clear"}, Squared(t)
       PROVE  /\ holder' \in Tasks \cup {NONE}
              /\ \E x \in TaskType : Placed(x) /\ Become(t, x)
  <2>. DEFINE x == [y EXCEPT !.pc = "lock"]
  <2>1. x \in TaskType
    BY <1>0 DEF TaskType, PCs
  <2>2. x.pc = "lock" /\ x.seen = y.seen
    BY <1>0 DEF TaskType
  <2>3. Placed(x)
    BY <1>0, <1>02, <2>2 DEF Placed, OrderPCs, RunPCs
  <2>4. QED
    BY <1>00, <1>01, <1>02, <2>1, <2>3, IdleLocal DEF Squared, Goto
<1>1. CASE BeginSquare(t)
  <2>1. CASE Active(y.seen.run) \/ y.by = "kill"
    <3>. DEFINE x == [y EXCEPT !.pc = "list", !.run = y.seen.run]
    <3>1. y.pc = "square" /\ y.seen \in RowType /\ y.seen.run \in Runs
      BY <1>0, <1>1, <2>1 DEF BeginSquare, At, Placed, Active, OrderPCs, RunPCs
    <3>2. x \in TaskType
      BY <1>0, <3>1 DEF TaskType, PCs
    <3>3. x.pc = "list" /\ x.seen = y.seen /\ x.run = y.seen.run
      BY <1>0 DEF TaskType
    <3>4. Placed(x)
      BY <1>0, <3>1, <3>3 DEF Placed, OrderPCs, RunPCs
    <3>5. QED
      BY <1>00, <1>1, <2>1, <3>2, <3>4, TypedStep DEF BeginSquare, clock
  <2>2. CASE ~(Active(y.seen.run) \/ y.by = "kill")
    <3>1. holder' \in Tasks \cup {NONE} /\ \E x \in TaskType : Placed(x) /\ Become(t, x)
      BY <1>1, <1>02, <2>2 DEF BeginSquare, At
    <3>2. QED
      BY <1>00, <1>1, <3>1, TypedStep DEF BeginSquare, clock
  <2>3. QED
    BY <2>1, <2>2
<1>2. CASE ListOpen(t)
  <2>. DEFINE s == state[y.run]
              c == IF s = NONE THEN FlatLegs ELSE s
              o == IF s = NONE THEN {} ELSE {l \in Legs : s.side[l] # "flat"}
              x == [y EXCEPT !.pc = "next", !.copy = c, !.todo = o]
  <2>1. y.pc = "list" /\ y.run \in Runs
    BY <1>0, <1>2 DEF Placed, ListOpen, At, RunPCs
  <2>2. c \in StateType /\ o \in SUBSET Legs
    BY <1>00, <2>1 DEF StateType, FlatLegs, Sides
  <2>3. x \in TaskType
    BY <1>0, <2>2 DEF TaskType, PCs
  <2>4. x.pc = "next" /\ x.seen = y.seen /\ x.run = y.run /\ x.by = y.by
    BY <1>0 DEF TaskType
  <2>5. Placed(x)
    BY <1>0, <2>1, <2>4 DEF Placed, OrderPCs, RunPCs
  <2>6. QED
    BY <1>2, <1>00, <2>3, <2>5, TypedStep DEF ListOpen, desk, clock
<1>3. CASE SquareLeg(t)
  <2>1. PICK l \in y.todo :
          Become(t, [y EXCEPT !.pc = "gate", !.leg = l, !.todo = @ \ {l},
                       !.act = ExitOf(y.copy.side[l]), !.mode = runs[y.run].mode])
    BY <1>3 DEF SquareLeg
  <2>. DEFINE x == [y EXCEPT !.pc = "gate", !.leg = l, !.todo = @ \ {l},
                      !.act = ExitOf(y.copy.side[l]), !.mode = runs[y.run].mode]
  <2>2. y.pc = "next" /\ y.run \in Runs /\ y.todo \subseteq Legs
    BY <1>0, <1>3 DEF SquareLeg, At, Placed, RunPCs, TaskType
  <2>3. runs[y.run].mode \in {"sandbox", "live"} /\ ExitOf(y.copy.side[l]) \in Signals
    BY <1>00, <2>2 DEF ExitOf, Signals
  <2>4. x \in TaskType
    BY <1>0, <2>2, <2>3 DEF TaskType, PCs
  <2>5. /\ x.pc = "gate" /\ x.leg = l /\ x.act = ExitOf(y.copy.side[l])
        /\ x.mode = runs[y.run].mode /\ x.run = y.run /\ x.seen = y.seen /\ x.by = y.by
    BY <1>0 DEF TaskType
  <2>6. Placed(x)
    BY <1>0, <2>2, <2>3, <2>5 DEF Placed, OrderPCs, RunPCs
  <2>7. QED
    BY <1>00, <1>3, <2>1, <2>4, <2>6, TypedStep DEF SquareLeg, clock
<1>4. CASE FinalizeRun(t)
  <2>. DEFINE x == [y EXCEPT !.pc = "clear", !.seen = row']
  <2>1. y.pc = "next" /\ y.run \in Runs
    BY <1>0, <1>4 DEF FinalizeRun, At, Placed, RunPCs
  <2>2. row' \in RowType
    BY <1>00, <1>4 DEF FinalizeRun, RowType
  <2>3. runs' \in [Runs -> [status : {"unborn", "active", "stopped"}, mode : {"sandbox", "live"}]]
    <3>1. [runs[y.run] EXCEPT !.status = "stopped"]
            \in [status : {"unborn", "active", "stopped"}, mode : {"sandbox", "live"}]
      BY <1>00, <2>1
    <3>2. QED
      BY <1>00, <1>4, <3>1 DEF FinalizeRun
  <2>4. x \in TaskType
    BY <1>0, <2>2 DEF TaskType, PCs
  <2>5. x.pc = "clear" /\ x.seen = row' /\ x.run = y.run
    BY <1>0 DEF TaskType
  <2>6. Placed(x)
    BY <2>1, <2>2, <2>5 DEF Placed, OrderPCs, RunPCs
  <2>7. QED
    BY <1>00, <1>01, <1>4, <2>2, <2>3, <2>4, <2>6, TypedStep DEF FinalizeRun, clock
<1>5. CASE ClearState(t)
  <2>1. holder' \in Tasks \cup {NONE} /\ \E x \in TaskType : Placed(x) /\ Become(t, x)
    BY <1>5, <1>02 DEF ClearState, At
  <2>2. state' \in [Runs -> StateType \cup {NONE}]
    BY <1>00, <1>5 DEF ClearState
  <2>3. QED
    BY <1>00, <1>5, <2>1, <2>2, TypedStep DEF ClearState, clock
<1>6. CASE CancelPending(t)
  <2>1. PICK gone \in SUBSET (DOMAIN orders) :
          orders' = [i \in DOMAIN orders |->
                       IF i \in gone THEN [orders[i] EXCEPT !.at = "cancelled", !.row = "cancelled"]
                       ELSE orders[i]]
    BY <1>6 DEF CancelPending, Pending
  <2>2. holder' \in Tasks \cup {NONE}
    BY <1>01, <1>6 DEF CancelPending
  <2>3. orders' \in Seq(OrderType)
    <3>1. \A i \in DOMAIN orders : orders[i] \in OrderType
      BY <1>00
    <3>2. \A o \in OrderType : [o EXCEPT !.at = "cancelled", !.row = "cancelled"] \in OrderType
      BY DEF OrderType
    <3>3. DOMAIN orders = 1..Len(orders) /\ Len(orders) \in Nat
      BY <1>00
    <3>4. \A i \in DOMAIN orders : orders'[i] \in OrderType
      BY <2>1, <3>1, <3>2
    <3>5. orders' \in [1..Len(orders) -> OrderType]
      BY <2>1, <3>3, <3>4
    <3>6. QED
      BY <3>3, <3>5, SeqDef
  <2>4. PICK pc \in {"square", "lock"} : Goto(t, pc) /\ (pc = "square" => Active(y.seen.run))
    BY <1>6 DEF CancelPending
  <2>. DEFINE x == [y EXCEPT !.pc = pc]
  <2>5. x \in TaskType
    BY <1>0 DEF TaskType, PCs
  <2>6. x.pc = pc /\ x.seen = y.seen /\ y.pc = "kill"
    BY <1>0, <1>6 DEF TaskType, CancelPending, At
  <2>7. Placed(x)
    BY <1>0, <2>4, <2>6 DEF Placed, OrderPCs, RunPCs, Active
  <2>8. QED
    BY <1>00, <1>6, <2>2, <2>3, <2>4, <2>5, <2>7, TypedStep DEF CancelPending, clock, Goto
<1>7. CASE LockWebhook(t)
  <2>1. y.seen \in RowType
    BY <1>0, <1>7 DEF LockWebhook, At, Placed
  <2>2. row' \in RowType
    BY <1>00, <1>7 DEF LockWebhook, RowType
  <2>3. QED
    BY <1>00, <1>01, <1>7, <2>2, IdleLocal, TypedStep DEF LockWebhook, clock
<1>8. QED
  BY <1>1, <1>2, <1>3, <1>4, <1>5, <1>6, <1>7

\* Operator, scheduler, checkpoint, crash, recovery, venue and clock.
LEMMA WorldTyped ==
  ASSUME TypeInv,
         FireAutoStop \/ Unlock \/ (\E d \in Directions : EditDirection(d))
         \/ (\E r \in Runs : Checkpoint(r)) \/ Crash \/ Recover
         \/ (\E i \in DOMAIN orders : Fill(i)) \/ NextPhase
  PROVE  TypeInv'
<1>00. /\ row \in RowType /\ holder \in Tasks \cup {NONE}
       /\ state \in [Runs -> StateType \cup {NONE}] /\ saved \in [Runs -> StateType \cup {NONE}]
       /\ runs \in [Runs -> [status : {"unborn", "active", "stopped"}, mode : {"sandbox", "live"}]]
       /\ orders \in Seq(OrderType) /\ due \in BOOLEAN /\ up \in BOOLEAN
       /\ task \in [Tasks -> TaskType] /\ crashes \in Nat /\ phase \in {"before", "active", "after"}
  BY DEF TypeInv, TypeOK
<1>01. ASSUME UNCHANGED task, TypeOK' PROVE TypeInv'
  BY <1>01 DEF TypeInv, Placed
<1>02. /\ \A i \in DOMAIN orders : orders[i] \in OrderType
       /\ DOMAIN orders = 1..Len(orders) /\ Len(orders) \in Nat
  BY <1>00
<1>1. CASE FireAutoStop
  <2>1. CASE row.run = NONE
    <3>1. TypeOK'
      BY <1>00, <1>1, <2>1 DEF FireAutoStop, TypeOK, TypeInv, desk
    <3>2. QED
      BY <1>1, <1>01, <2>1, <3>1 DEF FireAutoStop
  <2>2. CASE row.run # NONE
    <3>. DEFINE x == [Idle EXCEPT !.pc = "square", !.by = "square", !.seen = row]
    <3>1. x \in TaskType
      BY <1>00, RunsAssumption DEF Idle, TaskType, PCs, StateType, FlatLegs, Sides
    <3>2. Placed(x)
      BY <1>00 DEF Idle, Placed, OrderPCs, RunPCs
    <3>3. QED
      BY <1>00, <1>1, <2>2, <3>1, <3>2, TasksAssumption, TypedStep DEF FireAutoStop, desk
  <2>3. QED
    BY <2>1, <2>2
<1>2. CASE Unlock
  <2>1. row' \in RowType
    BY <1>00, <1>2 DEF Unlock, RowType
  <2>2. QED
    BY <1>00, <1>01, <1>2, <2>1 DEF Unlock, TypeOK, TypeInv, clock
<1>3. ASSUME NEW d \in Directions, EditDirection(d) PROVE TypeInv'
  <2>1. row' \in RowType
    BY <1>00, <1>3, InputsAssumption DEF EditDirection, RowType
  <2>2. QED
    BY <1>00, <1>01, <1>3, <2>1 DEF EditDirection, TypeOK, TypeInv, clock
<1>4. ASSUME NEW r \in Runs, Checkpoint(r) PROVE TypeInv'
  <2>1. saved' \in [Runs -> StateType \cup {NONE}]
    BY <1>00, <1>4 DEF Checkpoint
  <2>2. QED
    BY <1>00, <1>01, <1>4, <2>1 DEF Checkpoint, TypeOK, TypeInv, clock
<1>5. CASE Crash
  <2>1. task' \in [Tasks -> TaskType] /\ \A u \in Tasks : Placed(task'[u])
    BY <1>5, IdleLocal DEF Crash
  <2>2. crashes' \in Nat /\ due' \in BOOLEAN /\ up' \in BOOLEAN /\ holder' \in Tasks \cup {NONE}
    <3>1. crashes' = crashes + 1 /\ due' = FALSE /\ up' = FALSE /\ holder' = NONE
      BY <1>5 DEF Crash
    <3>2. crashes + 1 \in Nat
      BY <1>00
    <3>3. QED
      BY <3>1, <3>2
  <2>3. UNCHANGED <<row, runs, state, saved, orders, phase>>
    BY <1>5 DEF Crash
  <2>4. TypeOK'
    BY <1>00, <2>1, <2>2, <2>3 DEF TypeOK
  <2>5. QED
    BY <2>1, <2>4 DEF TypeInv, Placed
<1>6. CASE Recover
  <2>1. \A o \in OrderType : Reconciled(o) \in OrderType
    BY DEF Reconciled, Truth, OrderType
  <2>2. orders' \in Seq(OrderType)
    <3>1. orders' = [i \in 1..Len(orders) |-> Reconciled(orders[i])]
      BY <1>6, <1>02 DEF Recover
    <3>2. orders' \in [1..Len(orders) -> OrderType]
      BY <1>02, <2>1, <3>1
    <3>3. QED
      BY <1>02, <3>2, SeqDef
  <2>3. PICK failed \in SUBSET {r \in Runs : Active(r)},
             side \in [Runs -> [Legs -> {"flat", "long", "short"}]] :
          /\ state' = [r \in Runs |->
                         IF r \in {q \in Runs : Active(q)} \ failed
                         THEN [side |-> side[r], booked |-> IF saved[r] = NONE THEN 0 ELSE saved[r].booked]
                         ELSE state[r]]
          /\ runs' = [r \in Runs |-> IF r \in failed THEN [runs[r] EXCEPT !.status = "stopped"]
                                     ELSE runs[r]]
          /\ row' = IF failed = {} THEN row ELSE [row EXCEPT !.run = NONE]
    BY <1>6 DEF Recover
  <2>4. row' \in RowType
    BY <1>00, <2>3 DEF RowType
  <2>5. runs' \in [Runs -> [status : {"unborn", "active", "stopped"}, mode : {"sandbox", "live"}]]
    <3>1. \A x \in [status : {"unborn", "active", "stopped"}, mode : {"sandbox", "live"}] :
            [x EXCEPT !.status = "stopped"]
              \in [status : {"unborn", "active", "stopped"}, mode : {"sandbox", "live"}]
      OBVIOUS
    <3>2. QED
      BY <1>00, <2>3, <3>1
  <2>6. state' \in [Runs -> StateType \cup {NONE}]
    <3>1. ASSUME NEW r \in Runs
          PROVE  [side |-> side[r], booked |-> IF saved[r] = NONE THEN 0 ELSE saved[r].booked] \in StateType
      <4>1. (IF saved[r] = NONE THEN 0 ELSE saved[r].booked) \in Nat
        BY <1>00 DEF StateType
      <4>2. QED
        BY <4>1 DEF StateType, Sides
    <3>2. QED
      BY <1>00, <2>3, <3>1
  <2>7. QED
    BY <1>00, <1>01, <1>6, <2>2, <2>4, <2>5, <2>6 DEF Recover, TypeOK, TypeInv
<1>7. ASSUME NEW i \in DOMAIN orders, Fill(i) PROVE TypeInv'
  <2>1. [orders[i] EXCEPT !.at = "filled"] \in OrderType
    BY <1>02 DEF OrderType, AllAnswers
  <2>2. [orders EXCEPT ![i] = [orders[i] EXCEPT !.at = "filled"]] \in Seq(OrderType)
    BY <1>00, <2>1
  <2>3. orders' \in Seq(OrderType)
    BY <1>7, <2>2 DEF Fill
  <2>4. QED
    BY <1>00, <1>01, <1>7, <2>3 DEF Fill, TypeOK, TypeInv, desk, clock
<1>8. CASE NextPhase
  <2>1. phase' \in {"before", "active", "after"} /\ due' \in BOOLEAN
    BY <1>00, <1>8, InputsAssumption DEF NextPhase
  <2>2. QED
    BY <1>00, <1>01, <1>8, <2>1 DEF NextPhase, TypeOK, TypeInv, desk
<1>9. QED
  BY <1>1, <1>2, <1>3, <1>4, <1>5, <1>6, <1>7, <1>8

\* Every step keeps the types.
LEMMA TypeStep ==
  ASSUME EntryInv, [Next]_vars
  PROVE  TypeInv'
<1>0. TypeInv
  BY DEF EntryInv
<1>1. ASSUME NEW t \in Tasks, TaskStep(t) PROVE TypeInv'
  BY <1>0, <1>1, SignalTyped, AnswerTyped, SquareTyped DEF TaskStep
<1>2. ASSUME NEW t \in Tasks, Request(t) PROVE TypeInv'
  BY <1>0, <1>2, RequestTyped
<1>3. CASE UNCHANGED vars
  BY <1>0, <1>3 DEF TypeInv, TypeOK, Placed, vars
<1>4. QED
  BY <1>0, <1>1, <1>2, <1>3, WorldTyped DEF Next

-----------------------------------------------------------------------------
(* Entries and exits *)

\* The orders a step leaves behind: no order sent is taken back, and what was
\* accepted stays accepted.
Grows(os, ns) ==
  /\ DOMAIN os \subseteq DOMAIN ns
  /\ \A i \in DOMAIN os :
       /\ ns[i].run = os[i].run /\ ns[i].leg = os[i].leg
       /\ ns[i].side = os[i].side /\ ns[i].entry = os[i].entry
       /\ os[i].at # "refused" => ns[i].at # "refused"

LEMMA EnteredStays ==
  ASSUME NEW os, NEW ns, Grows(os, ns), NEW r, NEW l, NEW side, EnteredIn(os, r, l, side)
  PROVE  EnteredIn(ns, r, l, side)
  BY DEF Grows, EnteredIn

LEMMA GroundedStays ==
  ASSUME NEW os, NEW ns, Grows(os, ns), NEW r, NEW s, Grounded(s, os, r)
  PROVE  Grounded(s, ns, r)
  BY EnteredStays DEF Grounded

LEMMA ReadyStays ==
  ASSUME NEW os, NEW ns, Grows(os, ns), NEW x, Ready(x, os)
  PROVE  Ready(x, ns)
<1>1. x.pc \in CopyPCs => Grounded(x.copy, ns, x.run)
  BY GroundedStays DEF Ready
<1>2. QED
  BY <1>1 DEF Ready, Grows

\* The general step: orders that only grow, states that stay grounded, one task
\* written.
LEMMA EntryStep ==
  ASSUME EntryInv, TypeInv', Grows(orders, orders'),
         \A r \in Runs : \/ state'[r] = state[r] \/ state'[r] = NONE
                         \/ Grounded(state'[r], orders', r),
         \A r \in Runs : saved'[r] = saved[r] \/ Grounded(saved'[r], orders', r),
         \A t \in Tasks : task'[t] = task[t] \/ Ready(task'[t], orders'),
         ExitsFollowEntries'
  PROVE  EntryInv'
<1>1. StatesGrounded'
  BY GroundedStays DEF EntryInv, StatesGrounded
<1>2. SavedGrounded'
  BY GroundedStays DEF EntryInv, SavedGrounded
<1>3. TasksReady'
  BY ReadyStays DEF EntryInv, TasksReady
<1>4. QED
  BY <1>1, <1>2, <1>3 DEF EntryInv

\* Without a new order no exit is new.
LEMMA NoNewOrder ==
  ASSUME EntryInv, Grows(orders, orders'), DOMAIN orders' = DOMAIN orders
  PROVE  ExitsFollowEntries'
<1>1. SUFFICES ASSUME NEW i \in DOMAIN orders, ~orders'[i].entry
               PROVE  \E j \in 1..(i - 1) :
                        /\ orders'[j].entry /\ orders'[j].at # "refused"
                        /\ orders'[j].run = orders'[i].run /\ orders'[j].leg = orders'[i].leg
                        /\ orders'[j].side = orders'[i].side
  BY DEF ExitsFollowEntries
<1>2. PICK j \in 1..(i - 1) :
        /\ orders[j].entry /\ orders[j].at # "refused"
        /\ orders[j].run = orders[i].run /\ orders[j].leg = orders[i].leg
        /\ orders[j].side = orders[i].side
  BY <1>1 DEF EntryInv, ExitsFollowEntries, Grows
<1>3. j \in DOMAIN orders
  <2>1. DOMAIN orders = 1..Len(orders) /\ Len(orders) \in Nat
    BY DEF EntryInv, TypeInv, TypeOK
  <2>2. QED
    BY <2>1
<1>4. QED
  BY <1>2, <1>3 DEF Grows

\* Nor when the orders are left alone.
LEMMA SameOrders ==
  ASSUME EntryInv, UNCHANGED orders
  PROVE  Grows(orders, orders') /\ ExitsFollowEntries'
  BY DEF Grows, EntryInv, ExitsFollowEntries

\* Where a task that goes on is not concerned with orders.
LEMMA AwayIsReady ==
  ASSUME NEW x, x.pc \notin CopyPCs
  PROVE  Ready(x, orders')
  BY DEF Ready, CopyPCs, SentPCs

\* What a step that writes one task says of the others.
LEMMA OthersStay ==
  ASSUME TypeInv, NEW t \in Tasks, NEW x, Become(t, x)
  PROVE  task'[t] = x /\ \A u \in Tasks : u # t => task'[u] = task[u]
  BY DEF TypeInv, TypeOK, Become

\* The steps that leave the orders and the states alone; a look takes a copy of the
\* run's state.
LEMMA QuietEntry ==
  ASSUME EntryInv, TypeInv', NEW t \in Tasks,
         Request(t) \/ Load(t) \/ Refuse(t) \/ UseRun(t) \/ OpenRun(t) \/ Look(t) \/ Decline(t)
         \/ ExitFailed(t) \/ BeginSquare(t) \/ ListOpen(t) \/ SquareLeg(t) \/ FinalizeRun(t)
         \/ LockWebhook(t)
  PROVE  EntryInv'
<1>. DEFINE y == task[t]
<1>0. TypeInv /\ y \in TaskType /\ Placed(y) /\ Idle.pc = "idle" /\ y.run \in Runs \cup {NONE}
  BY TaskParts DEF EntryInv, Idle, TaskType
<1>1. UNCHANGED <<orders, state, saved>>
  BY DEF Request, Receive, Call, Load, Refuse, UseRun, OpenRun, Look, Decline, ExitFailed, BeginSquare,
         ListOpen, SquareLeg, FinalizeRun, LockWebhook, desk
<1>2. ASSUME NEW x, x.pc \notin CopyPCs, Become(t, x) PROVE EntryInv'
  BY <1>0, <1>1, <1>2, AwayIsReady, OthersStay, SameOrders, EntryStep
<1>3. ASSUME NEW pc \in PCs \ CopyPCs, Goto(t, pc) PROVE EntryInv'
  <2>1. [y EXCEPT !.pc = pc].pc = pc
    BY <1>0 DEF TaskType
  <2>2. QED
    BY <1>2, <1>3, <2>1 DEF Goto
<1>4. ASSUME Finish(t) PROVE EntryInv'
  BY <1>0, <1>2, <1>3, <1>4 DEF Finish, PCs, CopyPCs
<1>5. ASSUME Squared(t) PROVE EntryInv'
  BY <1>0, <1>2, <1>3, <1>5 DEF Squared, PCs, CopyPCs
<1>6. ASSUME Request(t) PROVE EntryInv'
  <2>1. ASSUME NEW l \in Legs, NEW a \in Signals, NEW m \in Modes, Receive(t, l, a, m) PROVE EntryInv'
    <3>1. [Idle EXCEPT !.pc = "load", !.leg = l, !.act = a, !.mode = m].pc = "load"
      BY DEF Idle
    <3>2. QED
      BY <1>2, <2>1, <3>1 DEF Receive, CopyPCs
  <2>2. ASSUME NEW what \in {"square", "kill"}, Call(t, what) PROVE EntryInv'
    <3>1. [Idle EXCEPT !.pc = what, !.by = what, !.seen = row].pc = what
      BY DEF Idle
    <3>2. QED
      BY <1>2, <2>2, <3>1 DEF Call, CopyPCs
  <2>3. QED
    BY <1>6, <2>1, <2>2 DEF Request
<1>7. CASE Load(t)
  <2>1. [y EXCEPT !.pc = "gate", !.seen = row].pc = "gate"
    BY <1>0 DEF TaskType
  <2>2. QED
    BY <1>2, <1>7, <2>1 DEF Load, CopyPCs
<1>8. CASE UseRun(t)
  <2>1. [y EXCEPT !.pc = "look", !.run = y.seen.run].pc = "look"
    BY <1>0 DEF TaskType
  <2>2. QED
    BY <1>2, <1>8, <2>1 DEF UseRun, CopyPCs
<1>9. CASE OpenRun(t)
  <2>1. PICK r \in Runs : Become(t, [y EXCEPT !.pc = "look", !.run = r, !.seen = row'])
    BY <1>9 DEF OpenRun
  <2>2. [y EXCEPT !.pc = "look", !.run = r, !.seen = row'].pc = "look"
    BY <1>0 DEF TaskType
  <2>3. QED
    BY <1>2, <2>1, <2>2 DEF CopyPCs
<1>10. CASE Look(t)
  <2>. DEFINE c == IF state[y.run] = NONE THEN FlatLegs ELSE state[y.run]
              x == [y EXCEPT !.pc = "act", !.copy = c]
  <2>1. x.pc = "act" /\ x.copy = c /\ x.run = y.run
    BY <1>0 DEF TaskType
  <2>2. y.run \in Runs
    BY <1>0, <1>10 DEF Placed, Look, At, RunPCs
  <2>3. Grounded(c, orders, y.run)
    BY <2>2 DEF Grounded, FlatLegs, EntryInv, StatesGrounded
  <2>4. Ready(x, orders')
    BY <1>1, <2>1, <2>3 DEF Ready, SentPCs
  <2>5. Become(t, x)
    BY <1>10 DEF Look
  <2>6. QED
    BY <1>0, <1>1, <2>4, <2>5, OthersStay, SameOrders, EntryStep
<1>11. CASE BeginSquare(t)
  <2>1. [y EXCEPT !.pc = "list", !.run = y.seen.run].pc = "list"
    BY <1>0 DEF TaskType
  <2>2. QED
    BY <1>2, <1>5, <1>11, <2>1 DEF BeginSquare, CopyPCs
<1>12. CASE ListOpen(t)
  <2>. DEFINE s == state[y.run]
              x == [y EXCEPT !.pc = "next", !.copy = IF s = NONE THEN FlatLegs ELSE s,
                             !.todo = IF s = NONE THEN {} ELSE {l \in Legs : s.side[l] # "flat"}]
  <2>1. x.pc = "next"
    BY <1>0 DEF TaskType
  <2>2. Become(t, x)
    BY <1>12 DEF ListOpen
  <2>3. QED
    BY <1>2, <2>1, <2>2 DEF CopyPCs
<1>13. CASE SquareLeg(t)
  <2>1. PICK l \in y.todo :
          Become(t, [y EXCEPT !.pc = "gate", !.leg = l, !.todo = @ \ {l},
                       !.act = ExitOf(y.copy.side[l]), !.mode = runs[y.run].mode])
    BY <1>13 DEF SquareLeg
  <2>2. [y EXCEPT !.pc = "gate", !.leg = l, !.todo = @ \ {l},
           !.act = ExitOf(y.copy.side[l]), !.mode = runs[y.run].mode].pc = "gate"
    BY <1>0 DEF TaskType
  <2>3. QED
    BY <1>2, <2>1, <2>2 DEF CopyPCs
<1>14. CASE FinalizeRun(t)
  <2>1. [y EXCEPT !.pc = "clear", !.seen = row'].pc = "clear"
    BY <1>0 DEF TaskType
  <2>2. QED
    BY <1>2, <1>14, <2>1 DEF FinalizeRun, CopyPCs
<1>15. CASE Refuse(t) \/ Decline(t) \/ ExitFailed(t)
  BY <1>4, <1>15 DEF Refuse, Decline, ExitFailed
<1>16. CASE LockWebhook(t)
  BY <1>0, <1>2, <1>16 DEF LockWebhook, CopyPCs
<1>17. QED
  BY <1>6, <1>7, <1>8, <1>9, <1>10, <1>11, <1>12, <1>13, <1>14, <1>15, <1>16

\* An order is sent: an exit only for a side the copy shows, and that was entered.
LEMMA DispatchEntry ==
  ASSUME EntryInv, TypeInv', NEW t \in Tasks, Dispatch(t)
  PROVE  EntryInv'
<1>. DEFINE y == task[t]
            n == Len(orders) + 1
            x == [y EXCEPT !.pc = "record", !.nr = n]
<1>1. /\ TypeInv /\ y \in TaskType /\ Placed(y) /\ y.pc = "act" /\ Ready(y, orders)
      /\ orders \in Seq(OrderType) /\ Len(orders) \in Nat /\ DOMAIN orders = 1..Len(orders)
  BY TaskParts DEF EntryInv, TypeInv, TypeOK, TasksReady, Dispatch, At
<1>2. PICK answer \in Answers :
        orders' = Append(orders,
                    [run |-> y.run, leg |-> y.leg, side |-> SideOf(y.act),
                     entry |-> Entering(t), mode |-> y.mode, at |-> answer, row |-> "none"])
  BY DEF Dispatch
<1>3. /\ DOMAIN orders' = 1..n
      /\ \A i \in DOMAIN orders : orders'[i] = orders[i]
      /\ orders'[n].run = y.run /\ orders'[n].leg = y.leg
      /\ orders'[n].side = SideOf(y.act) /\ orders'[n].entry = Entering(t)
  BY <1>1, <1>2
<1>4. Grows(orders, orders')
  BY <1>1, <1>3 DEF Grows
<1>5. x.pc = "record" /\ x.nr = n /\ x.run = y.run /\ x.leg = y.leg /\ x.act = y.act /\ x.copy = y.copy
  BY <1>1 DEF TaskType
<1>6. Ready(x, orders')
  <2>1. Grounded(y.copy, orders', y.run)
    BY <1>1, <1>4, GroundedStays DEF Ready, CopyPCs
  <2>2. n \in DOMAIN orders' /\ (Entering(t) <=> y.act \in Entries)
    BY <1>1, <1>3 DEF Entering
  <2>3. QED
    BY <1>3, <1>5, <2>1, <2>2 DEF Ready, Entering
<1>7. ExitsFollowEntries'
  <2>1. SUFFICES ASSUME NEW i \in 1..n, ~orders'[i].entry
                 PROVE  \E j \in 1..(i - 1) :
                          /\ orders'[j].entry /\ orders'[j].at # "refused"
                          /\ orders'[j].run = orders'[i].run /\ orders'[j].leg = orders'[i].leg
                          /\ orders'[j].side = orders'[i].side
    BY <1>3 DEF ExitsFollowEntries
  <2>2. CASE i \in DOMAIN orders
    <3>1. PICK j \in 1..(i - 1) :
            /\ orders[j].entry /\ orders[j].at # "refused"
            /\ orders[j].run = orders[i].run /\ orders[j].leg = orders[i].leg
            /\ orders[j].side = orders[i].side
      BY <1>3, <2>1, <2>2 DEF EntryInv, ExitsFollowEntries
    <3>2. j \in DOMAIN orders
      BY <1>1, <2>2
    <3>3. QED
      BY <1>3, <2>2, <3>1, <3>2
  <2>3. CASE i = n
    <3>1. ~Entering(t)
      BY <1>3, <2>1, <2>3
    <3>2. y.copy.side[y.leg] = SideOf(y.act) /\ SideOf(y.act) # "flat"
      BY <3>1 DEF Dispatch, Found, SideOf
    <3>3. y.leg \in Legs
      BY <1>1 DEF Placed, OrderPCs
    <3>4. EnteredIn(orders, y.run, y.leg, SideOf(y.act))
      BY <1>1, <3>2, <3>3 DEF Ready, CopyPCs, Grounded
    <3>5. PICK j \in DOMAIN orders :
            /\ orders[j].entry /\ orders[j].at # "refused"
            /\ orders[j].run = y.run /\ orders[j].leg = y.leg /\ orders[j].side = SideOf(y.act)
      BY <3>4 DEF EnteredIn
    <3>6. j \in 1..(i - 1) /\ orders'[j] = orders[j]
      BY <1>1, <1>3, <2>3
    <3>7. QED
      BY <1>3, <2>3, <3>5, <3>6
  <2>4. QED
    BY <1>1, <2>2, <2>3
<1>8. Become(t, x) /\ UNCHANGED <<state, saved>>
  BY DEF Dispatch, desk
<1>9. QED
  BY <1>1, <1>4, <1>6, <1>7, <1>8, OthersStay, EntryStep

\* The order is recorded and its fill learnt: only its row is written.
LEMMA AnswerEntry ==
  ASSUME EntryInv, TypeInv', NEW t \in Tasks, Record(t) \/ Reconcile(t)
  PROVE  EntryInv'
<1>. DEFINE y == task[t]
<1>1. /\ TypeInv /\ y \in TaskType /\ y.pc \in SentPCs /\ Ready(y, orders)
      /\ orders \in Seq(OrderType)
  BY TaskParts DEF EntryInv, TypeInv, TypeOK, TasksReady, Record, Reconcile, At, SentPCs
<1>2. PICK f : orders' = [orders EXCEPT ![y.nr].row = f] \/ orders' = orders
  BY DEF Record, Reconcile
<1>3. /\ DOMAIN orders' = DOMAIN orders
      /\ \A i \in DOMAIN orders :
           /\ orders'[i].run = orders[i].run /\ orders'[i].leg = orders[i].leg
           /\ orders'[i].side = orders[i].side /\ orders'[i].entry = orders[i].entry
           /\ orders'[i].at = orders[i].at
  <2>1. ASSUME NEW i \in DOMAIN orders
        PROVE  /\ [orders[i] EXCEPT !.row = f].run = orders[i].run
               /\ [orders[i] EXCEPT !.row = f].leg = orders[i].leg
               /\ [orders[i] EXCEPT !.row = f].side = orders[i].side
               /\ [orders[i] EXCEPT !.row = f].entry = orders[i].entry
               /\ [orders[i] EXCEPT !.row = f].at = orders[i].at
    <3>1. orders[i] \in OrderType
      BY <1>1
    <3>2. QED
      BY <3>1 DEF OrderType
  <2>2. QED
    BY <1>1, <1>2, <2>1
<1>4. Grows(orders, orders')
  BY <1>3 DEF Grows
<1>5. PICK pc \in {"reconcile", "store", "fail", "book"} : Become(t, [y EXCEPT !.pc = pc])
  BY DEF Record, Reconcile, Goto
<1>. DEFINE x == [y EXCEPT !.pc = pc]
<1>6. x.nr = y.nr /\ x.run = y.run /\ x.leg = y.leg /\ x.act = y.act /\ x.copy = y.copy
  BY <1>1 DEF TaskType
<1>7. Ready(x, orders)
  BY <1>1, <1>6 DEF Ready, CopyPCs, SentPCs
<1>8. UNCHANGED <<state, saved>> /\ ExitsFollowEntries'
  BY <1>3, <1>4, NoNewOrder DEF Record, Reconcile, desk
<1>9. QED
  BY <1>1, <1>4, <1>5, <1>7, <1>8, ReadyStays, OthersStay, EntryStep

\* A square's state is cleared, or a copy written back.
LEMMA StoreEntry ==
  ASSUME EntryInv, TypeInv', NEW t \in Tasks,
         AlreadyThere(t) \/ Book(t) \/ Store(t) \/ ClearState(t)
  PROVE  EntryInv'
<1>. DEFINE y == task[t]
<1>1. /\ TypeInv /\ y \in TaskType /\ Placed(y) /\ Ready(y, orders)
      /\ state \in [Runs -> StateType \cup {NONE}] /\ Idle.pc = "idle"
  BY TaskParts DEF EntryInv, TypeInv, TypeOK, TasksReady, Idle
<1>2. UNCHANGED <<orders, saved>>
  BY DEF AlreadyThere, Book, Store, ClearState
<1>3. y.pc \in {"act", "book", "store", "clear"} /\ y.run \in Runs /\ y.copy \in StateType
  BY <1>1 DEF AlreadyThere, Book, Store, ClearState, At, Placed, RunPCs, TaskType
<1>4. \A u \in Tasks : task'[u] = task[u] \/ Ready(task'[u], orders')
  <2>1. ASSUME NEW pc \in PCs \ CopyPCs PROVE [y EXCEPT !.pc = pc].pc \notin CopyPCs
    BY <1>1 DEF TaskType
  <2>2. CASE AlreadyThere(t) \/ Store(t) \/ ClearState(t)
    <3>1. PICK x : x.pc \notin CopyPCs /\ Become(t, x)
      BY <1>1, <2>1, <2>2 DEF AlreadyThere, Store, ClearState, Finish, Squared, Goto, PCs, CopyPCs
    <3>2. QED
      BY <1>1, <3>1, AwayIsReady, OthersStay
  <2>3. CASE Book(t)
    <3>. DEFINE x == [y EXCEPT !.pc = "store"]
    <3>1. /\ x.nr = y.nr /\ x.run = y.run /\ x.leg = y.leg /\ x.act = y.act /\ x.copy = y.copy
          /\ x.pc = "store" /\ y.pc = "book"
      BY <1>1, <2>3 DEF TaskType, Book, At
    <3>2. Ready(x, orders')
      BY <1>1, <1>2, <3>1 DEF Ready, CopyPCs, SentPCs
    <3>3. QED
      BY <1>1, <2>3, <3>2, OthersStay DEF Book, Goto
  <2>4. QED
    BY <2>2, <2>3
<1>5. \A r \in Runs : state'[r] = state[r] \/ state'[r] = NONE \/ Grounded(state'[r], orders', r)
  <2>1. CASE AlreadyThere(t)
    BY <1>1, <1>2, <1>3, <2>1 DEF AlreadyThere, At, Ready, CopyPCs
  <2>2. CASE Book(t)
    <3>1. CASE state[y.run] = NONE
      BY <2>2, <3>1 DEF Book
    <3>2. CASE state[y.run] # NONE
      <4>. DEFINE s == state[y.run]
                  w == [side |-> [s.side EXCEPT ![y.leg] = "flat"], booked |-> s.booked + 1]
      <4>1. s \in StateType /\ Grounded(s, orders, y.run)
        BY <1>1, <1>3, <3>2 DEF EntryInv, StatesGrounded
      <4>2. \A l \in Legs : w.side[l] = s.side[l] \/ w.side[l] = "flat"
        BY <4>1 DEF StateType
      <4>3. Grounded(w, orders, y.run)
        BY <4>1, <4>2 DEF Grounded
      <4>4. state' = [state EXCEPT ![y.run] = w]
        BY <1>1, <1>3, <2>2, <3>2 DEF Book
      <4>5. QED
        BY <1>1, <1>2, <1>3, <4>3, <4>4
    <3>3. QED
      BY <3>1, <3>2
  <2>3. CASE Store(t)
    <3>. DEFINE side == IF Sent(t).at = "refused" \/ ~Entering(t) THEN "flat" ELSE SideOf(y.act)
                w == [y.copy EXCEPT !.side[y.leg] = side]
    <3>1. y.pc = "store" /\ y.leg \in Legs
      BY <1>1, <2>3 DEF Store, At, Placed, OrderPCs
    <3>2. Grounded(y.copy, orders, y.run)
      BY <1>1, <3>1 DEF Ready, CopyPCs
    <3>3. w.side[y.leg] = side /\ \A l \in Legs : l # y.leg => w.side[l] = y.copy.side[l]
      BY <1>3, <3>1 DEF StateType
    <3>4. side # "flat" => EnteredIn(orders, y.run, y.leg, side)
      <4>1. /\ y.nr \in DOMAIN orders /\ orders[y.nr].run = y.run /\ orders[y.nr].leg = y.leg
            /\ orders[y.nr].side = SideOf(y.act) /\ orders[y.nr].entry = (y.act \in Entries)
        BY <1>1, <3>1 DEF Ready, SentPCs
      <4>2. QED
        BY <4>1 DEF EnteredIn, Entering, Sent
    <3>5. Grounded(w, orders, y.run)
      BY <3>2, <3>3, <3>4 DEF Grounded
    <3>6. state' = [state EXCEPT ![y.run] = w]
      BY <2>3 DEF Store
    <3>7. QED
      BY <1>1, <1>2, <1>3, <3>5, <3>6
  <2>4. CASE ClearState(t)
    BY <1>1, <1>3, <2>4 DEF ClearState
  <2>5. QED
    BY <2>1, <2>2, <2>3, <2>4
<1>6. QED
  BY <1>2, <1>4, <1>5, SameOrders, EntryStep

\* The kill switch withdraws orders that rest.
LEMMA CancelEntry ==
  ASSUME EntryInv, TypeInv', NEW t \in Tasks, CancelPending(t)
  PROVE  EntryInv'
<1>. DEFINE y == task[t]
<1>1. TypeInv /\ y \in TaskType
  BY TaskParts DEF EntryInv
<1>2. PICK gone \in SUBSET (DOMAIN orders) :
        orders' = [i \in DOMAIN orders |->
                     IF i \in gone THEN [orders[i] EXCEPT !.at = "cancelled", !.row = "cancelled"]
                     ELSE orders[i]]
  BY DEF CancelPending, Pending
<1>3. Grows(orders, orders') /\ DOMAIN orders' = DOMAIN orders
  <2>1. \A i \in DOMAIN orders : orders[i] \in OrderType
    BY <1>1 DEF TypeInv, TypeOK
  <2>2. \A o \in OrderType : LET n == [o EXCEPT !.at = "cancelled", !.row = "cancelled"]
                             IN  /\ n.run = o.run /\ n.leg = o.leg /\ n.side = o.side
                                 /\ n.entry = o.entry /\ n.at = "cancelled"
    BY DEF OrderType
  <2>3. QED
    BY <1>2, <2>1, <2>2 DEF Grows
<1>4. PICK pc \in {"square", "lock"} : Goto(t, pc)
  BY DEF CancelPending
<1>5. [y EXCEPT !.pc = pc].pc \notin CopyPCs
  BY <1>1 DEF TaskType, CopyPCs
<1>6. UNCHANGED <<state, saved>>
  BY DEF CancelPending
<1>7. QED
  BY <1>1, <1>3, <1>4, <1>5, <1>6, AwayIsReady, OthersStay, NoNewOrder, EntryStep DEF Goto

\* Recovery looks rows up; which orders were sent and accepted does not change.
LEMMA RecoveryGrows ==
  ASSUME EntryInv, Recover
  PROVE  Grows(orders, orders') /\ DOMAIN orders' = DOMAIN orders
<1>1. \A i \in DOMAIN orders : orders[i] \in OrderType
  BY DEF EntryInv, TypeInv, TypeOK
<1>2. ASSUME NEW o \in OrderType
      PROVE  /\ Reconciled(o).run = o.run /\ Reconciled(o).leg = o.leg
             /\ Reconciled(o).side = o.side /\ Reconciled(o).entry = o.entry
             /\ Reconciled(o).at = o.at
  <2>1. PICK f : Reconciled(o) = o \/ Reconciled(o) = [o EXCEPT !.row = f]
    BY DEF Reconciled
  <2>2. QED
    BY <2>1 DEF OrderType
<1>3. orders' = [i \in DOMAIN orders |-> Reconciled(orders[i])]
  BY DEF Recover
<1>4. QED
  BY <1>1, <1>2, <1>3 DEF Grows

\* What recovery restores comes from the checkpoint.
LEMMA RecoverEntry ==
  ASSUME EntryInv, TypeInv', Recover
  PROVE  EntryInv'
<1>1. Grows(orders, orders') /\ DOMAIN orders' = DOMAIN orders
  BY RecoveryGrows
<1>2. PICK failed \in SUBSET {r \in Runs : Active(r)},
           side \in [Runs -> [Legs -> {"flat", "long", "short"}]] :
        /\ \A r \in Runs, l \in Legs : IF r \in {q \in Runs : Active(q)} \ failed
                                       THEN Recovered(r, l, side[r][l])
                                       ELSE side[r][l] = "flat"
        /\ state' = [r \in Runs |->
                       IF r \in {q \in Runs : Active(q)} \ failed
                       THEN [side |-> side[r], booked |-> IF saved[r] = NONE THEN 0 ELSE saved[r].booked]
                       ELSE state[r]]
  BY DEF Recover
<1>3. ASSUME NEW r \in Runs, state'[r] # state[r]
      PROVE  Grounded(state'[r], orders', r)
  <2>1. state'[r].side = side[r] /\ \A l \in Legs : Recovered(r, l, side[r][l])
    BY <1>2, <1>3
  <2>2. ASSUME NEW l \in Legs, side[r][l] # "flat"
        PROVE  saved[r] # NONE /\ side[r][l] = saved[r].side[l]
    BY <2>1, <2>2 DEF Recovered
  <2>3. saved[r] # NONE => Grounded(saved[r], orders, r)
    BY DEF EntryInv, SavedGrounded
  <2>4. ASSUME NEW l \in Legs, side[r][l] # "flat"
        PROVE  EnteredIn(orders, r, l, side[r][l])
    BY <2>2, <2>3, <2>4 DEF Grounded
  <2>5. \A l \in Legs : side[r][l] # "flat" => EnteredIn(orders', r, l, side[r][l])
    BY <1>1, <2>4, EnteredStays
  <2>6. QED
    BY <2>1, <2>5 DEF Grounded
<1>4. UNCHANGED <<saved, task>>
  BY DEF Recover
<1>5. QED
  BY <1>1, <1>3, <1>4, NoNewOrder, EntryStep

\* Operator, scheduler, checkpoint, crash, venue and clock.
LEMMA WorldEntry ==
  ASSUME EntryInv, TypeInv',
         FireAutoStop \/ Unlock \/ (\E d \in Directions : EditDirection(d))
         \/ (\E r \in Runs : Checkpoint(r)) \/ Crash
         \/ (\E i \in DOMAIN orders : Fill(i)) \/ NextPhase
  PROVE  EntryInv'
<1>0. TypeInv
  BY DEF EntryInv
<1>1. CASE FireAutoStop
  <2>1. UNCHANGED <<orders, state, saved>>
    BY <1>1 DEF FireAutoStop, desk
  <2>2. CASE UNCHANGED task
    BY <2>1, <2>2, SameOrders, EntryStep
  <2>3. CASE Become(Cron, [Idle EXCEPT !.pc = "square", !.by = "square", !.seen = row])
    <3>1. [Idle EXCEPT !.pc = "square", !.by = "square", !.seen = row].pc \notin CopyPCs
      BY DEF Idle, CopyPCs
    <3>2. QED
      BY <1>0, <2>1, <2>3, <3>1, TasksAssumption, AwayIsReady, OthersStay, SameOrders, EntryStep
  <2>4. QED
    BY <1>1, <2>2, <2>3 DEF FireAutoStop
<1>2. CASE Unlock \/ (\E d \in Directions : EditDirection(d)) \/ NextPhase
  <2>1. UNCHANGED <<orders, state, saved, task>>
    BY <1>2 DEF Unlock, EditDirection, NextPhase, desk
  <2>2. QED
    BY <2>1, SameOrders, EntryStep
<1>3. ASSUME NEW r \in Runs, Checkpoint(r) PROVE EntryInv'
  <2>1. UNCHANGED <<orders, state, task>> /\ saved' = [saved EXCEPT ![r] = state[r]] /\ state[r] # NONE
    BY <1>3 DEF Checkpoint
  <2>2. Grounded(state[r], orders, r)
    BY <2>1 DEF EntryInv, StatesGrounded
  <2>3. \A q \in Runs : saved'[q] = saved[q] \/ Grounded(saved'[q], orders', q)
    BY <1>0, <2>1, <2>2 DEF TypeInv, TypeOK
  <2>4. QED
    BY <2>1, <2>3, SameOrders, EntryStep
<1>4. CASE Crash
  <2>1. UNCHANGED <<orders, state, saved>> /\ task' = [t \in Tasks |-> Idle]
    BY <1>4 DEF Crash
  <2>2. Idle.pc \notin CopyPCs
    BY DEF Idle, CopyPCs
  <2>3. QED
    BY <2>1, <2>2, AwayIsReady, SameOrders, EntryStep
<1>5. ASSUME NEW i \in DOMAIN orders, Fill(i) PROVE EntryInv'
  <2>1. orders[i] \in OrderType /\ orders' = [orders EXCEPT ![i] = [orders[i] EXCEPT !.at = "filled"]]
    BY <1>0, <1>5 DEF Fill, TypeInv, TypeOK
  <2>2. LET n == [orders[i] EXCEPT !.at = "filled"]
        IN  /\ n.run = orders[i].run /\ n.leg = orders[i].leg /\ n.side = orders[i].side
            /\ n.entry = orders[i].entry /\ n.at = "filled"
    BY <2>1 DEF OrderType
  <2>3. Grows(orders, orders') /\ DOMAIN orders' = DOMAIN orders
    BY <2>1, <2>2 DEF Grows
  <2>4. UNCHANGED <<state, saved, task>>
    BY <1>5 DEF Fill, desk
  <2>5. QED
    BY <2>3, <2>4, NoNewOrder, EntryStep
<1>6. QED
  BY <1>1, <1>2, <1>3, <1>4, <1>5

\* Every step keeps the invariant.
LEMMA EntryNext ==
  ASSUME EntryInv, [Next]_vars
  PROVE  EntryInv'
<1>0. TypeInv'
  BY TypeStep
<1>1. ASSUME NEW t \in Tasks, TaskStep(t) PROVE EntryInv'
  BY <1>0, <1>1, QuietEntry, DispatchEntry, AnswerEntry, StoreEntry, CancelEntry DEF TaskStep
<1>2. ASSUME NEW t \in Tasks, Request(t) PROVE EntryInv'
  BY <1>0, <1>2, QuietEntry
<1>3. CASE UNCHANGED vars
  <2>1. UNCHANGED <<orders, state, saved, task>>
    BY <1>3 DEF vars
  <2>2. QED
    BY <1>0, <2>1, SameOrders, EntryStep
<1>4. QED
  BY <1>0, <1>1, <1>2, <1>3, WorldEntry, RecoverEntry DEF Next

LEMMA EntryInit ==
  ASSUME Init
  PROVE  EntryInv
<1>1. TypeOK
  <2>1. row \in RowType
    BY DEF Init, RowType
  <2>2. orders \in Seq(OrderType) /\ crashes \in Nat
    BY DEF Init
  <2>3. task \in [Tasks -> TaskType]
    BY IdleLocal DEF Init
  <2>4. QED
    BY <2>1, <2>2, <2>3 DEF Init, TypeOK
<1>2. TypeInv
  BY <1>1, IdleLocal DEF Init, TypeInv
<1>3. StatesGrounded /\ SavedGrounded /\ ExitsFollowEntries
  BY DEF Init, StatesGrounded, SavedGrounded, ExitsFollowEntries
<1>4. TasksReady
  BY DEF Init, TasksReady, Ready, Idle, CopyPCs, SentPCs
<1>5. QED
  BY <1>2, <1>3, <1>4 DEF EntryInv

-----------------------------------------------------------------------------
(* Theorems *)

LEMMA EntryInvariant == Spec => []EntryInv
<1>1. Init => EntryInv
  BY EntryInit
<1>2. EntryInv /\ [Next]_vars => EntryInv'
  BY EntryNext
<1>3. QED
  BY <1>1, <1>2, PTL DEF Spec

\* The desk's variables keep their types: in particular a task that records, looks
\* up or books an order (engine.enter_leg, exit_leg_by_signal) has one in hand.
THEOREM DeskTypes == Spec => []TypeOK
<1>1. EntryInv => TypeOK
  BY DEF EntryInv, TypeInv
<1>2. QED
  BY <1>1, EntryInvariant, PTL

\* However signals, squares, kill switch, checkpoints, crashes and recoveries
\* interleave: exit_leg_by_signal and signal_auto_square send an exit only for a leg
\* whose entry on that side was accepted before, in the same run.
THEOREM NoExitWithoutEntry == Spec => []ExitsFollowEntries
<1>1. EntryInv => ExitsFollowEntries
  BY DEF EntryInv
<1>2. QED
  BY <1>1, EntryInvariant, PTL

-----------------------------------------------------------------------------
(* Requests that do not overlap *)

\* A task under way has loaded the strategy as the row still is, and only its own
\* steps begin or end a run.
Turn(x) ==
  /\ x.pc # "idle" /\ x.by = "signal" => x.pc \in OrderPCs /\ ~row.locked
  /\ x.pc \notin {"idle", "load"} => x.seen = row
  /\ x.pc \in (RunPCs \cup {"gate"}) \ {"clear"} /\ (x.pc # "gate" \/ x.by # "signal")
       => x.run = row.run
  /\ x.pc \in OrderPCs /\ x.by # "signal" => x.act \notin Entries
  /\ x.by = "kill" /\ x.pc = "square" => row.run # NONE
  /\ x.pc = "kill" => x.by = "kill"
  /\ x.pc \in {"clear", "lock"} => row.run = NONE
  /\ x.pc = "clear" => runs[x.run].status = "stopped"

OneTask == \A t, u \in Tasks : ~At(t, "idle") /\ ~At(u, "idle") => t = u
OneRun == \A r \in Runs : Active(r) <=> row.run = r

TurnInv ==
  /\ EntryInv
  /\ OneTask /\ OneRun
  /\ ~up => Quiet
  /\ row.locked => row.run = NONE
  /\ \A t \in Tasks : Turn(task[t])

\* What the invariant says of one task.
LEMMA TurnParts ==
  ASSUME TurnInv, NEW t \in Tasks
  PROVE  /\ TypeInv /\ task[t] \in TaskType /\ Placed(task[t]) /\ Turn(task[t])
         /\ row \in RowType
         /\ runs \in [Runs -> [status : {"unborn", "active", "stopped"}, mode : {"sandbox", "live"}]]
         /\ task \in [Tasks -> TaskType]
  BY DEF TurnInv, EntryInv, TypeInv, TypeOK

\* A task goes on, or begins, while all others are idle.
LEMMA TurnWrite ==
  ASSUME TurnInv, EntryInv', NEW t \in Tasks, NEW x, Become(t, x),
         \A u \in Tasks : u # t => At(u, "idle"), up, UNCHANGED up,
         OneRun', row'.locked => row'.run = NONE, Turn(x)'
  PROVE  TurnInv'
<1>1. task'[t] = x /\ \A u \in Tasks : u # t => task'[u] = task[u]
  BY TurnParts, OthersStay
<1>2. \A u \in Tasks : u # t => task'[u].pc = "idle"
  BY <1>1 DEF At
<1>3. OneTask'
  BY <1>2 DEF OneTask, At
<1>4. ASSUME NEW u \in Tasks PROVE Turn(task[u])'
  <2>1. CASE u = t
    BY <1>1, <2>1
  <2>2. CASE u # t
    BY <1>2, <2>2 DEF Turn, OrderPCs, RunPCs
  <2>3. QED
    BY <2>1, <2>2
<1>5. QED
  BY <1>3, <1>4 DEF TurnInv

\* The others are idle while a task is under way.
LEMMA OthersIdle ==
  ASSUME TurnInv, NEW t \in Tasks, ~At(t, "idle")
  PROVE  up /\ \A u \in Tasks : u # t => At(u, "idle")
<1>1. up
  BY DEF TurnInv, Quiet
<1>2. QED
  BY <1>1 DEF TurnInv, OneTask

\* The task under way goes on and leaves row and runs alone.
LEMMA TurnStay ==
  ASSUME TurnInv, EntryInv', NEW t \in Tasks, ~At(t, "idle"), NEW x, Become(t, x),
         UNCHANGED <<row, runs, up>>, Turn(x)
  PROVE  TurnInv'
<1>1. OneRun' /\ (row'.locked => row'.run = NONE)
  BY DEF TurnInv, OneRun, Active
<1>2. Turn(x)'
  BY DEF Turn
<1>3. QED
  BY <1>1, <1>2, OthersIdle, TurnWrite

\* The task only moves on in the code, or is done with its order.
LEMMA TurnGoto ==
  ASSUME TurnInv, NEW t \in Tasks, NEW pc \in PCs, Turn(task[t]),
         \/ pc \in RunPCs \ {"clear", "list", "next"} /\ task[t].pc \in RunPCs \ {"clear", "list", "next"}
         \/ pc = "next" /\ task[t].pc \in {"gate", "act", "store", "fail"} /\ task[t].by # "signal"
         \/ pc = "square" /\ task[t].pc = "kill" /\ row.run # NONE
         \/ pc = "lock" /\ row.run = NONE /\ task[t].pc \in {"kill", "clear", "square"}
  PROVE  Turn([task[t] EXCEPT !.pc = pc])
<1>. DEFINE y == task[t]
            x == [y EXCEPT !.pc = pc]
<1>1. y \in TaskType /\ Placed(y)
  BY TurnParts
<1>2. /\ x.pc = pc /\ x.seen = y.seen /\ x.run = y.run /\ x.by = y.by /\ x.act = y.act
  BY <1>1 DEF TaskType
<1>. HIDE DEF x
<1>3. QED
  BY <1>1, <1>2 DEF Turn, OrderPCs, RunPCs

LEMMA IdleTurn == Turn(Idle)
  BY DEF Turn, Idle, OrderPCs, RunPCs

LEMMA TurnFinish ==
  ASSUME TurnInv, EntryInv', NEW t \in Tasks, task[t].pc \in {"gate", "act", "store", "fail"},
         Finish(t), UNCHANGED <<row, runs, up>>
  PROVE  TurnInv'
<1>0. ~At(t, "idle") /\ Turn(task[t])
  BY TurnParts DEF At
<1>1. CASE task[t].by = "signal"
  BY <1>0, <1>1, IdleTurn, TurnStay DEF Finish
<1>2. CASE task[t].by # "signal"
  <2>1. Turn([task[t] EXCEPT !.pc = "next"])
    BY <1>0, <1>2, TurnGoto DEF PCs
  <2>2. QED
    BY <1>0, <1>2, <2>1, TurnStay DEF Finish, Goto
<1>3. QED
  BY <1>1, <1>2

LEMMA TurnSquared ==
  ASSUME TurnInv, EntryInv', NEW t \in Tasks, task[t].pc \in {"square", "clear"}, row.run = NONE,
         Squared(t), UNCHANGED <<row, runs, up>>
  PROVE  TurnInv'
<1>0. ~At(t, "idle") /\ Turn(task[t])
  BY TurnParts DEF At
<1>1. CASE task[t].by # "kill"
  BY <1>0, <1>1, IdleTurn, TurnStay DEF Squared
<1>2. CASE task[t].by = "kill"
  <2>1. Turn([task[t] EXCEPT !.pc = "lock"])
    BY <1>0, <1>2, TurnGoto DEF PCs
  <2>2. QED
    BY <1>0, <1>2, <2>1, TurnStay DEF Squared, Goto
<1>3. QED
  BY <1>1, <1>2

\* The steps of a signal or an exit.
LEMMA TurnOrder ==
  ASSUME TurnInv, EntryInv', NEW t \in Tasks,
         \/ Load(t) \/ Refuse(t) \/ UseRun(t) \/ Look(t) \/ AlreadyThere(t) \/ Decline(t)
         \/ Dispatch(t) \/ Record(t) \/ Reconcile(t) \/ Book(t) \/ Store(t) \/ ExitFailed(t)
  PROVE  TurnInv'
<1>. DEFINE y == task[t]
<1>0. y \in TaskType /\ Placed(y) /\ Turn(y) /\ row \in RowType
  BY TurnParts
<1>1. ASSUME NEW pc \in RunPCs \ {"clear", "list", "next"}, Goto(t, pc),
             y.pc \in RunPCs \ {"clear", "list", "next"}, UNCHANGED <<row, runs, up>>
      PROVE  TurnInv'
  <2>1. pc \in PCs
    BY DEF PCs, RunPCs
  <2>2. Turn([y EXCEPT !.pc = pc])
    BY <1>0, <1>1, <2>1, TurnGoto
  <2>3. ~At(t, "idle")
    BY <1>1 DEF At, RunPCs
  <2>4. QED
    BY <1>1, <2>2, <2>3, TurnStay DEF Goto
<1>2. CASE Load(t)
  <2>. DEFINE x == [y EXCEPT !.pc = "gate", !.seen = row]
  <2>1. x.pc = "gate" /\ x.seen = row /\ x.by = y.by /\ x.act = y.act /\ x.run = y.run
    BY <1>0 DEF TaskType
  <2>2. y.pc = "load" /\ y.by = "signal" /\ ~row.locked /\ ~At(t, "idle")
    BY <1>0, <1>2 DEF Load, At, Placed, Turn
  <2>3. Turn(x)
    <3>. HIDE DEF x
    <3>1. QED
      BY <2>1, <2>2 DEF Turn, OrderPCs, RunPCs
  <2>4. QED
    BY <1>2, <2>2, <2>3, TurnStay DEF Load, desk, clock
<1>3. CASE Refuse(t) \/ AlreadyThere(t) \/ Decline(t) \/ Store(t) \/ ExitFailed(t)
  BY <1>3, TurnFinish DEF Refuse, AlreadyThere, Decline, Store, ExitFailed, At, clock
<1>4. CASE UseRun(t)
  <2>. DEFINE x == [y EXCEPT !.pc = "look", !.run = y.seen.run]
  <2>1. x.pc = "look" /\ x.seen = y.seen /\ x.by = y.by /\ x.act = y.act /\ x.run = y.seen.run
    BY <1>0 DEF TaskType
  <2>2. y.pc = "gate" /\ ~At(t, "idle") /\ y.seen = row
    BY <1>0, <1>4 DEF UseRun, At, Turn
  <2>3. Turn(x)
    <3>. HIDE DEF x
    <3>1. QED
      BY <1>0, <2>1, <2>2 DEF Turn, OrderPCs, RunPCs
  <2>4. QED
    BY <1>4, <2>2, <2>3, TurnStay DEF UseRun, clock
<1>5. CASE Look(t)
  <2>. DEFINE c == IF state[y.run] = NONE THEN FlatLegs ELSE state[y.run]
              x == [y EXCEPT !.pc = "act", !.copy = c]
  <2>1. x.pc = "act" /\ x.seen = y.seen /\ x.by = y.by /\ x.act = y.act /\ x.run = y.run
    BY <1>0 DEF TaskType
  <2>2. y.pc = "look" /\ ~At(t, "idle")
    BY <1>5 DEF Look, At
  <2>3. Turn(x)
    <3>. HIDE DEF x
    <3>1. QED
      BY <1>0, <2>1, <2>2 DEF Turn, OrderPCs, RunPCs
  <2>4. QED
    BY <1>5, <2>2, <2>3, TurnStay DEF Look, desk, clock
<1>6. CASE Dispatch(t)
  <2>. DEFINE x == [y EXCEPT !.pc = "record", !.nr = Len(orders) + 1]
  <2>1. x.pc = "record" /\ x.seen = y.seen /\ x.by = y.by /\ x.act = y.act /\ x.run = y.run
    BY <1>0 DEF TaskType
  <2>2. y.pc = "act" /\ ~At(t, "idle")
    BY <1>6 DEF Dispatch, At
  <2>3. Turn(x)
    <3>. HIDE DEF x
    <3>1. QED
      BY <1>0, <2>1, <2>2 DEF Turn, OrderPCs, RunPCs
  <2>4. QED
    BY <1>6, <2>2, <2>3, TurnStay DEF Dispatch, desk, clock
<1>7. CASE Record(t) \/ Reconcile(t) \/ Book(t)
  BY <1>1, <1>7 DEF Record, Reconcile, Book, RunPCs, At, desk, clock
<1>8. QED
  BY <1>2, <1>3, <1>4, <1>5, <1>6, <1>7

\* The steps of squares and of the kill switch that leave row and runs alone.
LEMMA TurnSquare ==
  ASSUME TurnInv, EntryInv', NEW t \in Tasks,
         BeginSquare(t) \/ ListOpen(t) \/ SquareLeg(t) \/ ClearState(t) \/ CancelPending(t)
  PROVE  TurnInv'
<1>. DEFINE y == task[t]
<1>0. /\ y \in TaskType /\ Placed(y) /\ Turn(y) /\ row \in RowType
      /\ \A r \in Runs : Active(r) <=> row.run = r
  BY TurnParts DEF TurnInv, OneRun
<1>1. CASE BeginSquare(t)
  <2>1. y.pc = "square" /\ ~At(t, "idle") /\ y.seen = row
    BY <1>0, <1>1 DEF BeginSquare, At, Turn
  <2>2. CASE Active(y.seen.run) \/ y.by = "kill"
    <3>. DEFINE x == [y EXCEPT !.pc = "list", !.run = y.seen.run]
    <3>1. x.pc = "list" /\ x.seen = y.seen /\ x.by = y.by /\ x.act = y.act /\ x.run = y.seen.run
      BY <1>0 DEF TaskType
    <3>2. Turn(x)
      <4>. HIDE DEF x
      <4>1. QED
        BY <1>0, <2>1, <3>1 DEF Turn, OrderPCs, RunPCs
    <3>3. QED
      BY <1>1, <2>1, <2>2, <3>2, TurnStay DEF BeginSquare, clock
  <2>3. CASE ~(Active(y.seen.run) \/ y.by = "kill")
    <3>1. row.run = NONE
      BY <1>0, <2>1, <2>3 DEF RowType
    <3>2. QED
      BY <1>1, <2>1, <2>3, <3>1, TurnSquared DEF BeginSquare, clock
  <2>4. QED
    BY <2>2, <2>3
<1>2. CASE ListOpen(t)
  <2>1. PICK c, d : Become(t, [y EXCEPT !.pc = "next", !.copy = c, !.todo = d])
    BY <1>2 DEF ListOpen
  <2>. DEFINE x == [y EXCEPT !.pc = "next", !.copy = c, !.todo = d]
  <2>2. x.pc = "next" /\ x.seen = y.seen /\ x.by = y.by /\ x.act = y.act /\ x.run = y.run
    BY <1>0 DEF TaskType
  <2>3. y.pc = "list" /\ ~At(t, "idle")
    BY <1>2 DEF ListOpen, At
  <2>4. Turn(x)
    <3>. HIDE DEF x
    <3>1. QED
      BY <1>0, <2>2, <2>3 DEF Turn, OrderPCs, RunPCs
  <2>5. QED
    BY <1>2, <2>1, <2>3, <2>4, TurnStay DEF ListOpen, desk, clock
<1>3. CASE SquareLeg(t)
  <2>1. PICK l \in y.todo :
          Become(t, [y EXCEPT !.pc = "gate", !.leg = l, !.todo = @ \ {l},
                       !.act = ExitOf(y.copy.side[l]), !.mode = runs[y.run].mode])
    BY <1>3 DEF SquareLeg
  <2>. DEFINE x == [y EXCEPT !.pc = "gate", !.leg = l, !.todo = @ \ {l},
                      !.act = ExitOf(y.copy.side[l]), !.mode = runs[y.run].mode]
  <2>2. x.pc = "gate" /\ x.seen = y.seen /\ x.by = y.by /\ x.act \notin Entries /\ x.run = y.run
    BY <1>0 DEF TaskType, ExitOf, Entries
  <2>3. y.pc = "next" /\ ~At(t, "idle")
    BY <1>3 DEF SquareLeg, At
  <2>4. Turn(x)
    <3>. HIDE DEF x
    <3>1. QED
      BY <1>0, <2>2, <2>3 DEF Turn, OrderPCs, RunPCs
  <2>5. QED
    BY <1>3, <2>1, <2>3, <2>4, TurnStay DEF SquareLeg, clock
<1>4. CASE ClearState(t)
  <2>1. y.pc = "clear" /\ row.run = NONE
    BY <1>0, <1>4 DEF ClearState, At, Turn
  <2>2. QED
    BY <1>4, <2>1, TurnSquared DEF ClearState, clock
<1>5. CASE CancelPending(t)
  <2>1. y.pc = "kill" /\ ~At(t, "idle") /\ y.seen = row /\ y.by # "signal"
    BY <1>0, <1>5 DEF CancelPending, At, Turn, OrderPCs
  <2>2. CASE Active(y.seen.run)
    <3>1. row.run # NONE
      BY <1>0, <2>1, <2>2, RunsAssumption DEF Active
    <3>2. Turn([y EXCEPT !.pc = "square"])
      BY <1>0, <2>1, <3>1, TurnGoto DEF PCs
    <3>3. QED
      BY <1>5, <2>1, <2>2, <3>2, TurnStay DEF CancelPending, Goto, clock
  <2>3. CASE ~Active(y.seen.run)
    <3>1. row.run = NONE
      BY <1>0, <2>1, <2>3 DEF RowType
    <3>2. Turn([y EXCEPT !.pc = "lock"])
      BY <1>0, <2>1, <3>1, TurnGoto DEF PCs
    <3>3. QED
      BY <1>5, <2>1, <2>3, <3>2, TurnStay DEF CancelPending, Goto, clock
  <2>4. QED
    BY <2>2, <2>3
<1>6. QED
  BY <1>1, <1>2, <1>3, <1>4, <1>5

\* The steps that begin or end a run, or lock the webhook.
LEMMA TurnRow ==
  ASSUME TurnInv, EntryInv', NEW t \in Tasks, OpenRun(t) \/ FinalizeRun(t) \/ LockWebhook(t)
  PROVE  TurnInv'
<1>. DEFINE y == task[t]
<1>0. /\ y \in TaskType /\ Placed(y) /\ Turn(y) /\ row \in RowType
      /\ \A r \in Runs : Active(r) <=> row.run = r
      /\ row.locked => row.run = NONE
      /\ runs \in [Runs -> [status : {"unborn", "active", "stopped"}, mode : {"sandbox", "live"}]]
  BY TurnParts DEF TurnInv, OneRun
<1>1. up /\ up' = up /\ \A u \in Tasks : u # t => At(u, "idle")
  <2>1. ~At(t, "idle")
    BY DEF OpenRun, FinalizeRun, LockWebhook, At
  <2>2. QED
    BY <2>1, OthersIdle DEF OpenRun, FinalizeRun, LockWebhook, clock
<1>2. CASE OpenRun(t)
  <2>1. PICK r \in Runs :
          /\ runs[r].status = "unborn"
          /\ runs' = [runs EXCEPT ![r] = [status |-> "active", mode |-> y.mode]]
          /\ row' = [row EXCEPT !.run = r]
          /\ Become(t, [y EXCEPT !.pc = "look", !.run = r, !.seen = row'])
    BY <1>2 DEF OpenRun
  <2>10. PICK x : x = [y EXCEPT !.pc = "look", !.run = r, !.seen = row']
    OBVIOUS
  <2>2. x.pc = "look" /\ x.seen = row' /\ x.by = y.by /\ x.act = y.act /\ x.run = r
    BY <1>0, <2>10 DEF TaskType
  <2>3. y.pc = "gate" /\ y.seen = row /\ y.act \in Entries /\ ~Active(row.run)
    BY <1>0, <1>2 DEF OpenRun, At, Turn
  <2>4. row.run = NONE /\ row'.run = r /\ row'.locked = row.locked
    BY <1>0, <2>1, <2>3 DEF RowType
  <2>5. y.by = "signal" /\ ~row.locked
    BY <1>0, <2>3 DEF Turn, OrderPCs
  <2>6. OneRun'
    <3>1. ASSUME NEW q \in Runs PROVE Active(q)' <=> q = r
      BY <1>0, <2>1, <2>4, RunsAssumption DEF Active
    <3>2. QED
      BY <2>4, <3>1 DEF OneRun
  <2>7. Turn(x)'
    BY <2>2, <2>4, <2>5 DEF Turn, OrderPCs, RunPCs
  <2>8. QED
    BY <1>1, <2>1, <2>10, <2>4, <2>5, <2>6, <2>7, TurnWrite
<1>3. CASE FinalizeRun(t)
  <2>10. PICK x : x = [y EXCEPT !.pc = "clear", !.seen = row']
    OBVIOUS
  <2>1. y.pc = "next" /\ row' = [row EXCEPT !.run = NONE] /\ y.run = row.run /\ y.run \in Runs
        /\ runs' = [runs EXCEPT ![y.run].status = "stopped"] /\ Become(t, x) /\ y.by # "signal"
    BY <1>0, <1>3, <2>10 DEF FinalizeRun, At, Turn, RunPCs, Placed, OrderPCs
  <2>2. x.pc = "clear" /\ x.seen = row' /\ x.by = y.by /\ x.act = y.act /\ x.run = y.run
    BY <1>0, <2>10 DEF TaskType
  <2>3. row'.run = NONE
    BY <1>0, <2>1 DEF RowType
  <2>4. /\ runs'[y.run].status = "stopped"
        /\ \A q \in Runs : q # y.run => runs'[q] = runs[q]
    BY <1>0, <2>1
  <2>5. OneRun'
    <3>1. ASSUME NEW q \in Runs PROVE ~Active(q)'
      BY <1>0, <2>1, <2>4 DEF Active
    <3>2. QED
      BY <2>3, <3>1, RunsAssumption DEF OneRun
  <2>6. Turn(x)'
    BY <2>1, <2>2, <2>3, <2>4 DEF Turn, OrderPCs, RunPCs
  <2>7. QED
    BY <1>1, <2>1, <2>3, <2>5, <2>6, TurnWrite
<1>4. CASE LockWebhook(t)
  <2>1. y.pc = "lock" /\ row.run = NONE /\ Become(t, Idle) /\ runs' = runs
        /\ row' = [row EXCEPT !.locked = IF y.seen.locked THEN @ ELSE TRUE]
    BY <1>0, <1>4 DEF LockWebhook, At, Turn
  <2>2. row'.run = NONE
    BY <1>0, <2>1 DEF RowType
  <2>3. OneRun'
    BY <1>0, <2>1, <2>2 DEF OneRun, Active
  <2>4. Turn(Idle)'
    BY IdleTurn, PTL
  <2>5. QED
    BY <1>1, <2>1, <2>2, <2>3, <2>4, TurnWrite
<1>5. QED
  BY <1>2, <1>3, <1>4

\* A request or the scheduler's job begins when no task is under way.
LEMMA TurnRequest ==
  ASSUME Serial, TurnInv, EntryInv',
         \/ \E t \in Tasks : Request(t)
         \/ FireAutoStop
  PROVE  TurnInv'
<1>0. row.locked => row.run = NONE
  BY DEF TurnInv
<1>1. ASSUME NEW t \in Tasks, NEW x, Become(t, x), Turn(x), MayStart, up, UNCHANGED <<row, runs, up>>
      PROVE  TurnInv'
  <2>1. \A u \in Tasks : u # t => At(u, "idle")
    BY <1>1 DEF MayStart, Quiet
  <2>2. OneRun'
    BY <1>1 DEF TurnInv, OneRun, Active
  <2>3. Turn(x)'
    BY <1>1 DEF Turn
  <2>4. QED
    BY <1>0, <1>1, <2>1, <2>2, <2>3, TurnWrite
<1>2. ASSUME NEW t \in Tasks, NEW l \in Legs, NEW a \in Signals, NEW m \in Modes, Receive(t, l, a, m)
      PROVE  TurnInv'
  <2>. DEFINE x == [Idle EXCEPT !.pc = "load", !.leg = l, !.act = a, !.mode = m]
  <2>1. Turn(x)
    BY <1>2 DEF Turn, Idle, OrderPCs, RunPCs, Receive, Heard
  <2>2. QED
    BY <1>1, <1>2, <2>1 DEF Receive, desk, clock
<1>3. ASSUME NEW t \in Tasks, NEW what \in {"square", "kill"}, Call(t, what)
      PROVE  TurnInv'
  <2>. DEFINE x == [Idle EXCEPT !.pc = what, !.by = what, !.seen = row]
  <2>1. CASE what = "kill" \/ row.run # NONE \/ what = "square"
    <3>1. Turn(x)
      BY <1>3 DEF Turn, Idle, OrderPCs, RunPCs
    <3>2. QED
      BY <1>1, <1>3, <3>1 DEF Call, desk, clock
  <2>2. QED
    BY <2>1
<1>4. CASE FireAutoStop
  <2>1. CASE row.run = NONE
    <3>1. UNCHANGED <<row, runs, up, task>> /\ up
      BY <1>4, <2>1 DEF FireAutoStop, desk
    <3>2. QED
      BY <3>1 DEF TurnInv, OneTask, OneRun, Turn, Active, At, Quiet
  <2>2. CASE row.run # NONE
    <3>. DEFINE x == [Idle EXCEPT !.pc = "square", !.by = "square", !.seen = row]
    <3>1. Turn(x)
      BY DEF Turn, Idle, OrderPCs, RunPCs
    <3>2. QED
      BY <1>1, <1>4, <2>2, <3>1, TasksAssumption DEF FireAutoStop, desk
  <2>3. QED
    BY <2>1, <2>2
<1>5. QED
  BY <1>2, <1>3, <1>4 DEF Request

\* Steps of no task: the operator's edits, checkpoints, crash, recovery, the venue
\* and the clock.
LEMMA TurnWorld ==
  ASSUME Serial, TurnInv, EntryInv',
         \/ Unlock \/ (\E d \in Directions : EditDirection(d))
         \/ (\E r \in Runs : Checkpoint(r)) \/ Crash \/ Recover
         \/ (\E i \in DOMAIN orders : Fill(i)) \/ NextPhase \/ UNCHANGED vars
  PROVE  TurnInv'
<1>0. /\ row \in RowType /\ task \in [Tasks -> TaskType]
      /\ runs \in [Runs -> [status : {"unborn", "active", "stopped"}, mode : {"sandbox", "live"}]]
      /\ \A r \in Runs : Active(r) <=> row.run = r
      /\ row.locked => row.run = NONE
      /\ \A t \in Tasks : Turn(task[t])
  BY DEF TurnInv, EntryInv, TypeInv, TypeOK, OneRun
\* Everything idle afterwards.
<1>1. ASSUME \A t \in Tasks : task'[t].pc = "idle", OneRun', row'.locked => row'.run = NONE
      PROVE  TurnInv'
  <2>1. \A t \in Tasks : Turn(task[t])'
    BY <1>1 DEF Turn, OrderPCs, RunPCs
  <2>2. OneTask' /\ Quiet'
    BY <1>1 DEF OneTask, Quiet, At
  <2>3. QED
    BY <1>1, <2>1, <2>2 DEF TurnInv
<1>2. ASSUME UNCHANGED <<row, runs, up, task>>
      PROVE  TurnInv'
  BY <1>2 DEF TurnInv, OneTask, OneRun, Turn, Active, At, Quiet
<1>3. CASE Unlock \/ \E d \in Directions : EditDirection(d)
  <2>1. Quiet /\ task' = task /\ runs' = runs
    BY <1>3 DEF Unlock, EditDirection, MayStart
  <2>2. row'.run = row.run /\ (row'.locked => row.locked)
    BY <1>0, <1>3 DEF Unlock, EditDirection, RowType
  <2>3. \A t \in Tasks : task'[t].pc = "idle"
    BY <2>1 DEF Quiet, At
  <2>4. OneRun'
    BY <1>0, <2>1, <2>2 DEF OneRun, Active
  <2>5. QED
    BY <1>0, <1>1, <2>2, <2>3, <2>4
<1>4. CASE (\E r \in Runs : Checkpoint(r)) \/ (\E i \in DOMAIN orders : Fill(i)) \/ NextPhase
           \/ UNCHANGED vars
  BY <1>2, <1>4 DEF Checkpoint, Fill, NextPhase, desk, clock, vars
<1>5. CASE Crash
  <2>1. \A t \in Tasks : task'[t].pc = "idle"
    BY <1>5 DEF Crash, Idle
  <2>2. OneRun'
    BY <1>0, <1>5 DEF OneRun, Active, Crash
  <2>3. QED
    BY <1>0, <1>1, <1>5, <2>1, <2>2 DEF Crash
<1>6. CASE Recover
  <2>1. \A t \in Tasks : task'[t].pc = "idle"
    BY <1>6 DEF Recover, TurnInv, Quiet, At
  <2>2. PICK failed \in SUBSET {r \in Runs : Active(r)} :
          /\ runs' = [r \in Runs |-> IF r \in failed THEN [runs[r] EXCEPT !.status = "stopped"]
                                     ELSE runs[r]]
          /\ row' = IF failed = {} THEN row ELSE [row EXCEPT !.run = NONE]
    BY <1>6 DEF Recover
  <2>3. CASE failed = {}
    <3>1. row' = row /\ runs' = runs
      BY <1>0, <2>2, <2>3
    <3>2. QED
      BY <1>0, <1>1, <2>1, <3>1 DEF OneRun, Active
  <2>4. CASE failed # {}
    <3>1. row'.run = NONE /\ row'.locked = row.locked
      BY <1>0, <2>2, <2>4 DEF RowType
    <3>2. ASSUME NEW r \in Runs PROVE ~Active(r)'
      <4>1. CASE r \in failed
        BY <1>0, <2>2, <4>1 DEF Active
      <4>2. CASE r \notin failed
        <5>1. PICK q \in failed : TRUE
          BY <2>4
        <5>2. ~Active(r)
          BY <1>0, <4>2, <5>1
        <5>3. QED
          BY <2>2, <4>2, <5>2 DEF Active
      <4>3. QED
        BY <4>1, <4>2
    <3>3. OneRun'
      BY <3>1, <3>2, RunsAssumption DEF OneRun
    <3>4. QED
      BY <1>1, <2>1, <3>1, <3>3
  <2>5. QED
    BY <2>3, <2>4
<1>7. QED
  BY <1>3, <1>4, <1>5, <1>6

LEMMA TurnNext ==
  ASSUME Serial, TurnInv, [Next]_vars
  PROVE  TurnInv'
<1>0. EntryInv'
  BY EntryNext DEF TurnInv
<1>1. ASSUME NEW t \in Tasks, TaskStep(t) PROVE TurnInv'
  BY <1>0, <1>1, TurnOrder, TurnSquare, TurnRow DEF TaskStep
<1>2. QED
  BY <1>0, <1>1, TurnRequest, TurnWorld DEF Next

LEMMA TurnInit ==
  ASSUME Init
  PROVE  TurnInv
<1>1. EntryInv
  BY EntryInit
<1>2. OneTask /\ Quiet /\ OneRun
  BY RunsAssumption DEF Init, OneTask, Quiet, At, OneRun, Active, Idle
<1>3. \A t \in Tasks : Turn(task[t])
  BY IdleTurn DEF Init
<1>4. QED
  BY <1>1, <1>2, <1>3 DEF Init, TurnInv

\* The strategy of a locked webhook does not run, across crashes, when requests do
\* not overlap: what kill_strategy locks it has squared, handle_webhook refuses
\* every signal until unlock_webhook, and recovery starts no run.
THEOREM LockedMeansStopped ==
  ASSUME Serial
  PROVE  Spec => []LockedDeskIsStopped
<1>1. TurnInv => LockedDeskIsStopped
  BY DEF TurnInv, LockedDeskIsStopped
<1>2. Init => TurnInv
  BY TurnInit
<1>3. TurnInv /\ [Next]_vars => TurnInv'
  BY TurnNext
<1>4. QED
  BY <1>1, <1>2, <1>3, PTL DEF Spec

-----------------------------------------------------------------------------
(* What the run state shows is what the venue holds *)

\* The side the run state shows of a leg.
Shown(r, l) == IF state[r] = NONE THEN "flat" ELSE state[r].side[l]

\* What becomes of the leg of the order in hand, now that the venue has answered.
Told(x) ==
  IF orders[x.nr].at = "refused" THEN x.copy.side[x.leg]
  ELSE IF x.act \in Entries THEN SideOf(x.act) ELSE "flat"

InHand(x, r, l) == x.pc \in SentPCs /\ x.run = r /\ x.leg = l

\* The kill switch has withdrawn orders and is about to end the run.
Killing(x) == x.by = "kill" /\ x.pc \notin {"idle", "kill"}

LegIs(x, r, l, m) ==
  \/ Killing(x) /\ Disturbed(r, l)
  \/ Exposure(r, l, m) = Lot(IF InHand(x, r, l) THEN Told(x) ELSE Shown(r, l))

RunIs(x, r) ==
  /\ runs[r].status = "unborn" => state[r] = NONE /\ \A i \in DOMAIN orders : orders[i].run # r
  /\ runs[r].status = "active" =>
       /\ runs[r].mode \in Modes
       /\ \A l \in Legs : Shown(r, l) # "flat" => Admits(row.direction, ExitOf(Shown(r, l)))
       /\ \A l \in Legs, m \in Modes : LegIs(x, r, l, m)
  /\ runs[r].status = "stopped" =>
       \A l \in Legs, m \in Modes : Disturbed(r, l) \/ Exposure(r, l, m) = 0

RunsMatch(x) == \A r \in Runs : RunIs(x, r)

\* What a task knows of its run is still so.
Knows(x) ==
  /\ x.pc \in OrderPCs => x.mode \in Modes
  /\ x.pc \in OrderPCs \ {"load", "gate"} /\ x.act \in Entries => Admits(row.direction, x.act)
  /\ x.pc \in CopyPCs =>
       \A l \in Legs : (x.pc # "store" \/ l # x.leg) => x.copy.side[l] = Shown(x.run, l)
  /\ x.pc \in SentPCs => x.copy.side[x.leg] = IF x.act \in Entries THEN "flat" ELSE SideOf(x.act)
  /\ x.pc \in {"reconcile", "book", "store"} /\ x.act \notin Entries => orders[x.nr].at # "refused"
  /\ x.pc = "fail" => Disturbed(x.run, x.leg)

\* What a square knows: the legs still to exit are as listed, the others are flat
\* or their exit was refused.
Squaring(x) ==
  x.by # "signal" /\ x.pc \in OrderPCs \cup {"next"} =>
    /\ \A l \in x.todo : x.copy.side[l] = Shown(x.run, l) /\ Shown(x.run, l) # "flat"
    /\ x.pc # "next" => x.leg \notin x.todo
    /\ x.pc \in {"gate", "look", "act"} => Shown(x.run, x.leg) = SideOf(x.act)
    /\ \A l \in Legs \ x.todo :
         x.pc = "next" \/ l # x.leg => Shown(x.run, l) = "flat" \/ Disturbed(x.run, l)

Desk(x) == RunsMatch(x) /\ Knows(x) /\ Squaring(x)

\* Before the first crash, for the task under way and, when there is none, for any.
DeskInv ==
  crashes = 0 =>
    /\ up
    /\ \A t \in Tasks : (\A u \in Tasks : u # t => At(u, "idle")) => Desk(task[t])

-----------------------------------------------------------------------------
(* Exposure *)

LEMMA LotInt == \A side : Lot(side) \in Int
  BY DEF Lot

\* The summands of an exposure are numbers.
LEMMA PartInt ==
  ASSUME NEW o, NEW r, NEW l, NEW m
  PROVE  Part(o, r, l, m) \in Int
<1>1. Lot(o.side) \in Int
  BY LotInt
<1>2. QED
  BY <1>1 DEF Part

\* A step that changes no summand leaves the exposure.
LEMMA ExposureStays ==
  ASSUME NEW r, NEW l, NEW m, DOMAIN orders' = DOMAIN orders,
         \A i \in DOMAIN orders : Part(orders'[i], r, l, m) = Part(orders[i], r, l, m)
  PROVE  Exposure(r, l, m)' = Exposure(r, l, m)
<1>1. [i \in DOMAIN orders' |-> Part(orders'[i], r, l, m)] = [i \in DOMAIN orders |-> Part(orders[i], r, l, m)]
  OBVIOUS
<1>2. QED
  BY <1>1 DEF Exposure

\* A new order adds its part.
LEMMA ExposureGrows ==
  ASSUME NEW r, NEW l, NEW m, NEW o, NEW T, orders \in Seq(T), orders' = Append(orders, o)
  PROVE  Exposure(r, l, m)' = Exposure(r, l, m) + Part(o, r, l, m)
<1>. DEFINE n == Len(orders)
            S == 1..(n + 1)
            h == [i \in S |-> Part(orders'[i], r, l, m)]
            g == [i \in S |-> IF i = n + 1 THEN 0 ELSE h[i]]
            f == [i \in 1..n |-> g[i]]
<1>1. n \in Nat /\ DOMAIN orders = 1..n /\ DOMAIN orders' = S /\ IsFiniteSet(S)
  BY FS_Interval
<1>2. orders'[n + 1] = o /\ \A i \in 1..n : orders'[i] = orders[i]
  BY <1>1
<1>3. h \in [S -> Int] /\ g \in [S -> Int] /\ n + 1 \in S /\ 1..n \in SUBSET S
  BY <1>1, PartInt
<1>4. h[n + 1] = Part(o, r, l, m) /\ g[n + 1] = 0 /\ \A i \in S \ {n + 1} : g[i] = h[i]
  BY <1>1, <1>2
<1>5. f = [i \in DOMAIN orders |-> Part(orders[i], r, l, m)]
  BY <1>1, <1>2
<1>6. SumFunction(h) = Exposure(r, l, m)' /\ SumFunction(f) = Exposure(r, l, m)
  BY <1>1, <1>5 DEF Exposure
<1>7. \A i \in S \ 1..n : g[i] = 0
  BY <1>1
<1>. HIDE DEF h, g, S, n
<1>8. SumFunction(g) = SumFunction(h) - h[n + 1] + g[n + 1]
  <2>. DEFINE e == n + 1
  <2>1. e \in S /\ \A i \in S \ {e} : g[i] = h[i]
    BY <1>3, <1>4
  <2>. HIDE DEF e
  <2>2. SumFunction(g) = SumFunction(h) - h[e] + g[e]
    BY <1>1, <1>3, <2>1, SumUpdate
  <2>3. QED
    BY <2>2 DEF e
<1>9. SumFunction(g) = SumFunction(f)
  BY <1>1, <1>3, <1>7, SumWithin
<1>10. SumFunction(h) \in Int
  BY <1>1, <1>3, SumInt
<1>11. Part(o, r, l, m) \in Int
  BY PartInt
<1>12. SumFunction(f) = SumFunction(h) - Part(o, r, l, m) + 0
  BY <1>4, <1>8, <1>9
<1>13. QED
  BY <1>6, <1>10, <1>11, <1>12

\* A run without orders holds nothing.
LEMMA ExposureNone ==
  ASSUME NEW r, NEW l, NEW m, NEW T, orders \in Seq(T), \A i \in DOMAIN orders : orders[i].run # r
  PROVE  Exposure(r, l, m) = 0
<1>. DEFINE h == [i \in DOMAIN orders |-> Part(orders[i], r, l, m)]
<1>1. IsFiniteSet(DOMAIN orders)
  BY FS_Interval
<1>2. DOMAIN h = DOMAIN orders /\ \A i \in DOMAIN orders : h[i] = 0
  BY DEF Part
<1>. HIDE DEF h
<1>3. SumFunction(h) = 0
  BY <1>1, <1>2, SumZero
<1>4. QED
  BY <1>3 DEF Exposure, h

-----------------------------------------------------------------------------
(* Steps of one task, before the first crash *)

LEMMA IdleDesk == \A x, z : x.pc = "idle" /\ z.pc = "idle" /\ Desk(x) => Desk(z)
<1>1. ASSUME NEW x, NEW z, x.pc = "idle", z.pc = "idle", Desk(x) PROVE Desk(z)
  <2>1. ASSUME NEW r, NEW l, NEW m PROVE LegIs(x, r, l, m) <=> LegIs(z, r, l, m)
    BY <1>1 DEF LegIs, Killing, InHand, SentPCs
  <2>2. RunsMatch(z)
    BY <1>1, <2>1 DEF Desk, RunsMatch, RunIs
  <2>3. Knows(z) /\ Squaring(z)
    BY <1>1 DEF Knows, Squaring, OrderPCs, CopyPCs, SentPCs
  <2>4. QED
    BY <2>2, <2>3 DEF Desk
<1>2. QED
  BY <1>1

LEMMA IdleDeskNext == (\A x, z : x.pc = "idle" /\ z.pc = "idle" /\ Desk(x) => Desk(z))'
  BY IdleDesk, PTL

\* What the invariants say of the task under way.
LEMMA DeskParts ==
  ASSUME TurnInv, DeskInv, crashes = 0, NEW t \in Tasks, ~At(t, "idle")
  PROVE  /\ Desk(task[t]) /\ up /\ task[t] \in TaskType /\ Placed(task[t]) /\ Turn(task[t])
         /\ \A u \in Tasks : u # t => At(u, "idle")
         /\ Ready(task[t], orders)
<1>1. up /\ \A u \in Tasks : u # t => At(u, "idle")
  BY OthersIdle
<1>2. Desk(task[t])
  BY <1>1 DEF DeskInv
<1>3. Ready(task[t], orders)
  BY DEF TurnInv, EntryInv, TasksReady
<1>4. QED
  BY <1>1, <1>2, <1>3, TurnParts

LEMMA DeskWrite ==
  ASSUME TurnInv, NEW t \in Tasks, NEW x, Become(t, x),
         \A u \in Tasks : u # t => At(u, "idle"), up', Desk(x)'
  PROVE  DeskInv'
<1>1. task'[t] = x /\ \A u \in Tasks : u # t => task'[u] = task[u]
  BY TurnParts, OthersStay
<1>2. ASSUME NEW u \in Tasks, \A v \in Tasks : v # u => task'[v].pc = "idle"
      PROVE  Desk(task[u])'
  <2>1. CASE u = t
    BY <1>1, <2>1
  <2>2. CASE u # t
    <3>1. x.pc = "idle" /\ task'[u].pc = "idle"
      BY <1>1, <1>2, <2>2 DEF At
    <3>2. PICK z : z = task'[u]
      OBVIOUS
    <3>3. Desk(z)'
      BY <3>1, <3>2, IdleDeskNext
    <3>4. QED
      BY <3>2, <3>3
  <2>3. QED
    BY <2>1, <2>2
<1>3. QED
  BY <1>2 DEF DeskInv, At

\* The runs of a step that begins and ends none.
LEMMA MatchStep ==
  ASSUME NEW x, NEW y, RunsMatch(y), UNCHANGED runs, Killing(y) => Killing(x),
         \A r \in Runs, l \in Legs : Disturbed(r, l) => Disturbed(r, l)',
         \A r \in Runs : runs[r].status = "unborn" /\ state[r] = NONE /\ (\A i \in DOMAIN orders : orders[i].run # r)
             => state'[r] = NONE /\ \A i \in DOMAIN orders' : orders'[i].run # r,
         \A r \in Runs, l \in Legs :
             runs[r].status = "active" /\ (Shown(r, l) # "flat" => Admits(row.direction, ExitOf(Shown(r, l))))
             => (Shown(r, l)' # "flat" => Admits(row'.direction, ExitOf(Shown(r, l)'))),
         \A r \in Runs, l \in Legs, m \in Modes :
             runs[r].status = "active" /\ runs[r].mode \in Modes
             /\ Exposure(r, l, m) = Lot(IF InHand(y, r, l) THEN Told(y) ELSE Shown(r, l))
             => \/ Killing(x) /\ Disturbed(r, l)'
                \/ Exposure(r, l, m)' = Lot(IF InHand(x, r, l) THEN Told(x)' ELSE Shown(r, l)'),
         \A r \in Runs, l \in Legs, m \in Modes :
             runs[r].status = "stopped" /\ Exposure(r, l, m) = 0 => Exposure(r, l, m)' = 0
  PROVE  RunsMatch(x)'
<1>1. SUFFICES ASSUME NEW r \in Runs PROVE RunIs(x, r)'
  BY DEF RunsMatch
<1>2. RunIs(y, r)
  BY DEF RunsMatch
<1>3. runs[r].status = "active" => \A l \in Legs, m \in Modes : LegIs(x, r, l, m)'
  BY <1>2 DEF RunIs, LegIs, Killing, InHand
<1>4. runs[r].status = "stopped" => \A l \in Legs, m \in Modes : Disturbed(r, l)' \/ Exposure(r, l, m)' = 0
  BY <1>2 DEF RunIs
<1>5. QED
  BY <1>2, <1>3, <1>4 DEF RunIs

\* The runs of a step of a task without an order in hand that leaves the run states
\* and the orders alone.
LEMMA MatchStill ==
  ASSUME NEW x, NEW y, RunsMatch(y), UNCHANGED <<runs, orders, state>>, row'.direction = row.direction,
         Killing(y) => Killing(x), x.pc \notin SentPCs, y.pc \notin SentPCs
  PROVE  RunsMatch(x)'
<1>1. \A r, l : Disturbed(r, l)' <=> Disturbed(r, l)
  BY DEF Disturbed
<1>2. \A r, l : Shown(r, l)' = Shown(r, l)
  BY DEF Shown
<1>3. \A r, l, m : Exposure(r, l, m)' = Exposure(r, l, m)
  BY DEF Exposure
<1>4. \A r, l : ~InHand(x, r, l) /\ ~InHand(y, r, l)
  BY DEF InHand
<1>5. QED
  BY <1>1, <1>2, <1>3, <1>4, MatchStep

\* A webhook is answered, or the square goes on.
LEMMA DeskFinish ==
  ASSUME TurnInv, DeskInv, crashes = 0, UNCHANGED <<crashes, up>>, NEW t \in Tasks,
         task[t].pc \in {"gate", "act", "store", "fail"}, Finish(t),
         \A x : x.pc \in {"idle", "next"} /\ (Killing(task[t]) => Killing(x)) => RunsMatch(x)',
         \A x : task[t].by # "signal" /\ x = [task[t] EXCEPT !.pc = "next"] => Squaring(x)'
  PROVE  DeskInv'
<1>0. ~At(t, "idle")
  BY DEF At
<1>1. task[t] \in TaskType /\ up /\ \A u \in Tasks : u # t => At(u, "idle")
  BY <1>0, DeskParts
<1>2. ASSUME NEW x, Become(t, x), x.pc \in {"idle", "next"}, Killing(task[t]) => Killing(x), Squaring(x)'
      PROVE  DeskInv'
  <2>1. Knows(x)'
    BY <1>2 DEF Knows, OrderPCs, CopyPCs, SentPCs
  <2>2. RunsMatch(x)'
    BY <1>2
  <2>3. Desk(x)'
    BY <1>2, <2>1, <2>2 DEF Desk
  <2>4. QED
    BY <1>1, <1>2, <2>3, DeskWrite
<1>3. CASE task[t].by = "signal"
  <2>1. Squaring(Idle)'
    BY DEF Squaring, Idle, OrderPCs
  <2>2. Idle.pc = "idle" /\ ~Killing(task[t])
    BY <1>3 DEF Idle, Killing
  <2>3. QED
    BY <1>2, <1>3, <2>1, <2>2 DEF Finish
<1>4. CASE task[t].by # "signal"
  <2>1. PICK x : x = [task[t] EXCEPT !.pc = "next"]
    OBVIOUS
  <2>2. x.pc = "next" /\ x.by = task[t].by
    BY <1>1, <2>1 DEF TaskType
  <2>3. Squaring(x)'
    BY <1>4, <2>1
  <2>4. Become(t, x)
    BY <1>4, <2>1 DEF Finish, Goto
  <2>5. QED
    BY <1>2, <2>2, <2>3, <2>4 DEF Killing
<1>5. QED
  BY <1>3, <1>4

\* A direction admits an order for its side.
LEMMA AdmitsSide ==
  ASSUME NEW d, NEW a, NEW b, SideOf(a) = SideOf(b), Admits(d, a)
  PROVE  Admits(d, b)
  BY DEF Admits

LEMMA ExitSide == \A side \in {"long", "short"} : SideOf(ExitOf(side)) = side /\ ExitOf(side) \notin Entries
  BY DEF SideOf, ExitOf, Entries

\* The run of a square is active.
LEMMA RunOfTask ==
  ASSUME TurnInv, NEW t \in Tasks, task[t].pc \in RunPCs \cup {"gate"}, task[t].pc # "clear",
         task[t].pc # "gate" \/ task[t].by # "signal"
  PROVE  task[t].run \in Runs /\ task[t].run = row.run /\ runs[task[t].run].status = "active"
<1>1. Turn(task[t]) /\ Placed(task[t])
  BY TurnParts
<1>2. task[t].run \in Runs /\ task[t].run = row.run
  BY <1>1 DEF Turn, Placed, OrderPCs, RunPCs
<1>3. QED
  BY <1>2 DEF TurnInv, OneRun, Active

\* The steps that leave run states and orders alone.
LEMMA DeskQuiet ==
  ASSUME TurnInv, DeskInv, crashes = 0, NEW t \in Tasks,
         \/ Load(t) \/ Refuse(t) \/ UseRun(t) \/ Look(t) \/ Decline(t) \/ ExitFailed(t)
         \/ BeginSquare(t) \/ ListOpen(t) \/ SquareLeg(t)
  PROVE  DeskInv'
<1>. DEFINE y == task[t]
<1>0. /\ ~At(t, "idle")
      /\ UNCHANGED <<row, runs, orders, state, up, crashes>>
  BY DEF Load, Refuse, UseRun, Look, Decline, ExitFailed, BeginSquare, ListOpen, SquareLeg, At, desk, clock
<1>1. /\ Desk(y) /\ up /\ y \in TaskType /\ Placed(y) /\ Turn(y)
      /\ \A u \in Tasks : u # t => At(u, "idle")
  BY <1>0, DeskParts
<1>2. y.pc \notin SentPCs
  BY DEF Load, Refuse, UseRun, Look, Decline, ExitFailed, BeginSquare, ListOpen, SquareLeg, At, SentPCs
<1>3. ASSUME NEW x, x.pc \notin SentPCs, Killing(y) => Killing(x) PROVE RunsMatch(x)'
  BY <1>0, <1>1, <1>2, <1>3, MatchStill DEF Desk
<1>4. ASSUME NEW x, Knows(x) PROVE Knows(x)'
  BY <1>0, <1>4 DEF Knows, Shown, Disturbed
<1>5. ASSUME NEW x, Squaring(x) PROVE Squaring(x)'
  BY <1>0, <1>5 DEF Squaring, Shown, Disturbed
<1>6. ASSUME NEW x, Become(t, x), x.pc \notin SentPCs, Killing(y) => Killing(x), Knows(x), Squaring(x)
      PROVE  DeskInv'
  <2>1. Desk(x)'
    BY <1>3, <1>4, <1>5, <1>6 DEF Desk
  <2>2. QED
    BY <1>0, <1>1, <1>6, <2>1, DeskWrite
<1>7. ASSUME y.pc \in {"gate", "act", "store", "fail"}, Finish(t),
             \A x : y.by # "signal" /\ x = [y EXCEPT !.pc = "next"] => Squaring(x)
      PROVE  DeskInv'
  <2>1. \A x : x.pc \in {"idle", "next"} /\ (Killing(y) => Killing(x)) => RunsMatch(x)'
    BY <1>3 DEF SentPCs
  <2>2. \A x : y.by # "signal" /\ x = [y EXCEPT !.pc = "next"] => Squaring(x)'
    BY <1>5, <1>7
  <2>3. QED
    BY <1>0, <1>7, <2>1, <2>2, DeskFinish
<1>8. ASSUME y.by # "signal", y.pc \in {"gate", "look", "act"}
      PROVE  /\ Shown(y.run, y.leg) = SideOf(y.act) /\ Admits(row.direction, y.act)
             /\ y.act \notin Entries /\ y.leg \in Legs
  <2>1. y.leg \in Legs /\ y.act \notin Entries
    BY <1>1, <1>8 DEF Placed, OrderPCs, Turn
  <2>2. Shown(y.run, y.leg) = SideOf(y.act)
    BY <1>1, <1>8 DEF Desk, Squaring, OrderPCs
  <2>3. SideOf(y.act) \in {"long", "short"}
    BY DEF SideOf
  <2>4. y.run \in Runs /\ runs[y.run].status = "active"
    BY <1>8, RunOfTask DEF RunPCs
  <2>5. Admits(row.direction, ExitOf(SideOf(y.act)))
    BY <1>1, <2>1, <2>2, <2>3, <2>4 DEF Desk, RunsMatch, RunIs
  <2>6. QED
    BY <2>1, <2>2, <2>3, <2>5, ExitSide, AdmitsSide
<1>10. CASE Load(t)
  <2>. DEFINE x == [y EXCEPT !.pc = "gate", !.seen = row]
  <2>1. x.pc = "gate" /\ x.by = y.by /\ x.mode = y.mode
    BY <1>1 DEF TaskType
  <2>2. y.pc = "load" /\ y.by = "signal"
    BY <1>1, <1>10 DEF Load, At, Placed
  <2>3. Knows(x) /\ Squaring(x) /\ x.pc \notin SentPCs /\ (Killing(y) => Killing(x))
    <3>. HIDE DEF x
    <3>1. y.mode \in Modes
      BY <1>1, <2>2 DEF Desk, Knows, OrderPCs
    <3>2. QED
      BY <2>1, <2>2, <3>1 DEF Knows, Squaring, OrderPCs, CopyPCs, SentPCs, Killing
  <2>4. QED
    BY <1>6, <1>10, <2>3 DEF Load
<1>11. CASE Refuse(t)
  <2>1. y.pc = "gate" /\ y.seen = row
    BY <1>1, <1>11 DEF Refuse, At, Turn
  <2>2. y.by = "signal"
    BY <1>8, <1>11, <2>1 DEF Refuse, GateRefuses
  <2>3. QED
    BY <1>7, <1>11, <2>1, <2>2 DEF Refuse
<1>12. CASE UseRun(t)
  <2>. DEFINE x == [y EXCEPT !.pc = "look", !.run = y.seen.run]
  <2>1. y.pc = "gate" /\ y.seen = row /\ Admits(row.direction, y.act)
    BY <1>1, <1>12 DEF UseRun, At, Turn, GateRefuses
  <2>2. /\ x.pc = "look" /\ x.by = y.by /\ x.mode = y.mode /\ x.act = y.act /\ x.run = row.run
        /\ x.leg = y.leg /\ x.todo = y.todo /\ x.copy = y.copy
    BY <1>1, <2>1 DEF TaskType
  <2>3. y.by # "signal" => y.run = row.run
    BY <1>1, <2>1 DEF Turn, RunPCs
  <2>4. y.mode \in Modes
    BY <1>1, <2>1 DEF Desk, Knows, OrderPCs
  <2>5. Knows(x) /\ x.pc \notin SentPCs /\ (Killing(y) => Killing(x))
    <3>. HIDE DEF x
    <3>1. QED
      BY <2>1, <2>2, <2>4 DEF Knows, OrderPCs, CopyPCs, SentPCs, Killing
  <2>6. Squaring(x)
    <3>1. CASE y.by = "signal"
      BY <2>2, <3>1 DEF Squaring
    <3>2. CASE y.by # "signal"
      <4>1. /\ \A l \in y.todo : y.copy.side[l] = Shown(y.run, l) /\ Shown(y.run, l) # "flat"
            /\ y.leg \notin y.todo
            /\ Shown(y.run, y.leg) = SideOf(y.act)
            /\ \A l \in Legs \ y.todo : l # y.leg => Shown(y.run, l) = "flat" \/ Disturbed(y.run, l)
        BY <1>1, <2>1, <3>2 DEF Desk, Squaring, OrderPCs
      <4>. HIDE DEF x
      <4>2. QED
        BY <2>2, <2>3, <3>2, <4>1 DEF Squaring
    <3>3. QED
      BY <3>1, <3>2
  <2>7. QED
    BY <1>6, <1>12, <2>5, <2>6 DEF UseRun
<1>13. CASE Look(t)
  <2>. DEFINE c == IF state[y.run] = NONE THEN FlatLegs ELSE state[y.run]
              x == [y EXCEPT !.pc = "act", !.copy = c]
  <2>1. y.pc = "look"
    BY <1>13 DEF Look, At
  <2>2. /\ x.pc = "act" /\ x.by = y.by /\ x.mode = y.mode /\ x.act = y.act /\ x.run = y.run
        /\ x.leg = y.leg /\ x.todo = y.todo /\ x.copy = c
    BY <1>1 DEF TaskType
  <2>3. \A l \in Legs : c.side[l] = Shown(y.run, l)
    BY DEF FlatLegs, Shown
  <2>4. y.mode \in Modes /\ (y.act \in Entries => Admits(row.direction, y.act)) /\ y.todo \subseteq Legs
    BY <1>1, <2>1 DEF Desk, Knows, OrderPCs, TaskType
  <2>5. Knows(x) /\ x.pc \notin SentPCs /\ (Killing(y) => Killing(x))
    <3>. HIDE DEF x, c
    <3>1. QED
      BY <2>1, <2>2, <2>3, <2>4 DEF Knows, OrderPCs, CopyPCs, SentPCs, Killing
  <2>6. Squaring(x)
    <3>1. CASE y.by = "signal"
      BY <2>2, <3>1 DEF Squaring
    <3>2. CASE y.by # "signal"
      <4>1. /\ \A l \in y.todo : Shown(y.run, l) # "flat"
            /\ y.leg \notin y.todo
            /\ Shown(y.run, y.leg) = SideOf(y.act)
            /\ \A l \in Legs \ y.todo : l # y.leg => Shown(y.run, l) = "flat" \/ Disturbed(y.run, l)
        BY <1>1, <2>1, <3>2 DEF Desk, Squaring, OrderPCs
      <4>2. \A l \in y.todo : c.side[l] = Shown(y.run, l)
        BY <2>3, <2>4
      <4>. HIDE DEF x, c
      <4>3. QED
        BY <2>2, <3>2, <4>1, <4>2 DEF Squaring
    <3>3. QED
      BY <3>1, <3>2
  <2>7. QED
    BY <1>6, <1>13, <2>5, <2>6 DEF Look
<1>14. CASE Decline(t)
  <2>1. y.pc = "act" /\ y.copy.side[y.leg] # SideOf(y.act)
    BY <1>14 DEF Decline, At, Found
  <2>2. y.by = "signal"
    <3>1. SUFFICES ASSUME y.by # "signal" PROVE FALSE
      OBVIOUS
    <3>2. y.leg \in Legs /\ Shown(y.run, y.leg) = SideOf(y.act)
      BY <1>8, <2>1, <3>1
    <3>3. y.copy.side[y.leg] = Shown(y.run, y.leg)
      BY <1>1, <2>1, <3>2 DEF Desk, Knows, CopyPCs
    <3>4. QED
      BY <2>1, <3>2, <3>3
  <2>3. QED
    BY <1>7, <1>14, <2>1, <2>2 DEF Decline
<1>15. CASE ExitFailed(t)
  <2>1. y.pc = "fail"
    BY <1>15 DEF ExitFailed, At
  <2>2. ASSUME NEW x, y.by # "signal", x = [y EXCEPT !.pc = "next"] PROVE Squaring(x)
    <3>1. /\ x.pc = "next" /\ x.by = y.by /\ x.run = y.run /\ x.todo = y.todo /\ x.copy = y.copy
      BY <1>1, <2>2 DEF TaskType
    <3>2. /\ \A l \in y.todo : y.copy.side[l] = Shown(y.run, l) /\ Shown(y.run, l) # "flat"
          /\ \A l \in Legs \ y.todo : l # y.leg => Shown(y.run, l) = "flat" \/ Disturbed(y.run, l)
      BY <1>1, <2>1, <2>2 DEF Desk, Squaring, OrderPCs
    <3>3. Disturbed(y.run, y.leg)
      BY <1>1, <2>1 DEF Desk, Knows
    <3>4. QED
      BY <3>1, <3>2, <3>3 DEF Squaring
  <2>3. QED
    BY <1>7, <1>15, <2>1, <2>2 DEF ExitFailed
<1>16. CASE BeginSquare(t)
  <2>1. y.pc = "square"
    BY <1>16 DEF BeginSquare, At
  <2>2. CASE Active(y.seen.run) \/ y.by = "kill"
    <3>. DEFINE x == [y EXCEPT !.pc = "list", !.run = y.seen.run]
    <3>1. x.pc = "list" /\ x.by = y.by
      BY <1>1 DEF TaskType
    <3>2. Knows(x) /\ Squaring(x) /\ x.pc \notin SentPCs /\ (Killing(y) => Killing(x))
      <4>. HIDE DEF x
      <4>1. QED
        BY <2>1, <3>1 DEF Knows, Squaring, OrderPCs, CopyPCs, SentPCs, Killing
    <3>3. QED
      BY <1>6, <1>16, <2>2, <3>2 DEF BeginSquare
  <2>3. CASE ~(Active(y.seen.run) \/ y.by = "kill")
    <3>1. Become(t, Idle)
      BY <1>16, <2>3 DEF BeginSquare, Squared
    <3>2. Knows(Idle) /\ Squaring(Idle) /\ Idle.pc \notin SentPCs /\ ~Killing(y)
      BY <2>3 DEF Knows, Squaring, OrderPCs, CopyPCs, SentPCs, Killing, Idle
    <3>3. QED
      BY <1>6, <3>1, <3>2
  <2>4. QED
    BY <2>2, <2>3
<1>17. CASE ListOpen(t)
  <2>. DEFINE s == state[y.run]
              c == IF s = NONE THEN FlatLegs ELSE s
              d == IF s = NONE THEN {} ELSE {l \in Legs : s.side[l] # "flat"}
              x == [y EXCEPT !.pc = "next", !.copy = c, !.todo = d]
  <2>1. y.pc = "list"
    BY <1>17 DEF ListOpen, At
  <2>2. x.pc = "next" /\ x.by = y.by /\ x.run = y.run /\ x.copy = c /\ x.todo = d
    BY <1>1 DEF TaskType
  <2>3. /\ \A l \in d : c.side[l] = Shown(y.run, l) /\ Shown(y.run, l) # "flat"
        /\ \A l \in Legs \ d : Shown(y.run, l) = "flat"
    BY DEF Shown
  <2>4. Knows(x) /\ Squaring(x) /\ x.pc \notin SentPCs /\ (Killing(y) => Killing(x))
    <3>. HIDE DEF x, c, d, s
    <3>1. QED
      BY <2>1, <2>2, <2>3 DEF Knows, Squaring, OrderPCs, CopyPCs, SentPCs, Killing
  <2>5. QED
    BY <1>6, <1>17, <2>4 DEF ListOpen
<1>18. CASE SquareLeg(t)
  <2>1. y.pc = "next" /\ y.by # "signal" /\ y.todo \subseteq Legs
    BY <1>1, <1>18 DEF SquareLeg, At, Turn, OrderPCs, TaskType
  <2>2. PICK l \in y.todo :
          Become(t, [y EXCEPT !.pc = "gate", !.leg = l, !.todo = @ \ {l},
                       !.act = ExitOf(y.copy.side[l]), !.mode = runs[y.run].mode])
    BY <1>18 DEF SquareLeg
  <2>. DEFINE x == [y EXCEPT !.pc = "gate", !.leg = l, !.todo = @ \ {l},
                      !.act = ExitOf(y.copy.side[l]), !.mode = runs[y.run].mode]
  <2>3. /\ x.pc = "gate" /\ x.by = y.by /\ x.mode = runs[y.run].mode /\ x.act = ExitOf(y.copy.side[l])
        /\ x.run = y.run /\ x.leg = l /\ x.todo = y.todo \ {l} /\ x.copy = y.copy
    BY <1>1 DEF TaskType
  <2>4. /\ \A k \in y.todo : y.copy.side[k] = Shown(y.run, k) /\ Shown(y.run, k) # "flat"
        /\ \A k \in Legs \ y.todo : Shown(y.run, k) = "flat" \/ Disturbed(y.run, k)
    BY <1>1, <2>1 DEF Desk, Squaring
  <2>5. y.copy.side[l] \in {"long", "short"}
    <3>1. y.copy.side[l] \in Sides
      BY <1>1, <2>1 DEF TaskType, StateType
    <3>2. QED
      BY <2>4, <3>1 DEF Sides
  <2>6. SideOf(x.act) = Shown(y.run, l) /\ x.act \notin Entries
    BY <2>3, <2>4, <2>5, ExitSide
  <2>7. runs[y.run].mode \in Modes
    <3>1. y.run \in Runs /\ runs[y.run].status = "active"
      BY <2>1, RunOfTask DEF RunPCs
    <3>2. QED
      BY <1>1, <3>1 DEF Desk, RunsMatch, RunIs
  <2>8. Knows(x) /\ Squaring(x) /\ x.pc \notin SentPCs /\ (Killing(y) => Killing(x))
    <3>. HIDE DEF x
    <3>1. Knows(x) /\ x.pc \notin SentPCs /\ (Killing(y) => Killing(x))
      BY <2>1, <2>3, <2>7 DEF Knows, OrderPCs, CopyPCs, SentPCs, Killing
    <3>2. Squaring(x)
      BY <2>3, <2>4, <2>6 DEF Squaring
    <3>3. QED
      BY <3>1, <3>2
  <2>9. QED
    BY <1>6, <2>2, <2>8
<1>19. QED
  BY <1>10, <1>11, <1>12, <1>13, <1>14, <1>15, <1>16, <1>17, <1>18

\* An order is sent: its leg is told what the venue answers.
LEMMA DeskDispatch ==
  ASSUME \A a, b \in Modes : a = b, TurnInv, DeskInv, crashes = 0, NEW t \in Tasks, Dispatch(t)
  PROVE  DeskInv'
<1>. DEFINE y == task[t]
<1>0. /\ ~At(t, "idle") /\ y.pc = "act"
      /\ UNCHANGED <<row, runs, state, up, crashes>>
  BY DEF Dispatch, At, desk, clock
<1>1. /\ Desk(y) /\ up /\ y \in TaskType /\ Placed(y) /\ Turn(y)
      /\ \A u \in Tasks : u # t => At(u, "idle")
  BY <1>0, DeskParts
<1>2. orders \in Seq(OrderType) /\ Len(orders) \in Nat /\ DOMAIN orders = 1..Len(orders)
  BY DEF TurnInv, EntryInv, TypeInv, TypeOK
<1>3. y.run \in Runs /\ y.leg \in Legs /\ y.mode \in Modes /\ runs[y.run].status = "active"
  BY <1>0, <1>1, RunOfTask DEF Placed, OrderPCs, RunPCs, Desk, Knows
<1>4. PICK o :
        /\ orders' = Append(orders, o)
        /\ o.run = y.run /\ o.leg = y.leg /\ o.side = SideOf(y.act) /\ o.entry = (y.act \in Entries)
        /\ o.mode = y.mode /\ o.at \in AllAnswers
  <2>1. PICK answer \in Answers :
          orders' = Append(orders,
                      [run |-> y.run, leg |-> y.leg, side |-> SideOf(y.act),
                       entry |-> Entering(t), mode |-> y.mode, at |-> answer, row |-> "none"])
    BY DEF Dispatch
  <2>2. QED
    BY <2>1, InputsAssumption DEF Entering
<1>5. PICK n : n = Len(orders) + 1
  OBVIOUS
<1>6. PICK x : x = [y EXCEPT !.pc = "record", !.nr = n]
  OBVIOUS
<1>7. /\ x.pc = "record" /\ x.nr = n /\ x.by = y.by /\ x.mode = y.mode /\ x.act = y.act /\ x.run = y.run
      /\ x.leg = y.leg /\ x.todo = y.todo /\ x.copy = y.copy
  BY <1>1, <1>6 DEF TaskType
<1>8. Become(t, x)
  BY <1>5, <1>6 DEF Dispatch
<1>9. orders'[n] = o /\ DOMAIN orders' = 1..n /\ \A i \in DOMAIN orders : i \in 1..n /\ orders'[i] = orders[i]
  BY <1>2, <1>4, <1>5
<1>10. \A r, l : Disturbed(r, l) => Disturbed(r, l)'
  BY <1>9 DEF Disturbed
<1>11. \A r, l : Shown(r, l)' = Shown(r, l)
  BY <1>0 DEF Shown
<1>12. \A r, l, m : Exposure(r, l, m)' = Exposure(r, l, m) + Part(o, r, l, m)
  BY <1>2, <1>4, ExposureGrows
<1>13. \A r, l, m : Exposure(r, l, m) = 0 /\ (r # y.run \/ l # y.leg) => Exposure(r, l, m)' = 0
  BY <1>4, <1>12 DEF Part
<1>14. y.copy.side[y.leg] = (IF y.act \in Entries THEN "flat" ELSE SideOf(y.act))
       /\ y.copy.side[y.leg] = Shown(y.run, y.leg)
  BY <1>0, <1>1, <1>3 DEF Dispatch, Found, Entering, Desk, Knows, CopyPCs
<1>15. ASSUME NEW r \in Runs, NEW l \in Legs, NEW m \in Modes,
              Exposure(r, l, m) = Lot(IF InHand(y, r, l) THEN Told(y) ELSE Shown(r, l))
       PROVE  Exposure(r, l, m)' = Lot(IF InHand(x, r, l) THEN Told(x)' ELSE Shown(r, l)')
  <2>1. Exposure(r, l, m) = Lot(Shown(r, l))
    BY <1>0, <1>15 DEF InHand, SentPCs
  <2>2. Lot(Shown(r, l)) \in Int
    BY LotInt
  <2>3. CASE r = y.run /\ l = y.leg
    <3>1. InHand(x, r, l)
      BY <1>7, <2>3 DEF InHand, SentPCs
    <3>2. m = o.mode
      BY <1>3, <1>4
    <3>3. Told(x)' = IF o.at = "refused" THEN y.copy.side[y.leg]
                     ELSE IF y.act \in Entries THEN SideOf(y.act) ELSE "flat"
      BY <1>7, <1>9 DEF Told
    <3>4. Exposure(r, l, m)' = Lot(Shown(r, l)) + Part(o, r, l, m)
      BY <1>12, <2>1
    <3>5. CASE o.at = "refused"
      <4>1. Part(o, r, l, m) = 0
        BY <3>5 DEF Part, Works
      <4>2. QED
        BY <1>14, <2>2, <2>3, <3>1, <3>3, <3>4, <3>5, <4>1
    <3>6. CASE o.at # "refused"
      <4>1. Works(o)
        BY <1>4, <3>6 DEF AllAnswers, Works
      <4>2. Part(o, r, l, m) = IF o.entry THEN Lot(o.side) ELSE -Lot(o.side)
        BY <1>4, <2>3, <3>2, <4>1 DEF Part
      <4>3. CASE y.act \in Entries
        <5>1. Part(o, r, l, m) = Lot(SideOf(y.act)) /\ Shown(r, l) = "flat" /\ Told(x)' = SideOf(y.act)
          BY <1>4, <1>14, <2>3, <3>3, <3>6, <4>2, <4>3
        <5>2. Lot("flat") = 0 /\ Lot(SideOf(y.act)) \in Int
          BY LotInt DEF Lot
        <5>3. QED
          BY <3>1, <3>4, <5>1, <5>2
      <4>4. CASE y.act \notin Entries
        <5>1. Part(o, r, l, m) = -Lot(SideOf(y.act)) /\ Shown(r, l) = SideOf(y.act) /\ Told(x)' = "flat"
          BY <1>4, <1>14, <2>3, <3>3, <3>6, <4>2, <4>4
        <5>2. Lot("flat") = 0 /\ Lot(SideOf(y.act)) \in Int
          BY LotInt DEF Lot
        <5>3. QED
          BY <3>1, <3>4, <5>1, <5>2
      <4>5. QED
        BY <4>3, <4>4
    <3>7. QED
      BY <3>5, <3>6
  <2>4. CASE ~(r = y.run /\ l = y.leg)
    <3>1. Part(o, r, l, m) = 0 /\ ~InHand(x, r, l)
      BY <1>4, <1>7, <2>4 DEF Part, InHand
    <3>2. Exposure(r, l, m)' = Lot(Shown(r, l)) + 0
      BY <1>12, <2>1, <3>1
    <3>3. QED
      BY <1>11, <2>2, <3>1, <3>2
  <2>5. QED
    BY <2>3, <2>4
<1>16. RunsMatch(x)'
  <2>1. \A r \in Runs : runs[r].status = "unborn" /\ (\A i \in DOMAIN orders : orders[i].run # r)
          => \A i \in DOMAIN orders' : orders'[i].run # r
    <3>1. SUFFICES ASSUME NEW r \in Runs, runs[r].status = "unborn",
                          \A i \in DOMAIN orders : orders[i].run # r,
                          NEW i \in DOMAIN orders'
                   PROVE  orders'[i].run # r
      OBVIOUS
    <3>2. r # y.run
      BY <1>3, <3>1
    <3>3. CASE i = n
      BY <1>4, <1>9, <3>2, <3>3
    <3>4. CASE i # n
      <4>1. i \in DOMAIN orders
        BY <1>2, <1>5, <1>9, <3>4
      <4>2. QED
        BY <1>9, <3>1, <4>1
    <3>5. QED
      BY <3>3, <3>4
  <2>2. Killing(y) => Killing(x)
    BY <1>7 DEF Killing
  <2>3. \A r \in Runs, l \in Legs, m \in Modes :
          runs[r].status = "stopped" /\ Exposure(r, l, m) = 0 => Exposure(r, l, m)' = 0
    BY <1>3, <1>13
  <2>4. RunsMatch(y)
    BY <1>1 DEF Desk
  <2>5. QED
    BY <1>0, <1>10, <1>11, <1>15, <2>1, <2>2, <2>3, <2>4, MatchStep
<1>17. Knows(x)'
  <2>1. y.mode \in Modes /\ (y.act \in Entries => Admits(row.direction, y.act))
        /\ \A l \in Legs : y.copy.side[l] = Shown(y.run, l)
    BY <1>0, <1>1 DEF Desk, Knows, OrderPCs, CopyPCs
  <2>2. QED
    BY <1>0, <1>7, <1>11, <1>14, <2>1 DEF Knows
<1>18. Squaring(x)'
  <2>1. Squaring(y)
    BY <1>1 DEF Desk
  <2>2. y.by # "signal" =>
          /\ \A l \in y.todo : y.copy.side[l] = Shown(y.run, l) /\ Shown(y.run, l) # "flat"
          /\ y.leg \notin y.todo
          /\ \A l \in Legs \ y.todo : l # y.leg => Shown(y.run, l) = "flat" \/ Disturbed(y.run, l)
    BY <1>0, <2>1 DEF Squaring, OrderPCs
  <2>3. QED
    BY <1>7, <1>10, <1>11, <2>2 DEF Squaring
<1>19. Desk(x)'
  BY <1>16, <1>17, <1>18 DEF Desk
<1>20. QED
  BY <1>0, <1>1, <1>8, <1>19, DeskWrite

\* A step that changes no answer of the venue, but for orders at rest that are filled.
LEMMA SameAnswers ==
  ASSUME DOMAIN orders' = DOMAIN orders,
         \A i \in DOMAIN orders :
           /\ orders'[i].run = orders[i].run /\ orders'[i].leg = orders[i].leg
           /\ orders'[i].side = orders[i].side /\ orders'[i].entry = orders[i].entry
           /\ orders'[i].mode = orders[i].mode
           /\ \/ orders'[i].at = orders[i].at
              \/ orders[i].at = "resting" /\ orders'[i].at = "filled"
  PROVE  /\ \A r, l : Disturbed(r, l)' <=> Disturbed(r, l)
         /\ \A r, l, m : Exposure(r, l, m)' = Exposure(r, l, m)
         /\ \A r : (\A i \in DOMAIN orders : orders[i].run # r) => \A i \in DOMAIN orders' : orders'[i].run # r
         /\ \A i \in DOMAIN orders : orders'[i].at = "refused" <=> orders[i].at = "refused"
<1>1. \A r, l : Disturbed(r, l)' <=> Disturbed(r, l)
  BY DEF Disturbed
<1>2. ASSUME NEW r, NEW l, NEW m PROVE Exposure(r, l, m)' = Exposure(r, l, m)
  <2>1. \A i \in DOMAIN orders : Works(orders'[i]) <=> Works(orders[i])
    BY DEF Works
  <2>2. \A i \in DOMAIN orders : Part(orders'[i], r, l, m) = Part(orders[i], r, l, m)
    BY <2>1 DEF Part
  <2>3. QED
    BY <2>2, ExposureStays
<1>3. QED
  BY <1>1, <1>2

\* The row of the order in hand is written.
LEMMA RowWritten ==
  ASSUME TurnInv, NEW t \in Tasks, task[t].pc \in SentPCs, NEW f,
         orders' = [orders EXCEPT ![task[t].nr].row = f]
  PROVE  /\ DOMAIN orders' = DOMAIN orders
         /\ \A i \in DOMAIN orders :
              /\ orders'[i].run = orders[i].run /\ orders'[i].leg = orders[i].leg
              /\ orders'[i].side = orders[i].side /\ orders'[i].entry = orders[i].entry
              /\ orders'[i].mode = orders[i].mode /\ orders'[i].at = orders[i].at
<1>1. orders \in Seq(OrderType)
  BY DEF TurnInv, EntryInv, TypeInv, TypeOK
<1>2. \A i \in DOMAIN orders : orders[i] \in OrderType
  BY <1>1
<1>3. QED
  BY <1>2 DEF OrderType

\* The row of the order is inserted, and its fill looked up.
LEMMA DeskRecord ==
  ASSUME TurnInv, DeskInv, crashes = 0, NEW t \in Tasks, Record(t) \/ Reconcile(t)
  PROVE  DeskInv'
<1>. DEFINE y == task[t]
<1>0. /\ ~At(t, "idle") /\ y.pc \in {"record", "reconcile"}
      /\ UNCHANGED <<row, runs, state, up, crashes>>
  BY DEF Record, Reconcile, At, desk, clock
<1>1. /\ Desk(y) /\ up /\ y \in TaskType /\ Placed(y) /\ Turn(y) /\ Ready(y, orders)
      /\ \A u \in Tasks : u # t => At(u, "idle")
  BY <1>0, DeskParts
<1>2. y.pc \in SentPCs /\ y.nr \in DOMAIN orders
      /\ orders[y.nr].run = y.run /\ orders[y.nr].leg = y.leg /\ orders[y.nr].entry = (y.act \in Entries)
  BY <1>0, <1>1 DEF Ready, SentPCs
<1>3. PICK pc :
        /\ Goto(t, pc)
        /\ \/ pc = "fail" /\ y.act \notin Entries /\ orders[y.nr].at = "refused" /\ y.pc = "record"
           \/ pc = "book" /\ y.act \notin Entries /\ orders[y.nr].at # "refused"
           \/ pc \in {"reconcile", "store"} /\ (y.act \notin Entries => orders[y.nr].at # "refused")
  <2>1. CASE Record(t)
    BY <2>1 DEF Record, At, Sent, Entering
  <2>2. CASE Reconcile(t)
    <3>1. y.pc = "reconcile"
      BY <2>2 DEF Reconcile, At
    <3>2. y.act \notin Entries => orders[y.nr].at # "refused"
      BY <1>1, <3>1 DEF Desk, Knows
    <3>3. QED
      BY <2>2, <3>2 DEF Reconcile, Sent, Entering
  <2>3. QED
    BY <2>1, <2>2
<1>4. /\ DOMAIN orders' = DOMAIN orders
      /\ \A i \in DOMAIN orders :
           /\ orders'[i].run = orders[i].run /\ orders'[i].leg = orders[i].leg
           /\ orders'[i].side = orders[i].side /\ orders'[i].entry = orders[i].entry
           /\ orders'[i].mode = orders[i].mode /\ orders'[i].at = orders[i].at
  <2>1. CASE orders' = orders
    BY <2>1
  <2>2. ASSUME NEW f, orders' = [orders EXCEPT ![y.nr].row = f]
        PROVE  <1>4!:
    BY <1>2, <2>2, RowWritten
  <2>3. QED
    BY <2>1, <2>2 DEF Record, Reconcile
<1>5. /\ \A r, l : Disturbed(r, l)' <=> Disturbed(r, l)
      /\ \A r, l, m : Exposure(r, l, m)' = Exposure(r, l, m)
      /\ \A r : (\A i \in DOMAIN orders : orders[i].run # r) => \A i \in DOMAIN orders' : orders'[i].run # r
  BY <1>4, SameAnswers
<1>6. \A r, l : Shown(r, l)' = Shown(r, l)
  BY <1>0 DEF Shown
<1>7. PICK x : x = [y EXCEPT !.pc = pc]
  OBVIOUS
<1>8. /\ x.pc = pc /\ x.nr = y.nr /\ x.by = y.by /\ x.mode = y.mode /\ x.act = y.act /\ x.run = y.run
      /\ x.leg = y.leg /\ x.todo = y.todo /\ x.copy = y.copy /\ Become(t, x)
  BY <1>1, <1>3, <1>7 DEF TaskType, Goto
<1>9. Told(x)' = Told(y)
  BY <1>2, <1>4, <1>8 DEF Told
<1>10. y.run \in Runs /\ y.leg \in Legs
  BY <1>0, <1>1 DEF Placed, OrderPCs, RunPCs
<1>11. /\ y.mode \in Modes /\ (y.act \in Entries => Admits(row.direction, y.act))
       /\ \A l \in Legs : y.copy.side[l] = Shown(y.run, l)
       /\ y.copy.side[y.leg] = IF y.act \in Entries THEN "flat" ELSE SideOf(y.act)
  BY <1>0, <1>1 DEF Desk, Knows, OrderPCs, CopyPCs, SentPCs
<1>12. ASSUME NEW r \in Runs, NEW l \in Legs
       PROVE  (IF InHand(x, r, l) THEN Told(x)' ELSE Shown(r, l)')
                = (IF InHand(y, r, l) THEN Told(y) ELSE Shown(r, l))
  <2>1. CASE pc = "fail"
    <3>1. Told(y) = Shown(y.run, y.leg)
      BY <1>3, <1>10, <1>11, <2>1 DEF Told
    <3>2. QED
      BY <1>6, <1>8, <2>1, <3>1 DEF InHand, SentPCs
  <2>2. CASE pc # "fail"
    BY <1>2, <1>3, <1>6, <1>8, <1>9, <2>2 DEF InHand, SentPCs
  <2>3. QED
    BY <2>1, <2>2
<1>13. RunsMatch(x)'
  <2>1. Killing(y) => Killing(x)
    BY <1>3, <1>8 DEF Killing
  <2>2. RunsMatch(y)
    BY <1>1 DEF Desk
  <2>3. QED
    BY <1>0, <1>5, <1>6, <1>12, <2>1, <2>2, MatchStep
<1>14. Knows(x)'
  <2>1. pc = "fail" => Disturbed(y.run, y.leg)
    BY <1>2, <1>3 DEF Disturbed
  <2>2. orders'[y.nr].at = orders[y.nr].at
    BY <1>2, <1>4
  <2>3. QED
    BY <1>0, <1>3, <1>5, <1>6, <1>8, <1>11, <2>1, <2>2 DEF Knows
<1>15. Squaring(x)'
  <2>1. y.by # "signal" =>
          /\ \A l \in y.todo : y.copy.side[l] = Shown(y.run, l) /\ Shown(y.run, l) # "flat"
          /\ y.leg \notin y.todo
          /\ \A l \in Legs \ y.todo : l # y.leg => Shown(y.run, l) = "flat" \/ Disturbed(y.run, l)
    BY <1>0, <1>1 DEF Desk, Squaring, OrderPCs
  <2>2. QED
    BY <1>3, <1>5, <1>6, <1>8, <2>1 DEF Squaring
<1>16. Desk(x)'
  BY <1>13, <1>14, <1>15 DEF Desk
<1>17. QED
  BY <1>0, <1>1, <1>8, <1>16, DeskWrite

\* The P&L of a filled exit is booked.
LEMMA DeskBook ==
  ASSUME TurnInv, DeskInv, crashes = 0, NEW t \in Tasks, NEW y, y = task[t], Book(t)
  PROVE  DeskInv'
<1>0. /\ ~At(t, "idle") /\ y.pc = "book"
      /\ UNCHANGED <<row, runs, orders, up, crashes>>
  BY DEF Book, At, clock
<1>1. /\ Desk(y) /\ up /\ y \in TaskType /\ Placed(y) /\ Turn(y) /\ Ready(y, orders)
      /\ \A u \in Tasks : u # t => At(u, "idle")
  BY <1>0, DeskParts
<1>2. y.run \in Runs /\ y.leg \in Legs /\ runs[y.run].status = "active"
  BY <1>0, <1>1, RunOfTask DEF Placed, OrderPCs, RunPCs
<1>3. state \in [Runs -> StateType \cup {NONE}]
  BY DEF TurnInv, EntryInv, TypeInv, TypeOK
<1>4. /\ \A r \in Runs, l \in Legs : Shown(r, l)' # Shown(r, l) => r = y.run /\ l = y.leg /\ Shown(r, l)' = "flat"
      /\ \A r \in Runs : r # y.run => state'[r] = state[r]
  <2>1. CASE state[y.run] = NONE
    BY <2>1 DEF Book, Shown
  <2>2. CASE state[y.run] # NONE
    <3>1. /\ \A r \in Runs : r # y.run => state'[r] = state[r]
          /\ state'[y.run] = [side |-> [state[y.run].side EXCEPT ![y.leg] = "flat"],
                              booked |-> state[y.run].booked + 1]
      BY <1>2, <1>3, <2>2 DEF Book
    <3>2. state[y.run] \in StateType
      BY <1>2, <1>3, <2>2
    <3>3. state[y.run].side \in [Legs -> Sides]
      BY <3>2 DEF StateType
    <3>4. state'[y.run].side = [state[y.run].side EXCEPT ![y.leg] = "flat"]
      BY <3>1
    <3>5. \A l \in Legs : state'[y.run].side[l] = IF l = y.leg THEN "flat" ELSE state[y.run].side[l]
      BY <1>2, <3>3, <3>4
    <3>50. state'[y.run] # NONE
      <4>0. "flat" \in Sides
        BY DEF Sides
      <4>1. [state[y.run].side EXCEPT ![y.leg] = "flat"] \in [Legs -> Sides]
        BY <3>3, <4>0
      <4>2. state[y.run].booked \in Nat
        BY <3>2 DEF StateType
      <4>3. state[y.run].booked + 1 \in Nat
        BY <4>2
      <4>4. state'[y.run] \in StateType
        BY <3>1, <4>1, <4>3 DEF StateType
      <4>5. QED
        BY <4>4, StateAssumption
    <3>6. \A l \in Legs : Shown(y.run, l)' # Shown(y.run, l) => l = y.leg /\ Shown(y.run, l)' = "flat"
      BY <2>2, <3>5, <3>50 DEF Shown
    <3>7. QED
      BY <3>1, <3>6 DEF Shown
  <2>3. QED
    BY <2>1, <2>2
<1>5. PICK x : x = [y EXCEPT !.pc = "store"]
  OBVIOUS
<1>6. /\ x.pc = "store" /\ x.nr = y.nr /\ x.by = y.by /\ x.mode = y.mode /\ x.act = y.act /\ x.run = y.run
      /\ x.leg = y.leg /\ x.todo = y.todo /\ x.copy = y.copy /\ Become(t, x)
  BY <1>1, <1>5 DEF TaskType, Goto, Book
<1>7. /\ \A r, l : Disturbed(r, l)' <=> Disturbed(r, l)
      /\ \A r, l, m : Exposure(r, l, m)' = Exposure(r, l, m)
  BY <1>0 DEF Disturbed, Exposure
<1>8. /\ y.mode \in Modes /\ (y.act \in Entries => Admits(row.direction, y.act))
      /\ \A l \in Legs : y.copy.side[l] = Shown(y.run, l)
      /\ y.copy.side[y.leg] = IF y.act \in Entries THEN "flat" ELSE SideOf(y.act)
      /\ y.act \notin Entries => orders[y.nr].at # "refused"
  BY <1>0, <1>1 DEF Desk, Knows, OrderPCs, CopyPCs, SentPCs
<1>9. RunsMatch(x)'
  <2>1. Killing(y) => Killing(x)
    BY <1>0, <1>6 DEF Killing
  <2>2. RunsMatch(y)
    BY <1>1 DEF Desk
  <2>3. Told(x)' = Told(y)
    BY <1>0, <1>6 DEF Told
  <2>4. ASSUME NEW r \in Runs, NEW l \in Legs
        PROVE  (IF InHand(x, r, l) THEN Told(x)' ELSE Shown(r, l)')
                 = (IF InHand(y, r, l) THEN Told(y) ELSE Shown(r, l))
    BY <1>0, <1>4, <1>6, <2>3 DEF InHand, SentPCs
  <2>5. \A r \in Runs : runs[r].status = "unborn" /\ state[r] = NONE => state'[r] = NONE
    BY <1>2, <1>4
  <2>6. QED
    BY <1>0, <1>4, <1>7, <2>1, <2>2, <2>4, <2>5, MatchStep
<1>10. Knows(x)'
  <2>1. \A l \in Legs : l # y.leg => y.copy.side[l] = Shown(y.run, l)'
    BY <1>2, <1>4, <1>8
  <2>2. QED
    BY <1>0, <1>6, <1>8, <2>1 DEF Knows
<1>11. Squaring(x)'
  <2>1. y.by # "signal" =>
          /\ \A l \in y.todo : y.copy.side[l] = Shown(y.run, l) /\ Shown(y.run, l) # "flat"
          /\ y.leg \notin y.todo
          /\ \A l \in Legs \ y.todo : l # y.leg => Shown(y.run, l) = "flat" \/ Disturbed(y.run, l)
    BY <1>0, <1>1 DEF Desk, Squaring, OrderPCs
  <2>2. y.todo \subseteq Legs
    BY <1>1 DEF TaskType
  <2>3. y.by # "signal" => \A l \in y.todo : Shown(y.run, l)' = Shown(y.run, l)
    BY <1>2, <1>4, <2>1, <2>2
  <2>4. QED
    BY <1>2, <1>4, <1>6, <1>7, <2>1, <2>3 DEF Squaring
<1>12. Desk(x)'
  BY <1>9, <1>10, <1>11 DEF Desk
<1>13. QED
  BY <1>0, <1>1, <1>6, <1>12, DeskWrite

\* The copy is written back: as it was, or with what the venue told of the leg.
LEMMA DeskStore ==
  ASSUME TurnInv, DeskInv, crashes = 0, NEW t \in Tasks, NEW y, y = task[t], Store(t) \/ AlreadyThere(t)
  PROVE  DeskInv'
<1>0. /\ ~At(t, "idle") /\ y.pc \in {"act", "store"} /\ Finish(t)
      /\ UNCHANGED <<row, runs, orders, up, crashes>>
  BY DEF Store, AlreadyThere, At, clock
<1>1. /\ Desk(y) /\ up /\ y \in TaskType /\ Placed(y) /\ Turn(y) /\ Ready(y, orders)
      /\ \A u \in Tasks : u # t => At(u, "idle")
  BY <1>0, DeskParts
<1>2. y.run \in Runs /\ y.leg \in Legs /\ runs[y.run].status = "active"
  BY <1>0, <1>1, RunOfTask DEF Placed, OrderPCs, RunPCs
<1>3. state \in [Runs -> StateType \cup {NONE}] /\ y.copy.side \in [Legs -> Sides] /\ y.copy \in StateType
  BY <1>1 DEF TurnInv, EntryInv, TypeInv, TypeOK, TaskType, StateType
<1>4. /\ y.act \in Entries => Admits(row.direction, y.act)
      /\ \A l \in Legs : l # y.leg => y.copy.side[l] = Shown(y.run, l)
  BY <1>0, <1>1 DEF Desk, Knows, OrderPCs, CopyPCs
<1>5. PICK s \in StateType :
        /\ state' = [state EXCEPT ![y.run] = s]
        /\ \A l \in Legs : l # y.leg => s.side[l] = y.copy.side[l]
        /\ s.side[y.leg] = IF InHand(y, y.run, y.leg) THEN Told(y) ELSE Shown(y.run, y.leg)
        /\ s.side[y.leg] # "flat" => y.act \in Entries /\ s.side[y.leg] = SideOf(y.act)
  <2>1. CASE AlreadyThere(t)
    <3>1. y.pc = "act" /\ y.act \in Entries /\ y.copy.side[y.leg] = SideOf(y.act)
      BY <2>1 DEF AlreadyThere, At, Entering, Found
    <3>2. y.copy.side[y.leg] = Shown(y.run, y.leg)
      BY <1>1, <1>2, <3>1 DEF Desk, Knows, CopyPCs
    <3>3. ~InHand(y, y.run, y.leg)
      BY <3>1 DEF InHand, SentPCs
    <3>4. QED
      BY <1>3, <2>1, <3>1, <3>2, <3>3 DEF AlreadyThere
  <2>2. CASE Store(t)
    <3>. DEFINE side == IF Sent(t).at = "refused" \/ ~Entering(t) THEN "flat" ELSE SideOf(y.act)
    <3>1. state' = [state EXCEPT ![y.run] = [y.copy EXCEPT !.side[y.leg] = side]]
      BY <2>2 DEF Store
    <3>2. y.pc = "store"
      BY <2>2 DEF Store, At
    <3>3. /\ y.copy.side[y.leg] = IF y.act \in Entries THEN "flat" ELSE SideOf(y.act)
          /\ y.act \notin Entries => orders[y.nr].at # "refused"
      BY <1>1, <3>2 DEF Desk, Knows, SentPCs
    <3>4. InHand(y, y.run, y.leg) /\ side = Told(y)
      BY <3>2, <3>3 DEF InHand, SentPCs, Told, Sent, Entering
    <3>5. side \in Sides /\ (side # "flat" => y.act \in Entries /\ side = SideOf(y.act))
      BY DEF Sides, SideOf, Entering
    <3>. HIDE DEF side
    <3>6. PICK s : s = [y.copy EXCEPT !.side[y.leg] = side]
      OBVIOUS
    <3>7. s.side = [y.copy.side EXCEPT ![y.leg] = side] /\ s.booked = y.copy.booked
      BY <1>3, <3>6 DEF StateType
    <3>8. s.side[y.leg] = side /\ \A l \in Legs : l # y.leg => s.side[l] = y.copy.side[l]
      BY <1>2, <1>3, <3>7
    <3>9. s \in StateType
      BY <1>2, <1>3, <3>5, <3>6, <3>7 DEF StateType
    <3>10. QED
      BY <3>1, <3>4, <3>5, <3>6, <3>8, <3>9
  <2>3. QED
    BY <2>1, <2>2
<1>6. /\ \A r \in Runs : r # y.run => state'[r] = state[r] /\ \A l : Shown(r, l)' = Shown(r, l)
      /\ \A l : Shown(y.run, l)' = s.side[l]
  <2>1. state'[y.run] = s /\ s # NONE
    BY <1>2, <1>3, <1>5, StateAssumption
  <2>2. \A r \in Runs : r # y.run => state'[r] = state[r]
    BY <1>3, <1>5
  <2>3. QED
    BY <2>1, <2>2 DEF Shown
<1>7. /\ \A r, l : Disturbed(r, l)' <=> Disturbed(r, l)
      /\ \A r, l, m : Exposure(r, l, m)' = Exposure(r, l, m)
  BY <1>0 DEF Disturbed, Exposure
<1>8. ASSUME NEW r \in Runs, NEW l \in Legs
      PROVE  Shown(r, l)' = IF InHand(y, r, l) THEN Told(y) ELSE Shown(r, l)
  <2>1. CASE r # y.run
    BY <1>6, <2>1 DEF InHand
  <2>2. CASE r = y.run /\ l # y.leg
    BY <1>4, <1>5, <1>6, <2>2 DEF InHand
  <2>3. CASE r = y.run /\ l = y.leg
    BY <1>5, <1>6, <2>3
  <2>4. QED
    BY <2>1, <2>2, <2>3
<1>9. ASSUME NEW r \in Runs, NEW l \in Legs, Shown(r, l) # "flat" => Admits(row.direction, ExitOf(Shown(r, l)))
      PROVE  Shown(r, l)' # "flat" => Admits(row'.direction, ExitOf(Shown(r, l)'))
  <2>1. CASE r = y.run /\ l = y.leg
    <3>1. CASE s.side[l] = "flat"
      BY <1>6, <2>1, <3>1
    <3>2. CASE s.side[l] # "flat"
      <4>1. Admits(row.direction, y.act) /\ Shown(r, l)' = SideOf(y.act)
        BY <1>4, <1>5, <1>6, <2>1, <3>2
      <4>2. SideOf(y.act) \in {"long", "short"}
        BY DEF SideOf
      <4>3. SideOf(ExitOf(SideOf(y.act))) = SideOf(y.act)
        BY <4>2, ExitSide
      <4>4. Admits(row.direction, ExitOf(SideOf(y.act)))
        BY <4>1, <4>3, AdmitsSide
      <4>5. QED
        BY <1>0, <4>1, <4>4
    <3>3. QED
      BY <3>1, <3>2
  <2>2. CASE ~(r = y.run /\ l = y.leg)
    <3>1. Shown(r, l)' = Shown(r, l)
      BY <1>8, <2>2 DEF InHand
    <3>2. QED
      BY <1>0, <1>9, <3>1
  <2>3. QED
    BY <2>1, <2>2
<1>10. ASSUME NEW x, x.pc \in {"idle", "next"}, Killing(y) => Killing(x)
       PROVE  RunsMatch(x)'
  <2>1. RunsMatch(y)
    BY <1>1 DEF Desk
  <2>2. \A r \in Runs, l \in Legs : ~InHand(x, r, l)
    BY <1>10 DEF InHand, SentPCs
  <2>3. \A r \in Runs : runs[r].status = "unborn" /\ state[r] = NONE => state'[r] = NONE
    BY <1>2, <1>6
  <2>4. UNCHANGED <<runs, orders>>
    BY <1>0
  <2>5. QED
    BY <1>7, <1>8, <1>9, <1>10, <2>1, <2>2, <2>3, <2>4, MatchStep
<1>11. ASSUME NEW x, y.by # "signal", x = [y EXCEPT !.pc = "next"]
       PROVE  Squaring(x)'
  <2>1. y.act \notin Entries /\ y.pc = "store"
    <3>1. y.act \notin Entries
      BY <1>0, <1>1, <1>11 DEF Turn, OrderPCs
    <3>2. QED
      BY <3>1 DEF Store, AlreadyThere, At, Entering
  <2>2. /\ \A l \in y.todo : y.copy.side[l] = Shown(y.run, l) /\ Shown(y.run, l) # "flat"
        /\ y.leg \notin y.todo
        /\ \A l \in Legs \ y.todo : l # y.leg => Shown(y.run, l) = "flat" \/ Disturbed(y.run, l)
    BY <1>1, <1>11, <2>1 DEF Desk, Squaring, OrderPCs
  <2>3. x.pc = "next" /\ x.by = y.by /\ x.run = y.run /\ x.todo = y.todo /\ x.copy = y.copy
    BY <1>1, <1>11 DEF TaskType
  <2>4. \A l \in Legs : l # y.leg => Shown(y.run, l)' = y.copy.side[l]
    BY <1>5, <1>6
  <2>5. Shown(y.run, y.leg)' = "flat"
    BY <1>5, <1>6, <2>1
  <2>6. y.todo \subseteq Legs
    BY <1>1 DEF TaskType
  <2>7. \A l \in y.todo : y.copy.side[l] = Shown(y.run, l)' /\ Shown(y.run, l)' # "flat"
    BY <2>2, <2>4, <2>6
  <2>8. \A l \in Legs \ y.todo : Shown(y.run, l)' = "flat" \/ Disturbed(y.run, l)'
    BY <1>4, <1>7, <2>2, <2>4, <2>5
  <2>9. QED
    BY <2>3, <2>7, <2>8 DEF Squaring
<1>12. QED
  BY <1>0, <1>10, <1>11, DeskFinish

-----------------------------------------------------------------------------
(* Runs that begin and end, requests, the venue and the clock *)

\* While no run is active, what tasks do to none of them needs no more than this.
LEMMA MatchInactive ==
  ASSUME TurnInv, NEW x, NEW y, RunsMatch(y), row.run = NONE, UNCHANGED <<runs, orders>>,
         \A r \in Runs : runs[r].status # "stopped" => state'[r] = state[r]
  PROVE  RunsMatch(x)'
<1>1. \A r \in Runs : runs[r].status # "active"
  BY RunsAssumption DEF TurnInv, OneRun, Active
<1>2. \A r, l, m : (Disturbed(r, l)' <=> Disturbed(r, l)) /\ Exposure(r, l, m)' = Exposure(r, l, m)
  BY DEF Disturbed, Exposure
<1>3. ASSUME NEW r \in Runs PROVE RunIs(x, r)'
  <2>1. RunIs(y, r)
    BY DEF RunsMatch
  <2>2. QED
    BY <1>1, <1>2, <2>1 DEF RunIs
<1>4. QED
  BY <1>3 DEF RunsMatch

\* A signal opens a run, which has no orders yet.
LEMMA DeskOpen ==
  ASSUME TurnInv, DeskInv, crashes = 0, NEW t \in Tasks, NEW y, y = task[t], OpenRun(t)
  PROVE  DeskInv'
<1>0. /\ ~At(t, "idle") /\ y.pc = "gate" /\ y.act \in Entries
      /\ UNCHANGED <<state, orders, up, crashes>>
  BY DEF OpenRun, At, clock
<1>1. /\ Desk(y) /\ up /\ y \in TaskType /\ Placed(y) /\ Turn(y)
      /\ \A u \in Tasks : u # t => At(u, "idle")
  BY <1>0, DeskParts
<1>2. y.by = "signal" /\ y.seen = row /\ Admits(row.direction, y.act)
  BY <1>0, <1>1 DEF Turn, OrderPCs, OpenRun, GateRefuses
<1>3. PICK r \in Runs :
        /\ runs[r].status = "unborn"
        /\ runs' = [runs EXCEPT ![r] = [status |-> "active", mode |-> y.mode]]
        /\ row' = [row EXCEPT !.run = r]
        /\ Become(t, [y EXCEPT !.pc = "look", !.run = r, !.seen = row'])
  BY DEF OpenRun
<1>4. PICK x : x = [y EXCEPT !.pc = "look", !.run = r, !.seen = row']
  OBVIOUS
<1>5. x.pc = "look" /\ x.by = y.by /\ x.mode = y.mode /\ x.act = y.act /\ Become(t, x)
  BY <1>1, <1>3, <1>4 DEF TaskType
<1>6. row'.direction = row.direction /\ orders \in Seq(OrderType)
      /\ runs'[r] = [status |-> "active", mode |-> y.mode] /\ \A q \in Runs : q # r => runs'[q] = runs[q]
  BY <1>3 DEF TurnInv, EntryInv, TypeInv, TypeOK, RowType
<1>7. y.mode \in Modes
  BY <1>0, <1>1 DEF Desk, Knows, OrderPCs
<1>8. \A q, l, m : /\ Disturbed(q, l)' <=> Disturbed(q, l)
                   /\ Exposure(q, l, m)' = Exposure(q, l, m)
                   /\ Shown(q, l)' = Shown(q, l)
                   /\ ~InHand(x, q, l) /\ ~InHand(y, q, l)
  BY <1>0, <1>5 DEF Disturbed, Exposure, Shown, InHand, SentPCs
<1>9. ~Killing(y)
  BY <1>2 DEF Killing
<1>10. ASSUME NEW q \in Runs PROVE RunIs(x, q)'
  <2>0. RunIs(y, q)
    BY <1>1 DEF Desk, RunsMatch
  <2>1. CASE q = r
    <3>1. state[r] = NONE /\ \A i \in DOMAIN orders : orders[i].run # r
      BY <1>3, <2>0, <2>1 DEF RunIs
    <3>2. \A l, m : Exposure(r, l, m) = 0 /\ Shown(r, l) = "flat"
      BY <1>6, <3>1, ExposureNone DEF Shown
    <3>3. Lot("flat") = 0
      BY DEF Lot
    <3>4. \A l, m : LegIs(x, r, l, m)'
      BY <1>8, <3>2, <3>3 DEF LegIs, InHand
    <3>5. QED
      BY <1>6, <1>7, <1>8, <2>1, <3>2, <3>4 DEF RunIs
  <2>2. CASE q # r
    <3>1. \A l, m : LegIs(y, q, l, m) => LegIs(x, q, l, m)'
      BY <1>8, <1>9 DEF LegIs, InHand
    <3>2. QED
      BY <1>0, <1>6, <1>8, <2>0, <2>2, <3>1 DEF RunIs
  <2>3. QED
    BY <2>1, <2>2
<1>11. Knows(x)' /\ Squaring(x)'
  BY <1>2, <1>5, <1>6, <1>7 DEF Knows, Squaring, OrderPCs, CopyPCs, SentPCs
<1>12. Desk(x)'
  BY <1>10, <1>11 DEF Desk, RunsMatch
<1>13. QED
  BY <1>0, <1>1, <1>5, <1>12, DeskWrite

\* The run is closed, with every leg flat or its exit refused.
LEMMA DeskFinalize ==
  ASSUME TurnInv, DeskInv, crashes = 0, NEW t \in Tasks, NEW y, y = task[t], FinalizeRun(t)
  PROVE  DeskInv'
<1>0. /\ ~At(t, "idle") /\ y.pc = "next" /\ y.todo = {}
      /\ UNCHANGED <<state, orders, up, crashes>>
      /\ runs' = [runs EXCEPT ![y.run].status = "stopped"] /\ row' = [row EXCEPT !.run = NONE]
  BY DEF FinalizeRun, At, clock
<1>1. /\ Desk(y) /\ up /\ y \in TaskType /\ Placed(y) /\ Turn(y)
      /\ \A u \in Tasks : u # t => At(u, "idle")
  BY <1>0, DeskParts
<1>2. y.run \in Runs /\ runs[y.run].status = "active" /\ y.by # "signal"
  BY <1>0, <1>1, RunOfTask DEF RunPCs, Turn, OrderPCs
<1>3. PICK x : x = [y EXCEPT !.pc = "clear", !.seen = row']
  OBVIOUS
<1>4. x.pc = "clear" /\ x.by = y.by /\ Become(t, x)
  BY <1>1, <1>3 DEF TaskType, FinalizeRun
<1>5. row'.direction = row.direction /\ runs'[y.run].status = "stopped"
      /\ \A q \in Runs : q # y.run => runs'[q] = runs[q]
  BY <1>0, <1>2 DEF TurnInv, EntryInv, TypeInv, TypeOK, RowType
<1>6. \A q, l, m : /\ Disturbed(q, l)' <=> Disturbed(q, l)
                   /\ Exposure(q, l, m)' = Exposure(q, l, m)
                   /\ Shown(q, l)' = Shown(q, l)
                   /\ ~InHand(x, q, l) /\ ~InHand(y, q, l)
  BY <1>0, <1>4 DEF Disturbed, Exposure, Shown, InHand, SentPCs
<1>7. Killing(y) => Killing(x)
  BY <1>4 DEF Killing
<1>8. \A l \in Legs : Shown(y.run, l) = "flat" \/ Disturbed(y.run, l)
  BY <1>0, <1>1, <1>2 DEF Desk, Squaring
<1>9. ASSUME NEW q \in Runs PROVE RunIs(x, q)'
  <2>0. RunIs(y, q)
    BY <1>1 DEF Desk, RunsMatch
  <2>1. CASE q = y.run
    <3>1. \A l \in Legs, m \in Modes : LegIs(y, q, l, m)
      BY <1>2, <2>0, <2>1 DEF RunIs
    <3>2. Lot("flat") = 0
      BY DEF Lot
    <3>3. \A l \in Legs, m \in Modes : Disturbed(q, l) \/ Exposure(q, l, m) = 0
      BY <1>6, <1>8, <2>1, <3>1, <3>2 DEF LegIs
    <3>4. QED
      BY <1>5, <1>6, <2>1, <3>3 DEF RunIs
  <2>2. CASE q # y.run
    <3>1. \A l, m : LegIs(y, q, l, m) => LegIs(x, q, l, m)'
      BY <1>6, <1>7 DEF LegIs, InHand, Killing
    <3>2. QED
      BY <1>0, <1>5, <1>6, <2>0, <2>2, <3>1 DEF RunIs
  <2>3. QED
    BY <2>1, <2>2
<1>10. Knows(x)' /\ Squaring(x)'
  BY <1>4 DEF Knows, Squaring, OrderPCs, CopyPCs, SentPCs
<1>11. Desk(x)'
  BY <1>9, <1>10 DEF Desk, RunsMatch
<1>12. QED
  BY <1>0, <1>1, <1>4, <1>11, DeskWrite

\* The state of the closed run is dropped; the kill switch locks the webhook.
LEMMA DeskClose ==
  ASSUME TurnInv, DeskInv, crashes = 0, NEW t \in Tasks, NEW y, y = task[t],
         ClearState(t) \/ LockWebhook(t)
  PROVE  DeskInv'
<1>0. /\ ~At(t, "idle") /\ y.pc \in {"clear", "lock"}
      /\ UNCHANGED <<runs, orders, up, crashes>>
  BY DEF ClearState, LockWebhook, At, clock
<1>1. /\ Desk(y) /\ up /\ y \in TaskType /\ Placed(y) /\ Turn(y)
      /\ \A u \in Tasks : u # t => At(u, "idle")
  BY <1>0, DeskParts
<1>2. row.run = NONE
  BY <1>0, <1>1 DEF Turn
<1>3. \A r \in Runs : runs[r].status # "stopped" => state'[r] = state[r]
  <2>1. CASE ClearState(t)
    <3>1. y.pc = "clear" /\ y.run \in Runs /\ runs[y.run].status = "stopped"
      BY <1>1, <2>1 DEF ClearState, At, Placed, RunPCs, Turn
    <3>2. QED
      BY <2>1, <3>1 DEF ClearState, TurnInv, EntryInv, TypeInv, TypeOK
  <2>2. QED
    BY <2>1 DEF LockWebhook
<1>4. PICK x : Become(t, x) /\ x.pc \in {"idle", "lock"}
  <2>1. Idle.pc = "idle" /\ [y EXCEPT !.pc = "lock"].pc = "lock"
    BY <1>1 DEF Idle, TaskType
  <2>2. QED
    BY <2>1 DEF ClearState, LockWebhook, Squared, Goto
<1>5. RunsMatch(x)'
  BY <1>0, <1>1, <1>2, <1>3, MatchInactive DEF Desk
<1>6. Knows(x)' /\ Squaring(x)'
  BY <1>4 DEF Knows, Squaring, OrderPCs, CopyPCs, SentPCs
<1>7. Desk(x)'
  BY <1>5, <1>6 DEF Desk
<1>8. QED
  BY <1>0, <1>1, <1>4, <1>7, DeskWrite

\* The kill switch withdraws what is still at rest: those legs are disturbed.
LEMMA DeskCancel ==
  ASSUME TurnInv, DeskInv, crashes = 0, NEW t \in Tasks, NEW y, y = task[t], CancelPending(t)
  PROVE  DeskInv'
<1>0. /\ ~At(t, "idle") /\ y.pc = "kill"
      /\ UNCHANGED <<row, runs, state, up, crashes>>
  BY DEF CancelPending, At, clock
<1>1. /\ Desk(y) /\ up /\ y \in TaskType /\ Placed(y) /\ Turn(y)
      /\ \A u \in Tasks : u # t => At(u, "idle")
  BY <1>0, DeskParts
<1>2. y.seen = row
  BY <1>0, <1>1 DEF Turn
<1>3. \A o \in OrderType : LET c == [o EXCEPT !.at = "cancelled", !.row = "cancelled"]
                           IN  /\ c.run = o.run /\ c.leg = o.leg /\ c.side = o.side
                               /\ c.entry = o.entry /\ c.mode = o.mode /\ c.at = "cancelled"
  BY DEF OrderType
<1>4. \A i \in DOMAIN orders : orders[i] \in OrderType
  BY DEF TurnInv, EntryInv, TypeInv, TypeOK
<1>5. CASE Active(y.seen.run)
  <2>1. PICK gone \in SUBSET {i \in Pending(row.run) : orders[i].at = "resting"} :
          orders' = [i \in DOMAIN orders |->
                       IF i \in gone THEN [orders[i] EXCEPT !.at = "cancelled", !.row = "cancelled"]
                       ELSE orders[i]]
    BY <1>2, <1>5 DEF CancelPending
  <2>2. PICK x : x = [y EXCEPT !.pc = "square"]
    OBVIOUS
  <2>3. x.pc = "square" /\ x.by = y.by /\ Become(t, x)
    BY <1>1, <1>5, <2>2 DEF TaskType, CancelPending, Goto
  <2>4. gone \subseteq DOMAIN orders /\ \A i \in gone : orders[i].run = row.run /\ orders[i].at = "resting"
    BY <2>1 DEF Pending
  <2>5. /\ DOMAIN orders' = DOMAIN orders
        /\ \A i \in DOMAIN orders :
             /\ orders'[i].run = orders[i].run /\ orders'[i].leg = orders[i].leg
             /\ orders'[i].entry = orders[i].entry
             /\ i \notin gone => orders'[i] = orders[i]
             /\ i \in gone => orders'[i].at = "cancelled"
    BY <1>3, <1>4, <2>1
  <2>6. \A r, l : Disturbed(r, l) => Disturbed(r, l)'
    <3>1. \A i \in gone : orders[i].at # "cancelled" /\ orders[i].at # "refused"
      BY <2>4
    <3>2. QED
      BY <2>5, <3>1 DEF Disturbed
  <2>7. ASSUME NEW r, NEW l, NEW m, ~\E i \in gone : orders[i].run = r /\ orders[i].leg = l
        PROVE  Exposure(r, l, m)' = Exposure(r, l, m)
    <3>1. \A i \in DOMAIN orders : Part(orders'[i], r, l, m) = Part(orders[i], r, l, m)
      BY <2>5, <2>7 DEF Part
    <3>2. QED
      BY <2>5, <3>1, ExposureStays
  <2>8. \A r, l : (\E i \in gone : orders[i].run = r /\ orders[i].leg = l) => Disturbed(r, l)'
    BY <2>4, <2>5 DEF Disturbed
  <2>9. Killing(x) /\ ~Killing(y)
    BY <1>0, <1>1, <2>3 DEF Turn, Killing
  <2>10. \A r, l : Shown(r, l)' = Shown(r, l) /\ ~InHand(x, r, l) /\ ~InHand(y, r, l)
    BY <1>0, <2>3 DEF Shown, InHand, SentPCs
  <2>11. ASSUME NEW r, NEW l, NEW m,
                Exposure(r, l, m) = Lot(IF InHand(y, r, l) THEN Told(y) ELSE Shown(r, l))
         PROVE  \/ Killing(x) /\ Disturbed(r, l)'
                \/ Exposure(r, l, m)' = Lot(IF InHand(x, r, l) THEN Told(x)' ELSE Shown(r, l)')
    BY <2>7, <2>8, <2>9, <2>10, <2>11
  <2>12. ASSUME NEW r \in Runs, NEW l, NEW m, runs[r].status = "stopped"
         PROVE  Exposure(r, l, m)' = Exposure(r, l, m)
    <3>1. r # row.run
      BY <2>12 DEF TurnInv, OneRun, Active
    <3>2. QED
      BY <2>4, <2>7, <3>1
  <2>13. RunsMatch(x)'
    <3>1. RunsMatch(y)
      BY <1>1 DEF Desk
    <3>2. \A r : (\A i \in DOMAIN orders : orders[i].run # r) => \A i \in DOMAIN orders' : orders'[i].run # r
      BY <2>5
    <3>3. \A r \in Runs, l \in Legs, m \in Modes :
            runs[r].status = "stopped" /\ Exposure(r, l, m) = 0 => Exposure(r, l, m)' = 0
      BY <2>12
    <3>4. Killing(y) => Killing(x)
      BY <2>9
    <3>5. \A r \in Runs, l \in Legs, m \in Modes :
            Exposure(r, l, m) = Lot(IF InHand(y, r, l) THEN Told(y) ELSE Shown(r, l))
            => \/ Killing(x) /\ Disturbed(r, l)'
               \/ Exposure(r, l, m)' = Lot(IF InHand(x, r, l) THEN Told(x)' ELSE Shown(r, l)')
      BY <2>11
    <3>6. QED
      BY <1>0, <2>6, <2>10, <3>1, <3>2, <3>3, <3>4, <3>5, MatchStep
  <2>14. Knows(x)' /\ Squaring(x)'
    BY <2>3 DEF Knows, Squaring, OrderPCs, CopyPCs, SentPCs
  <2>15. Desk(x)'
    BY <2>13, <2>14 DEF Desk
  <2>16. QED
    BY <1>0, <1>1, <2>3, <2>15, DeskWrite
<1>6. CASE ~Active(y.seen.run)
  <2>1. row.run = NONE
    BY <1>2, <1>6 DEF TurnInv, OneRun, EntryInv, TypeInv, TypeOK, RowType
  <2>2. orders' = orders
    <3>1. orders' = [i \in DOMAIN orders |-> orders[i]]
      BY <1>6 DEF CancelPending
    <3>2. orders = [i \in DOMAIN orders |-> orders[i]]
      BY DEF TurnInv, EntryInv, TypeInv, TypeOK
    <3>3. QED
      BY <3>1, <3>2
  <2>3. PICK x : x = [y EXCEPT !.pc = "lock"]
    OBVIOUS
  <2>4. x.pc = "lock" /\ Become(t, x)
    BY <1>1, <1>6, <2>3 DEF TaskType, CancelPending, Goto
  <2>5. RunsMatch(x)'
    BY <1>0, <1>1, <2>1, <2>2, MatchInactive DEF Desk
  <2>6. Knows(x)' /\ Squaring(x)'
    BY <2>4 DEF Knows, Squaring, OrderPCs, CopyPCs, SentPCs
  <2>7. Desk(x)'
    BY <2>5, <2>6 DEF Desk
  <2>8. QED
    BY <1>0, <1>1, <2>4, <2>7, DeskWrite
<1>7. QED
  BY <1>5, <1>6

\* A request or the scheduler's job begins.
LEMMA DeskRequest ==
  ASSUME Serial, TurnInv, DeskInv, crashes = 0, NEW t \in Tasks, Request(t)
  PROVE  DeskInv'
<1>1. up /\ \A u \in Tasks : At(u, "idle")
  BY DEF Request, Receive, Call, MayStart, Quiet
<1>2. Desk(task[t]) /\ task[t].pc = "idle"
  BY <1>1 DEF DeskInv, At
<1>3. UNCHANGED <<row, runs, orders, state, up, crashes>>
  BY DEF Request, Receive, Call, desk, clock
<1>4. ASSUME NEW x, Become(t, x), x.pc \in {"load", "square", "kill"},
             x.pc = "load" => x.by = "signal" /\ x.mode \in Modes
      PROVE  DeskInv'
  <2>1. RunsMatch(x)'
    BY <1>2, <1>3, <1>4, MatchStill DEF Desk, Killing, SentPCs
  <2>2. Knows(x)' /\ Squaring(x)'
    BY <1>4 DEF Knows, Squaring, OrderPCs, CopyPCs, SentPCs
  <2>3. Desk(x)'
    BY <2>1, <2>2 DEF Desk
  <2>4. QED
    BY <1>1, <1>3, <1>4, <2>3, DeskWrite
<1>5. ASSUME NEW l \in Legs, NEW a \in Signals, NEW m \in Modes, Receive(t, l, a, m)
      PROVE  DeskInv'
  <2>. DEFINE x == [Idle EXCEPT !.pc = "load", !.leg = l, !.act = a, !.mode = m]
  <2>1. x.pc = "load" /\ x.by = "signal" /\ x.mode = m
    BY DEF Idle
  <2>2. QED
    BY <1>4, <1>5, <2>1 DEF Receive
<1>6. ASSUME NEW what \in {"square", "kill"}, Call(t, what)
      PROVE  DeskInv'
  <2>. DEFINE x == [Idle EXCEPT !.pc = what, !.by = what, !.seen = row]
  <2>1. x.pc = what
    BY DEF Idle
  <2>2. QED
    BY <1>4, <1>6, <2>1 DEF Call
<1>7. QED
  BY <1>5, <1>6 DEF Request

\* Nothing the invariant is about changes.
LEMMA DeskSame ==
  ASSUME DeskInv, UNCHANGED <<row, runs, orders, state, task, up, crashes>>
  PROVE  DeskInv'
<1>1. ASSUME NEW x, Desk(x) PROVE Desk(x)'
  <2>1. \A r, l, m : /\ Disturbed(r, l)' <=> Disturbed(r, l)
                     /\ Exposure(r, l, m)' = Exposure(r, l, m)
                     /\ Shown(r, l)' = Shown(r, l)
    BY DEF Disturbed, Exposure, Shown
  <2>2. Told(x)' = Told(x)
    BY DEF Told
  <2>3. \A r, l, m : LegIs(x, r, l, m)' <=> LegIs(x, r, l, m)
    BY <2>1, <2>2 DEF LegIs, InHand, Killing
  <2>4. RunsMatch(x)'
    BY <1>1, <2>1, <2>3 DEF Desk, RunsMatch, RunIs
  <2>5. Knows(x)'
    BY <1>1, <2>1 DEF Desk, Knows
  <2>6. Squaring(x)'
    BY <1>1, <2>1 DEF Desk, Squaring
  <2>7. QED
    BY <2>4, <2>5, <2>6 DEF Desk
<1>2. QED
  BY <1>1 DEF DeskInv, At

\* The scheduler's job, if the strategy runs.
LEMMA DeskFire ==
  ASSUME Serial, TurnInv, DeskInv, crashes = 0, FireAutoStop
  PROVE  DeskInv'
<1>1. up /\ \A u \in Tasks : At(u, "idle")
  BY DEF FireAutoStop, MayStart, Quiet
<1>2. Desk(task[Cron]) /\ task[Cron].pc = "idle"
  BY <1>1, TasksAssumption DEF DeskInv, At
<1>3. UNCHANGED <<row, runs, orders, state, up, crashes>>
  BY DEF FireAutoStop, desk
<1>4. CASE row.run = NONE
  BY <1>3, <1>4, DeskSame DEF FireAutoStop
<1>5. CASE row.run # NONE
  <2>1. PICK x : x = [Idle EXCEPT !.pc = "square", !.by = "square", !.seen = row]
    OBVIOUS
  <2>2. x.pc = "square" /\ Become(Cron, x)
    BY <1>5, <2>1 DEF Idle, FireAutoStop
  <2>3. RunsMatch(x)'
    BY <1>2, <1>3, <2>2, MatchStill DEF Desk, Killing, SentPCs
  <2>4. Knows(x)' /\ Squaring(x)'
    BY <2>2 DEF Knows, Squaring, OrderPCs, CopyPCs, SentPCs
  <2>5. Desk(x)'
    BY <2>3, <2>4 DEF Desk
  <2>6. QED
    BY <1>1, <1>3, <2>2, <2>5, TasksAssumption, DeskWrite
<1>6. QED
  BY <1>4, <1>5

\* The operator's edits, which wait for the task under way.
LEMMA DeskEdit ==
  ASSUME Serial, TurnInv, DeskInv, crashes = 0, Unlock \/ \E d \in Directions : EditDirection(d)
  PROVE  DeskInv'
<1>1. up /\ \A u \in Tasks : At(u, "idle")
  BY DEF Unlock, EditDirection, MayStart, Quiet
<1>2. UNCHANGED <<runs, orders, state, task, up, crashes>>
  BY DEF Unlock, EditDirection, clock
<1>3. ASSUME NEW x, x.pc = "idle", Desk(x) PROVE Desk(x)'
  <2>1. RunsMatch(x)'
    <3>1. CASE Unlock
      <4>1. row'.direction = row.direction
        BY <3>1 DEF Unlock, TurnInv, EntryInv, TypeInv, TypeOK, RowType
      <4>2. QED
        BY <1>2, <1>3, <4>1, MatchStill DEF Desk, SentPCs
    <3>2. CASE \E d \in Directions : EditDirection(d)
      BY <1>2, <1>3, <3>2, MatchInactive DEF Desk, EditDirection
    <3>3. QED
      BY <3>1, <3>2
  <2>2. Knows(x)' /\ Squaring(x)'
    BY <1>3 DEF Knows, Squaring, OrderPCs, CopyPCs, SentPCs
  <2>3. QED
    BY <2>1, <2>2 DEF Desk
<1>4. ASSUME NEW u \in Tasks PROVE Desk(task[u])'
  <2>1. PICK x : x = task[u]
    OBVIOUS
  <2>2. x.pc = "idle" /\ Desk(x)
    BY <1>1, <2>1 DEF DeskInv, At
  <2>3. Desk(x)' /\ x = task'[u]
    BY <1>2, <1>3, <2>1, <2>2
  <2>4. QED
    BY <2>3
<1>5. QED
  BY <1>1, <1>2, <1>4 DEF DeskInv

\* An order at rest is filled, at any time.
LEMMA DeskFill ==
  ASSUME TurnInv, DeskInv, crashes = 0, NEW i \in DOMAIN orders, Fill(i)
  PROVE  DeskInv'
<1>1. UNCHANGED <<row, runs, state, task, up, crashes>>
  BY DEF Fill, desk, clock
<1>2. \A j \in DOMAIN orders : orders[j] \in OrderType
  BY DEF TurnInv, EntryInv, TypeInv, TypeOK
<1>3. /\ DOMAIN orders' = DOMAIN orders
      /\ \A j \in DOMAIN orders :
           /\ orders'[j].run = orders[j].run /\ orders'[j].leg = orders[j].leg
           /\ orders'[j].side = orders[j].side /\ orders'[j].entry = orders[j].entry
           /\ orders'[j].mode = orders[j].mode
           /\ \/ orders'[j].at = orders[j].at
              \/ orders[j].at = "resting" /\ orders'[j].at = "filled"
  <2>1. orders[i].at = "resting" /\ orders' = [orders EXCEPT ![i].at = "filled"]
    BY DEF Fill
  <2>2. LET c == [orders[i] EXCEPT !.at = "filled"]
        IN  /\ c.run = orders[i].run /\ c.leg = orders[i].leg /\ c.side = orders[i].side
            /\ c.entry = orders[i].entry /\ c.mode = orders[i].mode /\ c.at = "filled"
    BY <1>2 DEF OrderType
  <2>3. QED
    BY <2>1, <2>2
<1>4. /\ \A r, l : Disturbed(r, l)' <=> Disturbed(r, l)
      /\ \A r, l, m : Exposure(r, l, m)' = Exposure(r, l, m)
      /\ \A r : (\A j \in DOMAIN orders : orders[j].run # r) => \A j \in DOMAIN orders' : orders'[j].run # r
      /\ \A j \in DOMAIN orders : orders'[j].at = "refused" <=> orders[j].at = "refused"
  BY <1>3, SameAnswers
<1>5. \A r, l : Shown(r, l)' = Shown(r, l)
  BY <1>1 DEF Shown
<1>6. ASSUME NEW x, Ready(x, orders), Desk(x) PROVE Desk(x)'
  <2>1. x.pc \in SentPCs => (orders'[x.nr].at = "refused" <=> orders[x.nr].at = "refused")
    BY <1>4, <1>6 DEF Ready
  <2>2. x.pc \in SentPCs => Told(x)' = Told(x)
    BY <2>1 DEF Told
  <2>3. RunsMatch(x)'
    <3>1. \A r, l : (IF InHand(x, r, l) THEN Told(x)' ELSE Shown(r, l)')
                     = (IF InHand(x, r, l) THEN Told(x) ELSE Shown(r, l))
      BY <1>5, <2>2 DEF InHand
    <3>2. RunsMatch(x)
      BY <1>6 DEF Desk
    <3>3. QED
      BY <1>1, <1>4, <1>5, <3>1, <3>2, MatchStep
  <2>4. Knows(x)'
    BY <1>1, <1>4, <1>5, <1>6, <2>1 DEF Desk, Knows, SentPCs
  <2>5. Squaring(x)'
    BY <1>4, <1>5, <1>6 DEF Desk, Squaring
  <2>6. QED
    BY <2>3, <2>4, <2>5 DEF Desk
<1>7. ASSUME NEW u \in Tasks, \A v \in Tasks : v # u => At(v, "idle") PROVE Desk(task[u])'
  <2>1. PICK x : x = task[u]
    OBVIOUS
  <2>2. Ready(x, orders) /\ Desk(x)
    BY <1>7, <2>1 DEF DeskInv, TurnInv, EntryInv, TasksReady
  <2>3. Desk(x)' /\ x = task'[u]
    BY <1>1, <1>6, <2>1, <2>2
  <2>4. QED
    BY <2>3
<1>8. QED
  BY <1>1, <1>7 DEF DeskInv, At

LEMMA DeskNext ==
  ASSUME Serial, \A a, b \in Modes : a = b, TurnInv, DeskInv, [Next]_vars
  PROVE  DeskInv'
<1>0. SUFFICES ASSUME crashes' = 0 PROVE DeskInv'
  BY DEF DeskInv
<1>1. CASE Crash
  <2>1. crashes \in Nat /\ crashes' = crashes + 1
    BY <1>1 DEF Crash, TurnInv, EntryInv, TypeInv, TypeOK
  <2>2. QED
    BY <1>0, <2>1
<1>2. CASE ~Crash
  <2>0. crashes = 0
    BY <1>0, <1>2 DEF Next, TaskStep, Request, Receive, Load, Refuse, UseRun, OpenRun, Look, AlreadyThere,
       Decline, Dispatch, Record, Reconcile, Book, Store, ExitFailed, Call, FireAutoStop, BeginSquare,
       ListOpen, SquareLeg, FinalizeRun, ClearState, CancelPending, LockWebhook, Unlock, EditDirection,
       Checkpoint, Recover, Fill, NextPhase, vars
  <2>1. ASSUME NEW t \in Tasks, TaskStep(t) PROVE DeskInv'
    <3>1. PICK y : y = task[t]
      OBVIOUS
    <3>2. QED
      BY <2>0, <2>1, <3>1, DeskQuiet, DeskDispatch, DeskRecord, DeskBook, DeskStore, DeskOpen,
         DeskFinalize, DeskClose, DeskCancel DEF TaskStep
  <2>2. CASE Recover
    BY <2>0, <2>2 DEF DeskInv, Recover
  <2>3. CASE (\E r \in Runs : Checkpoint(r)) \/ NextPhase \/ UNCHANGED vars
    <3>1. UNCHANGED <<row, runs, orders, state, task, up, crashes>>
      BY <2>3 DEF Checkpoint, NextPhase, desk, clock, vars
    <3>2. QED
      BY <3>1, DeskSame
  <2>4. CASE \E i \in DOMAIN orders : Fill(i)
    BY <2>0, <2>4, DeskFill
  <2>5. QED
    BY <1>2, <2>0, <2>1, <2>2, <2>3, <2>4, DeskRequest, DeskFire, DeskEdit DEF Next
<1>3. QED
  BY <1>1, <1>2

LEMMA DeskInit ==
  ASSUME Init
  PROVE  DeskInv
<1>1. Knows(Idle) /\ Squaring(Idle)
  BY DEF Knows, Squaring, Idle, OrderPCs, CopyPCs, SentPCs
<1>2. RunsMatch(Idle)
  BY DEF Init, RunsMatch, RunIs
<1>3. QED
  BY <1>1, <1>2 DEF Init, DeskInv, Desk

LEMMA DeskInvariant ==
  ASSUME Serial, \A a, b \in Modes : a = b
  PROVE  Spec => [](TurnInv /\ DeskInv)
<1>1. Init => TurnInv /\ DeskInv
  BY TurnInit, DeskInit
<1>2. TurnInv /\ DeskInv /\ [Next]_vars => (TurnInv /\ DeskInv)'
  BY TurnNext, DeskNext
<1>3. QED
  BY <1>1, <1>2, PTL DEF Spec

\* Between requests that do not overlap, all in one mode, and until a crash, the run
\* state shows of each leg what the orders at the venue add up to: what
\* exit_leg_by_signal and signal_auto_square read there is what they must sell.
THEOREM StateIsVenue ==
  ASSUME Serial, \A a, b \in Modes : a = b
  PROVE  Spec => []DeskMatchesVenue
<1>1. TurnInv /\ DeskInv => DeskMatchesVenue
  <2>1. SUFFICES ASSUME TurnInv, DeskInv, Quiet, crashes = 0, NEW r \in Runs, Active(r), state[r] # NONE,
                        NEW l \in Legs, NEW m \in Modes
                 PROVE  Exposure(r, l, m) = IF m = runs[r].mode THEN Lot(state[r].side[l]) ELSE 0
    BY DEF DeskMatchesVenue
  <2>2. Desk(task[Cron]) /\ task[Cron].pc = "idle"
    BY <2>1, TasksAssumption DEF DeskInv, Quiet, At
  <2>3. runs[r].mode = m /\ LegIs(task[Cron], r, l, m)
    BY <2>1, <2>2 DEF Desk, RunsMatch, RunIs, Active
  <2>4. QED
    BY <2>1, <2>2, <2>3 DEF LegIs, Killing, InHand, SentPCs, Shown
<1>2. QED
  BY <1>1, DeskInvariant, PTL

\* A run that signal_auto_square has ended left nothing at the venue, but for legs
\* whose exit was refused or whose order the kill switch withdrew, when requests do
\* not overlap, use one mode, and no crash came.
THEOREM SquaredLeavesNothing ==
  ASSUME Serial, \A a, b \in Modes : a = b
  PROVE  Spec => []SquaredRunIsFlat
<1>1. TurnInv /\ DeskInv => SquaredRunIsFlat
  <2>1. SUFFICES ASSUME TurnInv, DeskInv, Quiet, crashes = 0, NEW r \in Runs, NEW l \in Legs, NEW m \in Modes,
                        runs[r].status = "stopped", ~Disturbed(r, l)
                 PROVE  Exposure(r, l, m) = 0
    BY DEF SquaredRunIsFlat
  <2>2. Desk(task[Cron])
    BY <2>1, TasksAssumption DEF DeskInv, Quiet, At
  <2>3. QED
    BY <2>1, <2>2 DEF Desk, RunsMatch, RunIs
<1>2. QED
  BY <1>1, DeskInvariant, PTL

-----------------------------------------------------------------------------
(* One crash, and the recovery after it *)

\* Only what the venue refused has a row that says so.
RowsAreTrue == \A i \in DOMAIN orders : orders[i].row = "rejected" => orders[i].at = "refused"

Of(o, r, l) == o.run = r /\ o.leg = l

\* A leg that was never exited was entered once at most: a second entry would
\* have found the first one in the run state.
EnteredOnce(r, l) ==
  ~Disturbed(r, l) /\ (\A i \in DOMAIN orders : Of(orders[i], r, l) => orders[i].entry)
  => \A i, j \in DOMAIN orders :
       /\ Of(orders[i], r, l) /\ orders[i].at # "refused"
       /\ Of(orders[j], r, l) /\ orders[j].at # "refused"
       => i = j

ModesAsked == \A i \in DOMAIN orders : orders[i].mode \in Modes

\* Until the first recovery is done.
OnceInv ==
  /\ RowsAreTrue
  /\ crashes = 0 \/ ~up => ModesAsked /\ \A r \in Runs, l \in Legs : EnteredOnce(r, l)
  /\ ~up => \A r \in Runs : Active(r) => runs[r].mode \in Modes

\* The venue holds of such a leg what its one entry brought.
LEMMA OneEntryExposure ==
  ASSUME TypeOK, \A a, b \in Modes : a = b, ModesAsked,
         NEW r, NEW l, NEW m \in Modes, ~Disturbed(r, l), EnteredOnce(r, l),
         \A k \in DOMAIN orders : Of(orders[k], r, l) => orders[k].entry,
         NEW i \in DOMAIN orders, Of(orders[i], r, l), orders[i].at # "refused"
  PROVE  Exposure(r, l, m) = Lot(orders[i].side) /\ orders[i].side \in {"long", "short"}
<1>. DEFINE S == DOMAIN orders
            h == [k \in S |-> Part(orders[k], r, l, m)]
<1>1. IsFiniteSet(S) /\ \A k \in S : orders[k] \in OrderType
  BY FS_Interval DEF TypeOK
<1>2. h \in [S -> Int]
  BY PartInt
<1>3. orders[i].at \in {"filled", "resting"} /\ orders[i].entry /\ orders[i].mode = m
  BY <1>1 DEF Disturbed, Of, OrderType, AllAnswers, ModesAsked
<1>4. h[i] = Lot(orders[i].side)
  BY <1>3 DEF Part, Works, Of
<1>5. \A k \in S \ {i} : h[k] = 0
  BY DEF Part, Works, Of, EnteredOnce
<1>6. orders[i].side \in {"long", "short"}
  BY <1>1 DEF OrderType
<1>. HIDE DEF h, S
<1>7. i \in S
  BY DEF S
<1>8. SumFunction(h) = h[i]
  BY <1>1, <1>2, <1>5, <1>7, SumSingle
<1>9. QED
  BY <1>4, <1>6, <1>8 DEF Exposure, h, S

\* What all steps but a new order do to the orders.
Kept(os, ns) ==
  /\ DOMAIN ns = DOMAIN os
  /\ \A i \in DOMAIN os :
       /\ ns[i].run = os[i].run /\ ns[i].leg = os[i].leg
       /\ ns[i].entry = os[i].entry /\ ns[i].mode = os[i].mode
       /\ ns[i].at = "refused" <=> os[i].at = "refused"
       /\ os[i].at = "cancelled" => ns[i].at = "cancelled"
       /\ ns[i].row = "rejected" => os[i].row = "rejected" \/ os[i].at = "refused"

LEMMA OnceStays ==
  ASSUME OnceInv, Kept(orders, orders'),
         crashes' = 0 \/ ~up' => crashes = 0 \/ ~up,
         ~up' => \A r \in Runs : Active(r)' => runs'[r].mode \in Modes
  PROVE  OnceInv'
<1>1. RowsAreTrue'
  BY DEF OnceInv, RowsAreTrue, Kept
<1>2. ASSUME NEW r, NEW l, EnteredOnce(r, l) PROVE EnteredOnce(r, l)'
  <2>1. Disturbed(r, l) => Disturbed(r, l)'
    BY DEF Disturbed, Kept
  <2>2. QED
    BY <1>2, <2>1 DEF EnteredOnce, Of, Kept
<1>3. ModesAsked => ModesAsked'
  BY DEF ModesAsked, Kept
<1>4. QED
  BY <1>1, <1>2, <1>3 DEF OnceInv

\* A task's step that writes orders but sends none.
LEMMA RowsKept ==
  ASSUME TurnInv, NEW t \in Tasks, Record(t) \/ Reconcile(t) \/ CancelPending(t)
  PROVE  Kept(orders, orders')
<1>0. orders \in Seq(OrderType) /\ \A i \in DOMAIN orders : orders[i] \in OrderType
  BY DEF TurnInv, EntryInv, TypeInv, TypeOK
<1>1. CASE Record(t) \/ Reconcile(t)
  <2>1. ASSUME NEW n, NEW f, orders' = [orders EXCEPT ![n].row = f],
               f = "rejected" => orders[n].at = "refused"
        PROVE  Kept(orders, orders')
    <3>1. \A o \in OrderType : LET c == [o EXCEPT !.row = f]
                               IN  /\ c.run = o.run /\ c.leg = o.leg /\ c.entry = o.entry
                                   /\ c.mode = o.mode /\ c.at = o.at /\ c.row = f
      BY DEF OrderType
    <3>2. QED
      BY <1>0, <2>1, <3>1 DEF Kept
  <2>2. PICK n : n = task[t].nr
    OBVIOUS
  <2>3. CASE Record(t)
    <3>1. PICK f : f = IF orders[n].at = "refused" THEN "rejected" ELSE "open"
      OBVIOUS
    <3>2. orders' = [orders EXCEPT ![n].row = f]
      BY <2>2, <2>3, <3>1 DEF Record, Sent
    <3>3. QED
      BY <2>1, <3>1, <3>2
  <2>4. CASE Reconcile(t) /\ orders' # orders
    <3>1. PICK f : f = Truth(orders[n])
      OBVIOUS
    <3>2. orders' = [orders EXCEPT ![n].row = f]
      BY <2>2, <2>4, <3>1 DEF Reconcile, Sent
    <3>3. f # "rejected"
      BY <3>1 DEF Truth
    <3>4. QED
      BY <2>1, <3>2, <3>3
  <2>5. CASE orders' = orders
    BY <2>5 DEF Kept
  <2>6. QED
    BY <1>1, <2>3, <2>4, <2>5
<1>2. CASE CancelPending(t)
  <2>1. PICK gone \in SUBSET {i \in DOMAIN orders : orders[i].at = "resting"} :
          orders' = [i \in DOMAIN orders |->
                       IF i \in gone THEN [orders[i] EXCEPT !.at = "cancelled", !.row = "cancelled"]
                       ELSE orders[i]]
    BY <1>2 DEF CancelPending, Pending
  <2>2. \A o \in OrderType : LET c == [o EXCEPT !.at = "cancelled", !.row = "cancelled"]
                             IN  /\ c.run = o.run /\ c.leg = o.leg /\ c.entry = o.entry
                                 /\ c.mode = o.mode /\ c.at = "cancelled" /\ c.row = "cancelled"
    BY DEF OrderType
  <2>3. QED
    BY <1>0, <2>1, <2>2 DEF Kept
<1>3. QED
  BY <1>1, <1>2

\* An order is sent for a leg that the run state shows as the order needs it.
LEMMA OnceDispatch ==
  ASSUME \A a, b \in Modes : a = b, TurnInv, DeskInv, OnceInv, NEW t \in Tasks, Dispatch(t)
  PROVE  OnceInv'
<1>. DEFINE y == task[t]
<1>0. y.pc = "act" /\ ~At(t, "idle") /\ UNCHANGED <<runs, state, up, crashes>>
  BY DEF Dispatch, At, desk, clock
<1>1. up /\ orders \in Seq(OrderType) /\ Len(orders) \in Nat /\ DOMAIN orders = 1..Len(orders)
  BY <1>0, OthersIdle DEF TurnInv, EntryInv, TypeInv, TypeOK
<1>2. PICK n : n = Len(orders) + 1
  OBVIOUS
<1>3. PICK o :
        /\ orders' = Append(orders, o)
        /\ o.run = y.run /\ o.leg = y.leg /\ o.entry = (y.act \in Entries)
        /\ o.mode = y.mode /\ o.row = "none"
  BY DEF Dispatch, Entering
<1>4. /\ DOMAIN orders' = 1..n /\ orders'[n] = o
      /\ \A i \in DOMAIN orders : i \in 1..n /\ i # n /\ orders'[i] = orders[i]
      /\ \A i \in 1..n : i = n \/ i \in DOMAIN orders
  BY <1>1, <1>2, <1>3
<1>5. RowsAreTrue'
  BY <1>3, <1>4 DEF OnceInv, RowsAreTrue
<1>6. SUFFICES ASSUME crashes = 0
               PROVE  ModesAsked' /\ \A r \in Runs, l \in Legs : EnteredOnce(r, l)'
  BY <1>0, <1>1, <1>5 DEF OnceInv
<1>7. /\ Desk(y) /\ y \in TaskType /\ Placed(y)
      /\ y.run \in Runs /\ y.leg \in Legs /\ y.mode \in Modes /\ runs[y.run].status = "active"
  BY <1>0, <1>6, DeskParts, RunOfTask DEF Placed, OrderPCs, RunPCs, Desk, Knows
<1>8. ModesAsked'
  BY <1>3, <1>4, <1>6, <1>7 DEF ModesAsked, OnceInv
<1>9. ASSUME NEW r \in Runs, NEW l \in Legs, ~Disturbed(r, l)',
             \A i \in 1..n : Of(orders'[i], r, l) => orders'[i].entry,
             NEW i \in DOMAIN orders, Of(orders[i], r, l), orders[i].at # "refused",
             r = y.run, l = y.leg
      PROVE  FALSE
  <2>1. ~Disturbed(r, l)
    BY <1>4, <1>9 DEF Disturbed
  <2>2. \A k \in DOMAIN orders : Of(orders[k], r, l) => orders[k].entry
    BY <1>4, <1>9
  <2>3. TypeOK /\ ModesAsked /\ EnteredOnce(r, l)
    BY <1>6 DEF OnceInv, TurnInv, EntryInv, TypeInv
  <2>4. Exposure(r, l, y.mode) = Lot(orders[i].side) /\ orders[i].side \in {"long", "short"}
    BY <1>7, <1>9, <2>1, <2>2, <2>3, OneEntryExposure
  <2>5. y.act \in Entries
    <3>1. n \in 1..n
      BY <1>1, <1>2
    <3>2. orders'[n].entry
      BY <1>3, <1>4, <1>9, <3>1 DEF Of
    <3>3. QED
      BY <1>3, <1>4, <3>2
  <2>6. Shown(r, l) = "flat"
    BY <1>0, <1>7, <1>9, <2>5 DEF Dispatch, Found, Entering, Desk, Knows, CopyPCs
  <2>7. Exposure(r, l, y.mode) = Lot("flat")
    BY <1>0, <1>7, <1>9, <2>1, <2>6 DEF Desk, RunsMatch, RunIs, LegIs, InHand, SentPCs
  <2>8. QED
    BY <2>4, <2>7 DEF Lot
<1>10. ASSUME NEW r \in Runs, NEW l \in Legs, ~Disturbed(r, l)',
              \A i \in 1..n : Of(orders'[i], r, l) => orders'[i].entry,
              NEW i \in 1..n, Of(orders'[i], r, l), orders'[i].at # "refused",
              NEW j \in 1..n, Of(orders'[j], r, l), orders'[j].at # "refused"
       PROVE  i = j
  <2>1. CASE i \in DOMAIN orders /\ j \in DOMAIN orders
    <3>1. ~Disturbed(r, l)
      BY <1>4, <1>10 DEF Disturbed
    <3>2. \A k \in DOMAIN orders : Of(orders[k], r, l) => orders[k].entry
      BY <1>4, <1>10
    <3>3. QED
      BY <1>4, <1>6, <1>10, <2>1, <3>1, <3>2 DEF OnceInv, EnteredOnce
  <2>2. CASE i \in DOMAIN orders /\ j = n
    BY <1>3, <1>4, <1>9, <1>10, <2>2 DEF Of
  <2>3. CASE j \in DOMAIN orders /\ i = n
    BY <1>3, <1>4, <1>9, <1>10, <2>3 DEF Of
  <2>4. QED
    BY <1>4, <2>1, <2>2, <2>3
<1>11. QED
  BY <1>4, <1>8, <1>10 DEF EnteredOnce

\* A task that is idle takes no step but a request.
LEMMA IdleTasksRest ==
  ASSUME NEW t \in Tasks, At(t, "idle")
  PROVE  ~TaskStep(t)
<1>1. ~(Load(t) \/ Refuse(t) \/ UseRun(t) \/ OpenRun(t) \/ Look(t) \/ AlreadyThere(t) \/ Decline(t))
  BY DEF At, Load, Refuse, UseRun, OpenRun, Look, AlreadyThere, Decline
<1>2. ~(Dispatch(t) \/ Record(t) \/ Reconcile(t) \/ Book(t) \/ Store(t) \/ ExitFailed(t))
  BY DEF At, Dispatch, Record, Reconcile, Book, Store, ExitFailed
<1>3. ~(BeginSquare(t) \/ ListOpen(t) \/ SquareLeg(t) \/ FinalizeRun(t) \/ ClearState(t))
  BY DEF At, BeginSquare, ListOpen, SquareLeg, FinalizeRun, ClearState
<1>4. ~(CancelPending(t) \/ LockWebhook(t))
  BY DEF At, CancelPending, LockWebhook
<1>5. QED
  BY <1>1, <1>2, <1>3, <1>4 DEF TaskStep

\* All steps together.
LEMMA OnceNext ==
  ASSUME Serial, \A a, b \in Modes : a = b, MaxCrashes <= 1, TurnInv, DeskInv, OnceInv, [Next]_vars
  PROVE  OnceInv'
<1>0. /\ orders \in Seq(OrderType) /\ crashes \in Nat /\ MaxCrashes \in Nat
      /\ \A i \in DOMAIN orders : orders[i] \in OrderType
  BY InputsAssumption DEF TurnInv, EntryInv, TypeInv, TypeOK
<1>1. UNCHANGED orders => Kept(orders, orders')
  BY DEF Kept
<1>2. ~up => \A t \in Tasks : At(t, "idle")
  BY DEF TurnInv, Quiet
<1>3. ASSUME NEW t \in Tasks, TaskStep(t) PROVE OnceInv'
  <2>1. up
    BY <1>2, <1>3, IdleTasksRest
  <2>2. UNCHANGED <<up, crashes>>
    BY <1>3 DEF TaskStep, Load, Refuse, UseRun, OpenRun, Look, AlreadyThere,
       Decline, Dispatch, Record, Reconcile, Book, Store, ExitFailed, BeginSquare,
       ListOpen, SquareLeg, FinalizeRun, ClearState, CancelPending, LockWebhook, clock, desk
  <2>3. CASE Dispatch(t)
    BY <2>3, OnceDispatch
  <2>4. CASE Record(t) \/ Reconcile(t) \/ CancelPending(t)
    BY <2>1, <2>2, <2>4, RowsKept, OnceStays
  <2>5. CASE ~(Dispatch(t) \/ Record(t) \/ Reconcile(t) \/ CancelPending(t))
    <3>1. UNCHANGED orders
      BY <1>3, <2>5 DEF TaskStep, Load, Refuse, UseRun, OpenRun, Look, AlreadyThere,
         Decline, Book, Store, ExitFailed, BeginSquare,
         ListOpen, SquareLeg, FinalizeRun, ClearState, LockWebhook, clock, desk
    <3>2. QED
      BY <1>1, <2>1, <2>2, <3>1, OnceStays
  <2>6. QED
    BY <2>3, <2>4, <2>5
<1>4. ASSUME (\E t \in Tasks : Request(t)) \/ FireAutoStop \/ Unlock \/ (\E d \in Directions : EditDirection(d))
             \/ (\E r \in Runs : Checkpoint(r))
      PROVE  OnceInv'
  <2>1. up /\ UNCHANGED <<orders, up, crashes>>
    BY <1>4 DEF Request, Receive, Call, FireAutoStop, Unlock, EditDirection, Checkpoint, clock, desk
  <2>2. QED
    BY <1>1, <2>1, OnceStays
<1>5. CASE NextPhase \/ UNCHANGED vars
  <2>1. UNCHANGED <<orders, runs, up, crashes>>
    BY <1>5 DEF NextPhase, desk, clock, vars
  <2>2. ~up' => \A r \in Runs : Active(r)' => runs'[r].mode \in Modes
    BY <2>1 DEF OnceInv, Active
  <2>3. QED
    BY <1>1, <2>1, <2>2, OnceStays
<1>6. CASE Crash
  <2>1. up /\ crashes = 0 /\ UNCHANGED <<orders, runs>>
    BY <1>0, <1>6 DEF Crash
  <2>2. PICK t \in Tasks : \A u \in Tasks : u # t => At(u, "idle")
    BY TasksAssumption DEF TurnInv, OneTask
  <2>3. Desk(task[t])
    BY <2>1, <2>2 DEF DeskInv
  <2>4. \A r \in Runs : Active(r)' => runs'[r].mode \in Modes
    BY <2>1, <2>3 DEF Desk, RunsMatch, RunIs, Active
  <2>5. QED
    BY <1>1, <2>1, <2>4, OnceStays
<1>7. CASE Recover
  <2>1. ~up /\ up' /\ UNCHANGED crashes /\ orders' = [i \in DOMAIN orders |-> Reconciled(orders[i])]
    BY <1>7 DEF Recover
  <2>2. \A o \in OrderType : /\ Reconciled(o).run = o.run /\ Reconciled(o).leg = o.leg
                             /\ Reconciled(o).entry = o.entry /\ Reconciled(o).mode = o.mode
                             /\ Reconciled(o).at = o.at
                             /\ Reconciled(o).row = "rejected" => o.row = "rejected"
    BY DEF Reconciled, Truth, OrderType
  <2>3. Kept(orders, orders')
    BY <1>0, <2>1, <2>2 DEF Kept
  <2>4. QED
    BY <2>1, <2>3, OnceStays
<1>8. ASSUME NEW i \in DOMAIN orders, Fill(i) PROVE OnceInv'
  <2>1. UNCHANGED <<runs, up, crashes>> /\ orders' = [orders EXCEPT ![i].at = "filled"] /\ orders[i].at = "resting"
    BY <1>8 DEF Fill, desk, clock
  <2>2. \A o \in OrderType : LET c == [o EXCEPT !.at = "filled"]
                             IN  /\ c.run = o.run /\ c.leg = o.leg /\ c.entry = o.entry
                                 /\ c.mode = o.mode /\ c.row = o.row /\ c.at = "filled"
    BY DEF OrderType
  <2>3. Kept(orders, orders')
    BY <1>0, <2>1, <2>2 DEF Kept
  <2>4. ~up' => \A r \in Runs : Active(r)' => runs'[r].mode \in Modes
    BY <2>1 DEF OnceInv, Active
  <2>5. QED
    BY <2>1, <2>3, <2>4, OnceStays
<1>9. QED
  BY <1>3, <1>4, <1>5, <1>6, <1>7, <1>8 DEF Next

\* What recovery takes from a checkpoint is the side of the leg's only entry.
LEMMA RecoveryIsTrue ==
  ASSUME \A a, b \in Modes : a = b, TurnInv, OnceInv, Recover,
         NEW r \in Runs, NEW l \in Legs, Active(r)', ~Disturbed(r, l),
         \A i \in DOMAIN orders : orders[i].row # "none"
  PROVE  Lot(state'[r].side[l]) \in {0, Exposure(r, l, runs[r].mode)}
<1>0. /\ \A i \in DOMAIN orders : orders[i] \in OrderType
      /\ runs \in [Runs -> [status : {"unborn", "active", "stopped"}, mode : {"sandbox", "live"}]]
      /\ TypeOK
  BY DEF TurnInv, EntryInv, TypeInv, TypeOK
<1>1. PICK failed \in SUBSET {q \in Runs : Active(q)},
           side \in [Runs -> [Legs -> {"flat", "long", "short"}]] :
        /\ \A q \in Runs, k \in Legs : IF q \in {p \in Runs : Active(p)} \ failed
                                       THEN Recovered(q, k, side[q][k])
                                       ELSE side[q][k] = "flat"
        /\ state' = [q \in Runs |->
                       IF q \in {p \in Runs : Active(p)} \ failed
                       THEN [side |-> side[q], booked |-> IF saved[q] = NONE THEN 0 ELSE saved[q].booked]
                       ELSE state[q]]
        /\ runs' = [q \in Runs |-> IF q \in failed THEN [runs[q] EXCEPT !.status = "stopped"] ELSE runs[q]]
  BY DEF Recover
<1>2. Active(r) /\ r \notin failed
  <2>1. \A q \in failed : runs'[q].status = "stopped"
    BY <1>0, <1>1
  <2>2. r \notin failed
    BY <2>1 DEF Active
  <2>3. QED
    BY <1>1, <2>2 DEF Active
<1>3. state'[r].side[l] = side[r][l] /\ Recovered(r, l, side[r][l])
  BY <1>1, <1>2
<1>4. CASE side[r][l] = "flat"
  BY <1>3, <1>4 DEF Lot
<1>5. CASE side[r][l] # "flat"
  <2>. DEFINE rows == {Reconciled(orders[i]) : i \in {j \in DOMAIN orders :
                         orders[j].run = r /\ orders[j].leg = l /\ orders[j].row # "none"}}
  <2>1. /\ ~\E o \in rows : ~o.entry /\ o.row # "rejected"
        /\ saved[r] # NONE /\ side[r][l] = saved[r].side[l]
    BY <1>3, <1>5 DEF Recovered
  <2>2. EnteredIn(orders, r, l, side[r][l])
    BY <1>5, <2>1 DEF TurnInv, EntryInv, SavedGrounded, Grounded
  <2>3. PICK i \in DOMAIN orders : /\ Of(orders[i], r, l) /\ orders[i].at # "refused"
                                   /\ orders[i].side = side[r][l]
    BY <2>2 DEF EnteredIn, Of
  <2>4. ASSUME NEW k \in DOMAIN orders, Of(orders[k], r, l), ~orders[k].entry PROVE FALSE
    <3>1. orders[k].row # "rejected"
      BY <2>4 DEF Disturbed, OnceInv, RowsAreTrue, Of
    <3>2. Reconciled(orders[k]).row # "rejected" /\ ~Reconciled(orders[k]).entry
      BY <1>0, <2>4, <3>1 DEF Reconciled, Truth, OrderType
    <3>3. Reconciled(orders[k]) \in rows
      BY <2>4 DEF Of
    <3>4. QED
      BY <2>1, <3>2, <3>3
  <2>5. ~up
    BY DEF Recover
  <2>6. ModesAsked /\ EnteredOnce(r, l) /\ runs[r].mode \in Modes
    BY <1>2, <2>5 DEF OnceInv
  <2>7. Exposure(r, l, runs[r].mode) = Lot(orders[i].side)
    BY <1>0, <2>3, <2>4, <2>6, OneEntryExposure
  <2>8. QED
    BY <1>3, <2>3, <2>7
<1>6. QED
  BY <1>4, <1>5

\* What recovery shows of a leg is nothing or what the venue holds, with requests
\* that do not overlap, one mode and one crash, wherever it comes, but for a leg
\* whose exit was refused or whose order was withdrawn, and an order the crash
\* parted from its row.
THEOREM RecoveryIsHonest ==
  ASSUME Serial, \A a, b \in Modes : a = b, MaxCrashes <= 1
  PROVE  Spec => RecoveryInventsNothing
<1>1. Init => OnceInv
  BY DEF Init, OnceInv, RowsAreTrue, ModesAsked, EnteredOnce
<1>2. TurnInv /\ DeskInv /\ OnceInv /\ [Next]_vars => OnceInv'
  BY OnceNext
<1>3. TurnInv /\ OnceInv /\ [Next]_vars =>
        [~up /\ up' =>
           \A r \in Runs, l \in Legs :
             /\ Active(r)' /\ ~Disturbed(r, l)
             /\ \A i \in DOMAIN orders : orders[i].row # "none"
             => Lot(state'[r].side[l]) \in {0, Exposure(r, l, runs[r].mode)}]_vars
  <2>1. SUFFICES ASSUME TurnInv, OnceInv, Next, ~up, up',
                        NEW r \in Runs, NEW l \in Legs, Active(r)', ~Disturbed(r, l),
                        \A i \in DOMAIN orders : orders[i].row # "none"
                 PROVE  Lot(state'[r].side[l]) \in {0, Exposure(r, l, runs[r].mode)}
    OBVIOUS
  <2>2. Recover
    <3>1. ASSUME NEW t \in Tasks, TaskStep(t) PROVE FALSE
      <4>1. At(t, "idle")
        BY <2>1 DEF TurnInv, Quiet
      <4>2. QED
        BY <3>1, <4>1, IdleTasksRest
    <3>2. ASSUME NEW t \in Tasks, Request(t) PROVE FALSE
      BY <2>1, <3>2 DEF Request, Receive, Call
    <3>3. CASE FireAutoStop \/ Unlock \/ (\E d \in Directions : EditDirection(d))
               \/ (\E q \in Runs : Checkpoint(q)) \/ Crash
      BY <2>1, <3>3 DEF FireAutoStop, Unlock, EditDirection, Checkpoint, Crash
    <3>4. CASE (\E i \in DOMAIN orders : Fill(i)) \/ NextPhase
      BY <2>1, <3>4 DEF Fill, NextPhase, clock
    <3>5. QED
      BY <2>1, <3>1, <3>2, <3>3, <3>4 DEF Next
  <2>3. QED
    BY <2>1, <2>2, RecoveryIsTrue
<1>4. QED
  BY <1>1, <1>2, <1>3, DeskInvariant, PTL DEF Spec, RecoveryInventsNothing

=============================================================================
