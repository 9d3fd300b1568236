------------------------ MODULE OrderDispatchProofs ------------------------
(***************************************************************************)
(* Proofs about OrderDispatch for any threads, requests and bounds: its     *)
(* types with the exclusion of the symbol locks and, for an account that    *)
(* trades one symbol, the target of smart orders.                           *)
(***************************************************************************)
EXTENDS OrderDispatch, TLAPS

SmartPlaces == {"lock"} \cup Inside

\* A thread on the way of a smart order carries one.
SmartRequests ==
  \A t \in Threads :
    task[t].at \in SmartPlaces => task[t].req \in Requests /\ task[t].req.op = "smart"

TypeInv == TypeOK /\ SmartRequests

-----------------------------------------------------------------------------
(* Types *)

LEMMA SymType ==
  ASSUME SmartRequests, NEW t \in Threads, task[t].at \in SmartPlaces
  PROVE  Sym(t) \in Symbols
  BY DispatchAssumption DEF SmartRequests, Sym

LEMMA GoType ==
  ASSUME TypeOK, NEW t \in Threads, NEW next \in Task, Go(t, next)
  PROVE  /\ task' \in [Threads -> Task]
         /\ task'[t] = next
         /\ \A u \in Threads : u # t => task'[u] = task[u]
  BY DEF TypeOK, Go

LEMMA IdleType == Idle \in Task /\ Idle.at = "idle"
  BY DEF Idle, Task, Places

\* A step that moves one thread to a place outside the symbol lock and leaves
\* the locks alone keeps the two parts of the invariant that speak of threads.
LEMMA ModeStep ==
  ASSUME TypeInv, NEW t \in Threads, NEW next \in Task, Go(t, next),
         next.at \notin Inside,
         next.at = "lock" => next.req \in Requests /\ next.req.op = "smart",
         next.at \in {"publish", "store", "route"} => next.mode \in Modes,
         UNCHANGED <<paper, real, smartVars>>,
         row' \in Modes, cache' \in Modes \cup {NONE}, events' \in 0 .. MaxEvents
  PROVE  TypeInv'
<1>1. /\ task' \in [Threads -> Task]
      /\ task'[t] = next
      /\ \A u \in Threads : u # t => task'[u] = task[u]
  BY GoType DEF TypeInv
<1>2. SmartRequests'
  BY <1>1 DEF TypeInv, SmartRequests, SmartPlaces
<1>3. \A u \in Threads :
        /\ task'[u].at \in {"publish", "store", "route"} => task'[u].mode \in Modes
        /\ task'[u].at \in Inside => lock'[Sym(u)'] = u
  BY <1>1 DEF TypeInv, TypeOK, Sym, smartVars
<1>4. QED
  BY <1>1, <1>2, <1>3 DEF TypeInv, TypeOK, smartVars

LEMMA BeginType ==
  ASSUME TypeInv, NEW t \in Threads, Begin(t)
  PROVE  TypeInv'
<1>1. ASSUME NEW m \in Modes, Switch(t, m)
      PROVE  TypeInv'
  <2> DEFINE next == [Idle EXCEPT !.at = "publish", !.mode = m]
  <2>1. next \in Task /\ next.at = "publish" /\ next.mode = m
    BY DEF Idle, Task, Places
  <2>2. events' \in 0 .. MaxEvents
    BY <1>1, DispatchAssumption DEF Switch, TypeInv, TypeOK
  <2>3. QED
    BY <1>1, <2>1, <2>2, ModeStep DEF Switch, TypeInv, TypeOK, Inside, bookVars
<1>2. ASSUME NEW r \in Requests, AskMode(t, r)
      PROVE  TypeInv'
  <2> DEFINE next == [Idle EXCEPT !.req = r, !.mode = cache,
                                  !.at = IF cache = NONE THEN "load" ELSE "route"]
  <2>1. /\ next \in Task /\ next.at \in {"load", "route"}
        /\ next.at = "route" => next.mode \in Modes
    BY DEF Idle, Task, Places, TypeInv, TypeOK
  <2>2. QED
    BY <1>2, <2>1, ModeStep DEF AskMode, TypeInv, TypeOK, Inside, bookVars, modeVars
<1>3. ASSUME NEW r \in Requests, AskDirect(t, r)
      PROVE  TypeInv'
  <2> DEFINE next == [Idle EXCEPT !.at = "send", !.req = r, !.book = "broker"]
  <2>1. next \in Task /\ next.at = "send"
    BY DEF Idle, Task, Places
  <2>2. QED
    BY <1>3, <2>1, ModeStep DEF AskDirect, Send, TypeInv, TypeOK, Inside, modeVars
<1>4. ASSUME NEW r \in Requests, AskSmart(t, r)
      PROVE  TypeInv'
  <2> DEFINE next == [Idle EXCEPT !.at = "lock", !.req = r]
  <2>1. next \in Task /\ next.at = "lock" /\ next.req = r
    BY DEF Idle, Task, Places
  <2>2. QED
    BY <1>4, <2>1, ModeStep DEF AskSmart, TypeInv, TypeOK, Inside, bookVars, modeVars
<1>5. QED
  BY <1>1, <1>2, <1>3, <1>4 DEF Begin

LEMMA DispatchType ==
  ASSUME TypeInv, NEW t \in Threads,
         Publish(t) \/ Load(t) \/ Store(t) \/ Route(t) \/ Answer(t)
  PROVE  TypeInv'
<1>1. CASE Publish(t)
  BY <1>1, IdleType, ModeStep DEF Publish, Return, At, TypeInv, TypeOK, Inside, bookVars
<1>2. CASE Load(t)
  <2>1. [task[t] EXCEPT !.at = "store", !.mode = row] \in Task
        /\ [task[t] EXCEPT !.at = "route", !.mode = "live"] \in Task
    BY DEF TypeInv, TypeOK, Task, Places, Modes
  <2>2. events' \in 0 .. MaxEvents
    BY <1>2, DispatchAssumption DEF Load, TypeInv, TypeOK
  <2>3. CASE Go(t, [task[t] EXCEPT !.at = "store", !.mode = row])
    <3> DEFINE next == [task[t] EXCEPT !.at = "store", !.mode = row]
    <3>1. next.at = "store" /\ next.mode = row
      BY DEF TypeInv, TypeOK, Task
    <3>2. QED
      BY <1>2, <2>1, <2>2, <2>3, <3>1, ModeStep DEF Load, TypeInv, TypeOK, Inside, bookVars
  <2>4. CASE Go(t, [task[t] EXCEPT !.at = "route", !.mode = "live"])
    <3> DEFINE next == [task[t] EXCEPT !.at = "route", !.mode = "live"]
    <3>1. next.at = "route" /\ next.mode \in Modes
      BY DEF TypeInv, TypeOK, Task, Modes
    <3>2. QED
      BY <1>2, <2>1, <2>2, <2>4, <3>1, ModeStep DEF Load, TypeInv, TypeOK, Inside, bookVars
  <2>5. QED
    BY <1>2, <2>3, <2>4 DEF Load
<1>3. CASE Store(t)
  <2> DEFINE next == [task[t] EXCEPT !.at = "route"]
  <2>1. next \in Task /\ next.at = "route" /\ next.mode \in Modes
    BY <1>3 DEF Store, At, TypeInv, TypeOK, Task, Places
  <2>2. QED
    BY <1>3, <2>1, ModeStep DEF Store, At, TypeInv, TypeOK, Inside, bookVars
<1>4. CASE Route(t)
  <2>1. CASE Return(t)
    BY <1>4, <2>1, IdleType, ModeStep DEF Route, Return, TypeInv, TypeOK, Inside, modeVars
  <2>2. CASE Send(t, task[t].req, Book(task[t].mode))
    <3> DEFINE next == [Idle EXCEPT !.at = "send", !.req = task[t].req,
                                    !.book = Book(task[t].mode)]
    <3>1. next \in Task /\ next.at = "send"
      BY DEF Idle, Task, Places, Book, TypeInv, TypeOK
    <3>2. QED
      BY <1>4, <2>2, <3>1, ModeStep DEF Route, Send, TypeInv, TypeOK, Inside, modeVars
  <2>3. QED
    BY <1>4, <2>1, <2>2 DEF Route
<1>5. CASE Answer(t)
  BY <1>5, IdleType, ModeStep DEF Answer, Return, TypeInv, TypeOK, Inside, bookVars, modeVars
<1>6. QED
  BY <1>1, <1>2, <1>3, <1>4, <1>5

\* A filled order leaves a position within the limit, or names no symbol.
LEMMA FillType ==
  ASSUME NEW pos \in Positions, NEW x, NEW n, InRange(pos[x] + n)
  PROVE  [pos EXCEPT ![x] = @ + n] \in Positions
  BY DEF Positions, InRange

LEMMA SendType ==
  ASSUME TypeInv, NEW t \in Threads, SendPaper(t) \/ SendBroker(t)
  PROVE  TypeInv'
<1> DEFINE o == Head(todo[t])
<1>0. paper \in Positions /\ real \in Positions
  BY DEF TypeInv, TypeOK
<1>1. paper' \in Positions
  <2>1. \/ paper' = paper
        \/ /\ InRange(paper[o.sym] + o.qty)
           /\ paper' = [paper EXCEPT ![o.sym] = @ + o.qty]
    BY DEF SendPaper, SendBroker
  <2>2. InRange(paper[o.sym] + o.qty)
          => [paper EXCEPT ![o.sym] = @ + o.qty] \in Positions
    BY <1>0 DEF Positions, InRange
  <2>3. QED
    BY <1>0, <2>1, <2>2
<1>2. real' \in Positions
  <2>1. \/ real' = real
        \/ /\ InRange(real[o.sym] + o.qty)
           /\ real' = [real EXCEPT ![o.sym] = @ + o.qty]
    BY DEF SendPaper, SendBroker
  <2>2. InRange(real[o.sym] + o.qty)
          => [real EXCEPT ![o.sym] = @ + o.qty] \in Positions
    BY <1>0 DEF Positions, InRange
  <2>3. QED
    BY <1>0, <2>1, <2>2
<1>3. /\ UNCHANGED <<modeVars, snap, lock>>
      /\ \/ UNCHANGED task
         \/ Go(t, [Idle EXCEPT !.at = "send", !.req = task[t].req, !.book = "broker"])
  BY DEF SendPaper, SendBroker, Send, Proceed, smartVars
<1>4. [Idle EXCEPT !.at = "send", !.req = task[t].req, !.book = "broker"] \in Task
  BY DEF TypeInv, TypeOK, Task, Idle, Places
<1>5. task' \in [Threads -> Task]
  BY <1>3, <1>4, GoType DEF TypeInv, TypeOK
<1>6. \A u \in Threads : task'[u] = task[u] \/ task'[u].at = "send"
  <2>1. CASE UNCHANGED task
    BY <2>1
  <2>2. CASE Go(t, [Idle EXCEPT !.at = "send", !.req = task[t].req, !.book = "broker"])
    BY <2>2, <1>4, GoType DEF TypeInv, Idle
  <2>3. QED
    BY <1>3, <2>1, <2>2
<1>7. SmartRequests'
  BY <1>6 DEF TypeInv, SmartRequests, SmartPlaces, Inside
<1>8. \A u \in Threads :
        /\ task'[u].at \in {"publish", "store", "route"} => task'[u].mode \in Modes
        /\ task'[u].at \in Inside => lock'[Sym(u)'] = u
  BY <1>3, <1>6 DEF TypeInv, TypeOK, Sym, Inside
<1>9. QED
  BY <1>1, <1>2, <1>3, <1>5, <1>7, <1>8 DEF TypeInv, TypeOK, modeVars

\* A step inside the lock of its symbol: the thread stays inside and nobody's
\* lock moves, or it returns and gives back its own lock only.
LEMMA InsideType ==
  ASSUME TypeInv, NEW t \in Threads, task[t].at \in Inside,
         UNCHANGED <<modeVars, paper>>,
         real' \in Positions, snap' \in Positions \cup {NONE},
         \/ /\ UNCHANGED lock
            /\ \E place \in Inside, view \in Positions \cup {NONE} :
                 Go(t, [task[t] EXCEPT !.at = place, !.view = view])
         \/ Return(t) /\ Unlock(t)
  PROVE  TypeInv'
<1>1. Sym(t) \in Symbols
  BY SymType DEF TypeInv, SmartPlaces
<1>2. CASE /\ UNCHANGED lock
           /\ \E place \in Inside, view \in Positions \cup {NONE} :
                Go(t, [task[t] EXCEPT !.at = place, !.view = view])
  <2>1. PICK place \in Inside, view \in Positions \cup {NONE} :
          Go(t, [task[t] EXCEPT !.at = place, !.view = view])
    BY <1>2
  <2> DEFINE next == [task[t] EXCEPT !.at = place, !.view = view]
  <2>2. next \in Task /\ next.at = place /\ next.req = task[t].req
    <3>1. task[t] \in Task /\ place \in Places
      BY DEF TypeInv, TypeOK, Places, Inside
    <3>2. QED
      BY <3>1 DEF Task
  <2>3. /\ task' \in [Threads -> Task] /\ task'[t] = next
        /\ \A u \in Threads : u # t => task'[u] = task[u]
    BY <2>1, <2>2, GoType DEF TypeInv
  <2>4. SmartRequests'
    BY <2>2, <2>3 DEF TypeInv, SmartRequests, SmartPlaces
  <2>5. \A u \in Threads :
          /\ task'[u].at \in {"publish", "store", "route"} => task'[u].mode \in Modes
          /\ task'[u].at \in Inside => lock'[Sym(u)'] = u
    <3>1. place \notin {"publish", "store", "route"}
      BY DEF Inside
    <3>2. QED
      BY <1>2, <2>2, <2>3, <3>1 DEF TypeInv, TypeOK, Sym
  <2>6. QED
    BY <1>2, <2>3, <2>4, <2>5 DEF TypeInv, TypeOK, modeVars
<1>3. CASE Return(t) /\ Unlock(t)
  <2>1. /\ task' \in [Threads -> Task] /\ task'[t] = Idle
        /\ \A u \in Threads : u # t => task'[u] = task[u]
    BY <1>3, IdleType, GoType DEF TypeInv, Return
  <2>2. SmartRequests'
    BY <2>1, IdleType DEF TypeInv, SmartRequests, SmartPlaces, Inside
  <2>3. lock' \in [Symbols -> Threads \cup {NONE}]
    BY <1>3 DEF Unlock, TypeInv, TypeOK
  <2>4. ASSUME NEW u \in Threads
        PROVE  /\ task'[u].at \in {"publish", "store", "route"} => task'[u].mode \in Modes
               /\ task'[u].at \in Inside => lock'[Sym(u)'] = u
    <3>1. CASE u = t
      BY <2>1, <3>1, IdleType DEF Inside
    <3>2. CASE u # t
      <4>1. task'[u] = task[u]
        BY <2>1, <3>2
      <4>2. task[u].at \in Inside => lock[Sym(u)] = u /\ lock[Sym(t)] = t
        BY DEF TypeInv, TypeOK
      <4>3. task[u].at \in Inside => lock'[Sym(u)] = u
        BY <1>3, <3>2, <4>2 DEF Unlock, TypeInv, TypeOK
      <4>4. QED
        BY <4>1, <4>3 DEF TypeInv, TypeOK, Sym
    <3>3. QED
      BY <3>1, <3>2
  <2>5. QED
    BY <2>1, <2>2, <2>3, <2>4 DEF TypeInv, TypeOK, modeVars
<1>4. QED
  BY <1>2, <1>3

LEMMA LockType ==
  ASSUME TypeInv, NEW t \in Threads, Lock(t)
  PROVE  TypeInv'
<1> DEFINE next == [task[t] EXCEPT !.at = IF snap = NONE THEN "fetch" ELSE "order",
                                   !.view = snap]
<1>1. /\ Sym(t) \in Symbols /\ lock[Sym(t)] = NONE
      /\ lock' = [lock EXCEPT ![Sym(t)] = t]
  BY SymType DEF Lock, At, TypeInv, SmartPlaces
<1>2. next \in Task /\ next.at \in Inside /\ next.req = task[t].req
  <2>1. task[t] \in Task /\ snap \in Positions \cup {NONE}
    BY DEF TypeInv, TypeOK
  <2>2. QED
    BY <2>1 DEF Task, Places, Inside
<1>3. /\ task' \in [Threads -> Task] /\ task'[t] = next
      /\ \A u \in Threads : u # t => task'[u] = task[u]
  BY <1>2, GoType DEF TypeInv, Lock
<1>4. SmartRequests'
  <2>1. task[t].req \in Requests /\ task[t].req.op = "smart"
    BY DEF TypeInv, SmartRequests, SmartPlaces, Lock, At
  <2>2. QED
    BY <1>2, <1>3, <2>1 DEF TypeInv, SmartRequests
<1>5. lock' \in [Symbols -> Threads \cup {NONE}] /\ lock'[Sym(t)] = t
  BY <1>1 DEF TypeInv, TypeOK
<1>6. ASSUME NEW u \in Threads
      PROVE  /\ task'[u].at \in {"publish", "store", "route"} => task'[u].mode \in Modes
             /\ task'[u].at \in Inside => lock'[Sym(u)'] = u
  <2>1. CASE u = t
    BY <1>2, <1>3, <1>5, <2>1 DEF Inside, Sym
  <2>2. CASE u # t
    <3>1. task[u].at \in Inside => Sym(u) # Sym(t) /\ lock[Sym(u)] = u
      BY <1>1, DispatchAssumption DEF TypeInv, TypeOK
    <3>2. task[u].at \in Inside => lock'[Sym(u)] = u
      BY <1>1, <3>1 DEF TypeInv, TypeOK
    <3>3. QED
      BY <1>3, <2>2, <3>2 DEF TypeInv, TypeOK, Sym
  <2>3. QED
    BY <2>1, <2>2
<1>7. QED
  BY <1>3, <1>4, <1>5, <1>6 DEF Lock, TypeInv, TypeOK, modeVars, bookVars

\* What a smart order finds the broker willing to fill stays within the limit.
LEMMA OrderFillType ==
  ASSUME TypeInv, NEW t \in Threads, Fill(t)
  PROVE  real' \in Positions
<1>1. real \in Positions
  BY DEF TypeInv, TypeOK
<1>2. QED
  BY <1>1, FillType DEF Fill

LEMMA SmartType ==
  ASSUME TypeInv, NEW t \in Threads, Fetch(t) \/ Keep(t) \/ Order(t) \/ Drop(t)
  PROVE  TypeInv'
<1>0. /\ task[t] \in Task
      /\ real \in Positions /\ snap \in Positions \cup {NONE}
  BY DEF TypeInv, TypeOK
<1>1. CASE Fetch(t)
  <2>1. \/ /\ UNCHANGED lock
           /\ Go(t, [task[t] EXCEPT !.at = "keep", !.view = real])
        \/ Return(t) /\ Unlock(t)
    BY <1>1 DEF Fetch
  <2>2. QED
    BY <1>0, <1>1, <2>1, InsideType DEF Fetch, At, Inside, bookVars
<1>2. CASE Keep(t)
  <2>1. Go(t, [task[t] EXCEPT !.at = "order", !.view = task[t].view])
    BY <1>0, <1>2 DEF Keep, Go, Task
  <2>2. task[t].view \in Positions \cup {NONE}
    BY <1>0 DEF Task
  <2>3. QED
    BY <1>0, <1>2, <2>1, <2>2, InsideType DEF Keep, At, Inside, bookVars
<1>3. CASE Order(t)
  <2>1. real' \in Positions
    BY <1>0, <1>3, OrderFillType DEF Order
  <2>2. task[t].view \in Positions \cup {NONE}
    BY <1>0 DEF Task
  <2>3. \/ UNCHANGED lock /\ Go(t, [task[t] EXCEPT !.at = "drop", !.view = task[t].view])
        \/ Return(t) /\ Unlock(t)
    <3>1. [task[t] EXCEPT !.at = "drop"]
            = [task[t] EXCEPT !.at = "drop", !.view = task[t].view]
      BY <1>0 DEF Task
    <3>2. QED
      BY <1>3, <3>1 DEF Order
  <2>4. QED
    BY <1>0, <1>3, <2>1, <2>2, <2>3, InsideType DEF Order, At, Inside
<1>4. CASE Drop(t)
  BY <1>0, <1>4, InsideType DEF Drop, At, Inside, bookVars
<1>5. QED
  BY <1>1, <1>2, <1>3, <1>4

LEMMA StepType ==
  ASSUME TypeInv, [Next]_vars
  PROVE  TypeInv'
<1>1. CASE \E t \in Threads : Begin(t) \/ Step(t)
  BY <1>1, BeginType, DispatchType, SendType, LockType, SmartType DEF Step
<1>2. CASE Expire
  BY <1>2 DEF Expire, TypeInv, TypeOK, SmartRequests, Sym, bookVars, smartVars
<1>3. CASE Age
  BY <1>3 DEF Age, TypeInv, TypeOK, SmartRequests, Sym, bookVars, modeVars
<1>4. CASE UNCHANGED vars
  BY <1>4 DEF TypeInv, TypeOK, SmartRequests, Sym, vars, bookVars, smartVars, modeVars
<1>5. QED
  BY <1>1, <1>2, <1>3, <1>4 DEF Next

LEMMA InitType == Init => TypeInv
<1> SUFFICES ASSUME Init PROVE TypeInv
  OBVIOUS
<1>1. task \in [Threads -> Task] /\ \A t \in Threads : task[t].at = "idle"
  BY IdleType DEF Init
<1>2. paper \in Positions /\ real \in Positions
  BY DispatchAssumption DEF Init, Positions
<1>3. QED
  BY <1>1, <1>2, DispatchAssumption
     DEF Init, TypeInv, TypeOK, SmartRequests, SmartPlaces, Inside

LEMMA TypeInvariant == Spec => []TypeInv
<1>1. QED
  BY InitType, StepType, PTL DEF Spec

\* Every thread that uses a mode has one, and between the snapshot of the
\* positions and the end of its smart order a thread is the only one inside
\* the lock of its symbol (trading_mode_service.py, place_smartorder_api).
THEOREM DispatchTypes == Spec => []TypeOK
<1>1. TypeInv => TypeOK
  BY DEF TypeInv
<1>2. QED
  BY <1>1, TypeInvariant, PTL

-----------------------------------------------------------------------------
(* Smart orders of an account that trades one symbol *)

\* Unless an order went past the smart orders since positions were read, what
\* a smart order goes by, and the cached positions when no order is about to
\* drop them, are the broker's; who reads the broker found none cached.
SeesReal(s) ==
  /\ \A t \in Threads : task[t].at \in {"keep", "order"} /\ s \notin loose
                        => task[t].view[s] = real[s]
  /\ \A t \in Threads : task[t].at = "fetch" => snap = NONE
  /\ (/\ \A t \in Threads : task[t].at # "drop"
      /\ snap # NONE /\ s \notin loose) => snap[s] = real[s]

\* The thread is where it was, or moves outside the symbol locks.
StaysOut(u) ==
  task'[u] = task[u] \/ (task'[u].at \notin Inside /\ task[u].at \notin Inside)

LEMMA OneInside ==
  ASSUME TypeInv, NEW s, Symbols = {s},
         NEW t \in Threads, task[t].at \in Inside
  PROVE  /\ Sym(t) = s /\ lock[s] = t
         /\ \A u \in Threads : u # t => task[u].at \notin Inside
<1>1. \A u \in Threads : task[u].at \in Inside => Sym(u) = s /\ lock[Sym(u)] = u
  BY SymType DEF TypeInv, TypeOK, SmartPlaces
<1>2. QED
  BY <1>1

\* Where the thread that takes a step goes, and that the others stay.
LEMMA Moves ==
  ASSUME TypeInv, NEW t \in Threads, NEW next, Go(t, next)
  PROVE  task'[t] = next /\ \A u \in Threads : u # t => task'[u] = task[u]
  BY DEF TypeInv, TypeOK, Go

\* A step outside the symbol locks that leaves the broker's position of the
\* symbol alone, or records that it did not.
LEMMA OutsideSees ==
  ASSUME NEW s, SeesReal(s),
         \A u \in Threads : StaysOut(u),
         snap' \in {snap, NONE}, loose \subseteq loose',
         real'[s] = real[s] \/ s \in loose'
  PROVE  SeesReal(s)'
<1>1. ASSUME NEW t \in Threads, task'[t].at \in Inside
      PROVE  task'[t] = task[t]
  BY <1>1 DEF StaysOut
<1>2. \A t \in Threads : task'[t].at \in {"keep", "order"} /\ s \notin loose'
                        => task'[t].view[s] = real'[s]
  BY <1>1 DEF SeesReal, Inside
<1>3. \A t \in Threads : task'[t].at = "fetch" => snap' = NONE
  BY <1>1 DEF SeesReal, Inside
<1>4. (\A t \in Threads : task'[t].at # "drop") => \A t \in Threads : task[t].at # "drop"
  BY DEF Inside, StaysOut
<1>5. QED
  BY <1>2, <1>3, <1>4 DEF SeesReal

LEMMA DispatchSees ==
  ASSUME TypeInv, NEW s, Symbols = {s}, SeesReal(s), NEW t \in Threads,
         \/ Begin(t) \/ Publish(t) \/ Load(t) \/ Store(t) \/ Route(t)
         \/ SendPaper(t) \/ SendBroker(t) \/ Answer(t)
  PROVE  SeesReal(s)'
<1>1. \A u \in Threads : u # t => task'[u] = task[u]
  BY DEF TypeInv, TypeOK, Begin, Switch, AskMode, AskDirect, AskSmart, Publish, Load,
         Store, Route, SendPaper, SendBroker, Answer, Proceed, Send, Return, Go
<1>2. task[t].at \in {"idle", "publish", "load", "store", "route", "send"}
  BY DEF Begin, Switch, AskMode, AskDirect, AskSmart, Publish, Load, Store, Route,
         SendPaper, SendBroker, Answer, At
<1>3. task'[t] = task[t] \/ task'[t].at \notin Inside
  <2>0. task \in [Threads -> Task] /\ task[t] \in Task
    BY DEF TypeInv, TypeOK
  <2>1. CASE Begin(t)
    <3>2. ASSUME NEW m \in Modes, Switch(t, m)
          PROVE  task'[t].at \notin Inside
      BY <2>0, <3>2 DEF Switch, Go, Idle, Inside
    <3>3. ASSUME NEW q \in Requests, AskMode(t, q)
          PROVE  task'[t].at \notin Inside
      BY <2>0, <3>3 DEF AskMode, Go, Idle, Inside
    <3>4. ASSUME NEW q \in Requests, AskDirect(t, q)
          PROVE  task'[t].at \notin Inside
      BY <2>0, <3>4 DEF AskDirect, Send, Go, Idle, Inside
    <3>5. ASSUME NEW q \in Requests, AskSmart(t, q)
          PROVE  task'[t].at \notin Inside
      BY <2>0, <3>5 DEF AskSmart, Go, Idle, Inside
    <3>6. QED
      BY <2>1, <3>2, <3>3, <3>4, <3>5 DEF Begin
  <2>2. CASE Load(t) \/ Store(t)
    BY <2>0, <2>2 DEF Load, Store, Go, Task, Inside
  <2>3. CASE Publish(t) \/ Route(t) \/ Answer(t)
    <3>1. \/ Return(t)
          \/ Go(t, [Idle EXCEPT !.at = "send", !.req = task[t].req,
                                !.book = Book(task[t].mode)])
      BY <2>3 DEF Publish, Route, Answer, Send
    <3>2. QED
      <4>1. CASE Return(t)
        BY <2>0, <4>1 DEF Return, Go, Idle, Inside
      <4>2. CASE Go(t, [Idle EXCEPT !.at = "send", !.req = task[t].req,
                                    !.book = Book(task[t].mode)])
        BY <2>0, <4>2 DEF Go, Idle, Inside
      <4>3. QED
        BY <3>1, <4>1, <4>2
  <2>4. CASE SendPaper(t) \/ SendBroker(t)
    BY <2>0, <2>4 DEF SendPaper, SendBroker, Proceed, Send, Go, Idle, Inside
  <2>5. QED
    BY <2>1, <2>2, <2>3, <2>4
<1>4. real'[s] = real[s] \/ s \in loose'
  <2>1. CASE SendBroker(t)
    <3>1. \/ real' = real
          \/ \E x, n : real' = [real EXCEPT ![x] = n] /\ x \in loose'
      BY <2>1 DEF SendBroker
    <3>2. QED
      BY <3>1 DEF TypeInv, TypeOK, Positions
  <2>2. QED
    BY <2>1 DEF Begin, Switch, AskMode, AskDirect, AskSmart, Publish, Load, Store, Route,
                SendPaper, Answer, bookVars
<1>5. snap' = snap /\ loose \subseteq loose'
  BY DEF Begin, Switch, AskMode, AskDirect, AskSmart, Publish, Load, Store, Route,
         SendPaper, SendBroker, Answer, smartVars
<1>6. task[t].at \notin Inside
  BY <1>2 DEF Inside
<1>7. /\ \A u \in Threads : StaysOut(u)
      /\ snap' \in {snap, NONE}
  <2>1. snap' \in {snap, NONE}
    BY <1>5
  <2>2. ASSUME NEW u \in Threads
        PROVE  StaysOut(u)
    <3>1. CASE u = t
      BY <1>3, <1>6, <3>1 DEF StaysOut
    <3>2. QED
      BY <1>1, <3>1 DEF StaysOut
  <2>3. QED
    BY <2>1, <2>2
<1>8. QED
  BY <1>4, <1>5, <1>7, OutsideSees

LEMMA LockSees ==
  ASSUME TypeInv, NEW s, Symbols = {s}, SeesReal(s), NEW t \in Threads, Lock(t)
  PROVE  SeesReal(s)'
<1> DEFINE next == [task[t] EXCEPT !.at = IF snap = NONE THEN "fetch" ELSE "order",
                                   !.view = snap]
<1>1. task'[t] = next /\ \A u \in Threads : u # t => task'[u] = task[u]
  BY Moves DEF Lock
<1>2. /\ next.at = (IF snap = NONE THEN "fetch" ELSE "order") /\ next.view = snap
  BY DEF TypeInv, TypeOK, Task
<1>3. \A u \in Threads : task[u].at \notin Inside
  <2>1. lock[s] = NONE
    BY SymType DEF Lock, At, TypeInv, SmartPlaces
  <2>2. QED
    BY <2>1, OneInside, DispatchAssumption
<1>4. QED
  <2>1. \A u \in Threads : task[u].at # "drop"
    BY <1>3 DEF Inside
  <2>2. snap # NONE /\ s \notin loose => snap[s] = real[s]
    BY <2>1 DEF SeesReal
  <2>3. UNCHANGED <<real, snap, loose>>
    BY DEF Lock, bookVars
  <2>4. \A u \in Threads : task'[u].at \in Inside => u = t
    BY <1>1, <1>3
  <2>8. /\ task'[t].at = "order" => snap # NONE
        /\ task'[t].at = "fetch" => snap = NONE
        /\ task'[t].at # "keep" /\ task'[t].view = snap
    BY <1>1, <1>2
  <2>5. \A u \in Threads : task'[u].at \in {"keep", "order"} =>
          task'[u].view = snap /\ snap # NONE
    BY <2>4, <2>8 DEF Inside
  <2>6. \A u \in Threads : task'[u].at = "fetch" => snap = NONE
    BY <2>4, <2>8 DEF Inside
  <2>7. QED
    BY <2>2, <2>3, <2>5, <2>6 DEF SeesReal

LEMMA SmartSees ==
  ASSUME TypeInv, NEW s, Symbols = {s}, SeesReal(s), NEW t \in Threads,
         Fetch(t) \/ Keep(t) \/ Order(t) \/ Drop(t)
  PROVE  SeesReal(s)'
<1>0. task[t] \in Task /\ task[t].at \in Inside
  BY DEF TypeInv, TypeOK, Fetch, Keep, Order, Drop, At, Inside
<1>1. Sym(t) = s /\ \A u \in Threads : u # t => task[u].at \notin Inside
  BY <1>0, OneInside
<1>2. Idle.at \notin Inside
  BY DEF Idle, Inside
<1>3. CASE Fetch(t)
  <2>1. CASE Go(t, [task[t] EXCEPT !.at = "keep", !.view = real]) /\ loose' = {}
    <3> DEFINE next == [task[t] EXCEPT !.at = "keep", !.view = real]
    <3>1. next.at = "keep" /\ next.view = real
      BY <1>0 DEF Task
    <3>2. task'[t] = next /\ \A u \in Threads : u # t => task'[u] = task[u]
      BY <2>1, Moves
    <3>3. snap = NONE
      BY <1>3 DEF Fetch, At, SeesReal
    <3>4. QED
      BY <1>1, <1>3, <3>1, <3>2, <3>3 DEF SeesReal, Fetch, Inside, bookVars
  <2>2. CASE Return(t) /\ UNCHANGED loose
    <3>1. task'[t] = Idle /\ \A u \in Threads : u # t => task'[u] = task[u]
      BY <2>2, Moves DEF Return
    <3>2. snap = NONE
      BY <1>3 DEF Fetch, At, SeesReal
    <3>3. QED
      BY <1>1, <1>2, <1>3, <3>1, <3>2 DEF SeesReal, Fetch, Inside, bookVars
  <2>3. QED
    BY <1>3, <2>1, <2>2 DEF Fetch
<1>4. CASE Keep(t)
  <2> DEFINE next == [task[t] EXCEPT !.at = "order"]
  <2>1. next.at = "order" /\ next.view = task[t].view
    BY <1>0 DEF Task
  <2>2. task'[t] = next /\ \A u \in Threads : u # t => task'[u] = task[u]
    BY <1>4, Moves DEF Keep
  <2>3. QED
    <3>1. /\ task[t].at = "keep" /\ snap' = task[t].view
          /\ UNCHANGED <<real, loose>>
      BY <1>4 DEF Keep, At, bookVars
    <3>2. s \notin loose => task[t].view[s] = real[s]
      BY <3>1 DEF SeesReal
    <3>3. \A u \in Threads : task'[u].at \in Inside => u = t
      BY <1>1, <2>2
    <3>4. \A u \in Threads : task'[u].at \in {"keep", "order"} => task'[u].view = task[t].view
      BY <2>1, <2>2, <3>3 DEF Inside
    <3>5. \A u \in Threads : task'[u].at # "fetch"
      BY <2>1, <2>2, <3>3 DEF Inside
    <3>6. QED
      BY <3>1, <3>2, <3>4, <3>5 DEF SeesReal
<1>5. CASE Order(t)
  <2>0. ~(Return(t) /\ Go(t, [task[t] EXCEPT !.at = "drop"]))
    <3>1. [task[t] EXCEPT !.at = "drop"].at # Idle.at
      BY <1>0 DEF Task, Idle
    <3>2. QED
      <4> SUFFICES ASSUME Return(t), Go(t, [task[t] EXCEPT !.at = "drop"])
                   PROVE  FALSE
        OBVIOUS
      <4>1. task'[t] = Idle
        BY Moves DEF Return
      <4>2. task'[t] = [task[t] EXCEPT !.at = "drop"]
        BY Moves
      <4>3. QED
        BY <3>1, <4>1, <4>2
  <2>1. CASE Return(t)
    <3>1. task'[t] = Idle /\ \A u \in Threads : u # t => task'[u] = task[u]
      BY <2>1, Moves DEF Return
    <3>2. loose \subseteq loose' /\ (real' = real \/ s \in loose')
      BY <1>1, <1>5, <2>0, <2>1 DEF Order
    <3>3. \A u \in Threads : task[u].at # "drop"
      BY <1>1, <1>5 DEF Order, At, Inside
    <3>4. QED
      BY <1>1, <1>2, <1>5, <3>1, <3>2, <3>3 DEF SeesReal, Order, Inside
  <2>2. CASE Go(t, [task[t] EXCEPT !.at = "drop"])
    <3> DEFINE next == [task[t] EXCEPT !.at = "drop"]
    <3>1. next.at = "drop"
      BY <1>0 DEF Task
    <3>2. task'[t] = next /\ \A u \in Threads : u # t => task'[u] = task[u]
      BY <2>2, Moves
    <3>3. QED
      BY <1>1, <3>1, <3>2 DEF SeesReal, Inside
  <2>3. QED
    BY <1>5, <2>1, <2>2 DEF Order
<1>6. CASE Drop(t)
  <2>1. task'[t] = Idle /\ \A u \in Threads : u # t => task'[u] = task[u]
    BY <1>6, Moves DEF Drop, Return
  <2>2. QED
    BY <1>1, <1>2, <1>6, <2>1 DEF SeesReal, Drop, Inside, bookVars
<1>7. QED
  BY <1>3, <1>4, <1>5, <1>6

LEMMA StepSees ==
  ASSUME TypeInv, NEW s, Symbols = {s}, SeesReal(s), [Next]_vars
  PROVE  SeesReal(s)'
<1>1. CASE \E t \in Threads : Begin(t) \/ Step(t)
  BY <1>1, DispatchSees, LockSees, SmartSees DEF Step
<1>2. CASE Expire \/ Age \/ UNCHANGED vars
  <2>1. /\ \A u \in Threads : task'[u] = task[u]
        /\ UNCHANGED <<real, loose>> /\ snap' \in {snap, NONE}
    BY <1>2 DEF Expire, Age, vars, bookVars, smartVars
  <2>2. real'[s] = real[s] /\ loose \subseteq loose'
    BY <2>1
  <2>3. \A u \in Threads : StaysOut(u)
    BY <2>1 DEF StaysOut
  <2>4. snap' \in {snap, NONE}
    BY <2>1
  <2>5. QED
    BY <2>2, <2>3, <2>4, OutsideSees
<1>3. QED
  BY <1>1, <1>2 DEF Next

\* Only its own order takes a thread on from there.
LEMMA OnlyOrder ==
  ASSUME TypeInv, NEW t \in Threads, At(t, "order"), ~At(t, "order")', [Next]_vars
  PROVE  Order(t)
<1>1. task'[t] # task[t]
  BY DEF At
<1>2. ASSUME NEW u \in Threads, u # t, Begin(u) \/ Step(u)
      PROVE  task'[t] = task[t]
  BY <1>2 DEF TypeInv, TypeOK, Begin, Step, Switch, AskMode, AskDirect, AskSmart, Publish,
         Load, Store, Route, SendPaper, SendBroker, Answer, Lock, Fetch, Keep, Order, Drop,
         Proceed, Send, Return, Go
<1>3. Begin(t) \/ Step(t)
  BY <1>1, <1>2 DEF Next, Expire, Age, vars
<1>4. QED
  BY <1>3 DEF Begin, Step, Switch, AskMode, AskDirect, AskSmart, Publish, Load, Store, Route,
         SendPaper, SendBroker, Answer, Lock, Fetch, Keep, Drop, At

LEMMA OrderMeets ==
  ASSUME TypeInv, NEW s, Symbols = {s}, SeesReal(s), NEW t \in Threads, Order(t),
         Sym(t) \notin loose
  PROVE  Meets(t)
<1>1. Sym(t) = s /\ task[t].at = "order"
  BY OneInside DEF Order, At, Inside
<1>2. real \in Positions /\ real[s] \in Int
  BY DEF TypeInv, TypeOK, Positions
<1>3. Need(t) = Needed(task[t].req.size, real[s], Head(task[t].req.legs).qty)
  BY <1>1 DEF SeesReal, Need
<1>4. CASE Need(t) = 0
  BY <1>1, <1>2, <1>3, <1>4 DEF Order, Meets
<1>5. CASE Need(t) # 0 /\ real' = real
  BY <1>5 DEF Meets
<1>6. CASE Fill(t)
  BY <1>1, <1>2, <1>3, <1>6 DEF Fill, Meets, Positions
<1>7. QED
  BY <1>4, <1>5, <1>6 DEF Order

\* However the smart orders of an account that trades one symbol overlap, with
\* other orders and with each other, each is refused or leaves the broker's
\* position at the size it was asked for, unless an order that went past them,
\* or whose answer was lost, was filled since the positions were read: the
\* lock of the symbol and the drop of the cached positions suffice
\* (place_smartorder_api). With two symbols it fails.
THEOREM SmartOrdersMeetTarget ==
  ASSUME NEW s, Symbols = {s}
  PROVE  Spec => SmartOrderMeetsTarget
<1>1. Init => SeesReal(s)
  BY IdleType DEF Init, SeesReal
<1>2. TypeInv /\ SeesReal(s) /\ [Next]_vars => SeesReal(s)'
  BY StepSees
<1>3. TypeInv /\ SeesReal(s) /\ [Next]_vars
        => \A t \in Threads :
             At(t, "order") /\ ~At(t, "order")' /\ Sym(t) \notin loose => Meets(t)
  BY OnlyOrder, OrderMeets
<1>4. QED
  BY <1>1, <1>2, <1>3, TypeInvariant, PTL DEF Spec, SmartOrderMeetsTarget
=============================================================================
