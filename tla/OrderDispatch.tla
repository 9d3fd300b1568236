--------------------------- MODULE OrderDispatch ---------------------------
(* Where an order goes. The trading mode is one row of app_settings behind a  *)
(* cache with a lifetime (trading_mode_service.py); the order services read   *)
(* it and choose between the paper book and the broker, and go on to the      *)
(* broker when the paper book raises (order_service.py and its copies).       *)
(* Position-aware orders do not ask for the mode; they size themselves from   *)
(* the broker plugin's cached positions (broker/zerodha/api/order_api.py).    *)
(* Every order is a MARKET order; the broker and the paper book fill it at    *)
(* once or refuse it. A quantity is signed: BUY is positive.                  *)
EXTENDS Integers, Sequences, SequencesExt

CONSTANTS
  Threads,      \* request threads and web handlers
  Symbols,
  NONE,
  Requests,     \* what they may ask for: [op, legs, size]
  PaperFails,   \* whether the paper book may raise for want of its database
  MaxPos,       \* the broker and the paper book refuse a larger position
  MaxEvents     \* bound on the switches of the mode and its failed reads

Modes == {"live", "sandbox"}
Dispatching == {"place", "basket", "closeall"}   \* ask for the mode
Direct == {"split", "multi"}                     \* go to the broker

ASSUME DispatchAssumption ==
  /\ NONE \notin Threads \cup Modes
  /\ PaperFails \in BOOLEAN
  /\ \A r \in Requests : r.op = "smart" => Head(r.legs).sym \in Symbols
  /\ MaxPos \in Nat /\ MaxEvents \in Nat

VARIABLES
  row,       \* app_settings.trading_mode
  cache,     \* _cached_mode while it has not expired, NONE otherwise
  events,    \* switches and failed reads so far
  task,      \* per thread: where it stands, its request and what it has read
  todo,      \* per thread: the orders it has still to send
  paper,     \* net position of the paper book, by symbol
  real,      \* net position at the broker, by symbol
  snap,      \* _position_cache of the account, NONE when absent or too old
  lock,      \* _symbol_locks: the holder
  loose      \* history: symbols the broker filled an order of, past the smart
             \* orders or with its answer lost, since positions were last read

modeVars == <<row, cache, events>>
bookVars == <<paper, real, todo>>
smartVars == <<snap, lock, loose>>
vars == <<modeVars, task, bookVars, smartVars>>

-----------------------------------------------------------------------------
(* Orders *)

Book(mode) == IF mode = "sandbox" THEN "paper" ELSE "broker"

\* BUY legs go before SELL legs.
BuysFirst(legs) ==
  SelectSeq(legs, LAMBDA o : o.qty > 0) \o SelectSeq(legs, LAMBDA o : o.qty < 0)

\* Full chunks of `size`, then what remains.
Chunks(o, size) ==
  LET sign == IF o.qty > 0 THEN 1 ELSE -1
      full == (sign * o.qty) \div size
      rest == (sign * o.qty) % size
  IN [i \in 1 .. full + (IF rest > 0 THEN 1 ELSE 0) |->
        [o EXCEPT !.qty = sign * (IF i <= full THEN size ELSE rest)]]

\* The opposite order for every open position.
Closing(pos) ==
  LET open == SetToSeq({s \in Symbols : pos[s] # 0})
  IN [i \in DOMAIN open |-> [sym |-> open[i], qty |-> - pos[open[i]]]]

Legs(r, pos) ==
  CASE r.op = "closeall" -> Closing(pos)
    [] r.op = "split"    -> Chunks(Head(r.legs), r.size)
    [] r.op = "place"    -> r.legs
    [] OTHER             -> BuysFirst(r.legs)

\* What a smart order sends to bring `have` to `size`; with both zero it
\* sends the quantity it was given.
Needed(size, have, qty) == IF size = 0 /\ have = 0 THEN qty ELSE size - have

InRange(n) == n \in -MaxPos .. MaxPos

\* A fill in the direction of an open paper position raises after the trade
\* is recorded and before the position is written.
Raises(o) == paper[o.sym] * o.qty > 0

-----------------------------------------------------------------------------
(* Trading mode *)

Idle == [at |-> "idle", req |-> NONE, mode |-> NONE, book |-> NONE, view |-> NONE]

Go(t, next) == task' = [task EXCEPT ![t] = next]
Return(t) == Go(t, Idle)
At(t, place) == task[t].at = place
Sym(t) == Head(task[t].req.legs).sym

\* set_trading_mode commits the row ...
Switch(t, mode) ==
  /\ At(t, "idle") /\ events < MaxEvents
  /\ row' = mode /\ events' = events + 1
  /\ Go(t, [Idle EXCEPT !.at = "publish", !.mode = mode])
  /\ UNCHANGED <<cache, bookVars, smartVars>>

\* ... and then writes the cache, which another writer may have done since.
Publish(t) ==
  /\ At(t, "publish")
  /\ cache' = task[t].mode
  /\ Return(t)
  /\ UNCHANGED <<row, events, bookVars, smartVars>>

\* Mutant of Expire: the test of the expiry is dropped.
ExpireNever == cache # NONE /\ UNCHANGED vars

\* The lifetime of the cached value is over.
Expire ==
  /\ cache # NONE /\ cache' = NONE
  /\ UNCHANGED <<row, events, task, bookVars, smartVars>>

\* A request that dispatches, or one that only shows the mode, takes the mode
\* from the cache, or leaves for the database.
AskMode(t, r) ==
  /\ At(t, "idle") /\ r.op \in Dispatching \cup {"status"}
  /\ Go(t, [Idle EXCEPT !.req = r, !.mode = cache,
                        !.at = IF cache = NONE THEN "load" ELSE "route"])
  /\ UNCHANGED <<modeVars, bookVars, smartVars>>

\* Mutant of Load: a failed read is passed on as no mode.
LoadNothing(t) ==
  /\ At(t, "load")
  /\ \E m \in {row, NONE} : Go(t, [task[t] EXCEPT !.at = "route", !.mode = m])
  /\ UNCHANGED <<modeVars, bookVars, smartVars>>

\* A failed read is "live" and is not cached.
Load(t) ==
  /\ At(t, "load")
  /\ \/ /\ Go(t, [task[t] EXCEPT !.at = "store", !.mode = row])
        /\ UNCHANGED events
     \/ /\ events < MaxEvents /\ events' = events + 1
        /\ Go(t, [task[t] EXCEPT !.at = "route", !.mode = "live"])
  /\ UNCHANGED <<row, cache, bookVars, smartVars>>

Store(t) ==
  /\ At(t, "store")
  /\ cache' = task[t].mode
  /\ Go(t, [task[t] EXCEPT !.at = "route"])
  /\ UNCHANGED <<row, events, bookVars, smartVars>>

-----------------------------------------------------------------------------
(* Dispatch *)

Send(t, r, book) ==
  /\ Go(t, [Idle EXCEPT !.at = "send", !.req = r, !.book = book])
  /\ todo' = [todo EXCEPT ![t] = Legs(r, IF book = "paper" THEN paper ELSE real)]

Route(t) ==
  /\ At(t, "route")
  /\ IF task[t].req.op = "status"
       THEN Return(t) /\ UNCHANGED todo
       ELSE Send(t, task[t].req, Book(task[t].mode))
  /\ UNCHANGED <<modeVars, paper, real, smartVars>>

\* Split orders and option baskets never ask for the mode.
AskDirect(t, r) ==
  /\ At(t, "idle") /\ r.op \in Direct
  /\ Send(t, r, "broker")
  /\ UNCHANGED <<modeVars, paper, real, smartVars>>

Proceed(t) == todo' = [todo EXCEPT ![t] = Tail(@)] /\ UNCHANGED task

\* The paper book rejects the order, fills it, or raises. A basket notes the
\* error and goes on; the other services fall back to the broker.
SendPaper(t) ==
  LET o == Head(todo[t])
  IN /\ At(t, "send") /\ task[t].book = "paper" /\ todo[t] # <<>>
     /\ \/ Proceed(t) /\ UNCHANGED paper
        \/ /\ ~Raises(o) /\ InRange(paper[o.sym] + o.qty)
           /\ paper' = [paper EXCEPT ![o.sym] = @ + o.qty]
           /\ Proceed(t)
        \/ /\ Raises(o) \/ PaperFails
           /\ IF task[t].req.op = "basket" THEN Proceed(t)
                                           ELSE Send(t, task[t].req, "broker")
           /\ UNCHANGED paper
     /\ UNCHANGED <<modeVars, real, smartVars>>

SendBroker(t) ==
  LET o == Head(todo[t])
  IN /\ At(t, "send") /\ task[t].book = "broker" /\ todo[t] # <<>>
     /\ \/ UNCHANGED <<real, loose>>
        \/ /\ InRange(real[o.sym] + o.qty)
           /\ real' = [real EXCEPT ![o.sym] = @ + o.qty]
           /\ loose' = loose \cup {o.sym}
     /\ Proceed(t)
     /\ UNCHANGED <<modeVars, paper, snap, lock>>

Answer(t) ==
  /\ At(t, "send") /\ todo[t] = <<>>
  /\ Return(t)
  /\ UNCHANGED <<modeVars, bookVars, smartVars>>

-----------------------------------------------------------------------------
(* Smart orders *)

Unlock(t) == lock' = [lock EXCEPT ![Sym(t)] = NONE]

AskSmart(t, r) ==
  /\ At(t, "idle") /\ r.op = "smart"
  /\ Go(t, [Idle EXCEPT !.at = "lock", !.req = r])
  /\ UNCHANGED <<modeVars, bookVars, smartVars>>

\* Under the lock of the symbol, the cached positions of the account if they
\* are recent, else those of the broker.
Lock(t) ==
  /\ At(t, "lock") /\ lock[Sym(t)] = NONE
  /\ lock' = [lock EXCEPT ![Sym(t)] = t]
  /\ Go(t, [task[t] EXCEPT !.at = IF snap = NONE THEN "fetch" ELSE "order",
                           !.view = snap])
  /\ UNCHANGED <<modeVars, bookVars, snap, loose>>

Fetch(t) ==
  /\ At(t, "fetch")
  /\ \/ /\ Go(t, [task[t] EXCEPT !.at = "keep", !.view = real])
        /\ loose' = {} /\ UNCHANGED lock
     \/ Return(t) /\ Unlock(t) /\ UNCHANGED loose
  /\ UNCHANGED <<modeVars, bookVars, snap>>

Keep(t) ==
  /\ At(t, "keep")
  /\ snap' = task[t].view
  /\ Go(t, [task[t] EXCEPT !.at = "order"])
  /\ UNCHANGED <<modeVars, bookVars, lock, loose>>

Need(t) ==
  Needed(task[t].req.size, task[t].view[Sym(t)], Head(task[t].req.legs).qty)

Fill(t) ==
  /\ InRange(real[Sym(t)] + Need(t))
  /\ real' = [real EXCEPT ![Sym(t)] = @ + Need(t)]

\* No order when the position already matches; otherwise the order is filled
\* or refused and the cache is dropped next, or the call raises, with the
\* order filled when only the answer was lost, and the cache stays.
Order(t) ==
  /\ At(t, "order")
  /\ \/ /\ Need(t) = 0
        /\ Return(t) /\ Unlock(t) /\ UNCHANGED <<real, loose>>
     \/ /\ Need(t) # 0
        /\ Fill(t) \/ UNCHANGED real
        /\ Go(t, [task[t] EXCEPT !.at = "drop"]) /\ UNCHANGED <<lock, loose>>
     \/ /\ Need(t) # 0
        /\ \/ Fill(t) /\ loose' = loose \cup {Sym(t)}
           \/ UNCHANGED <<real, loose>>
        /\ Return(t) /\ Unlock(t)
  /\ UNCHANGED <<modeVars, paper, todo, snap>>

\* Mutant of Drop: the cached positions survive the order.
DropKeeps(t) ==
  /\ At(t, "drop")
  /\ Return(t) /\ Unlock(t)
  /\ UNCHANGED <<modeVars, bookVars, snap, loose>>

Drop(t) ==
  /\ At(t, "drop")
  /\ snap' = NONE
  /\ Return(t) /\ Unlock(t)
  /\ UNCHANGED <<modeVars, bookVars, loose>>

Age == snap # NONE /\ snap' = NONE /\ UNCHANGED <<modeVars, task, bookVars, lock, loose>>

-----------------------------------------------------------------------------

Init ==
  /\ row \in Modes /\ cache = NONE /\ events = 0
  /\ task = [t \in Threads |-> Idle] /\ todo = [t \in Threads |-> <<>>]
  /\ paper = [s \in Symbols |-> 0] /\ real = [s \in Symbols |-> 0]
  /\ snap = NONE /\ lock = [s \in Symbols |-> NONE] /\ loose = {}

Begin(t) ==
  \/ \E m \in Modes : Switch(t, m)
  \/ \E r \in Requests : AskMode(t, r) \/ AskDirect(t, r) \/ AskSmart(t, r)

Step(t) ==
  \/ Publish(t) \/ Load(t) \/ Store(t) \/ Route(t)
  \/ SendPaper(t) \/ SendBroker(t) \/ Answer(t)
  \/ Lock(t) \/ Fetch(t) \/ Keep(t) \/ Order(t) \/ Drop(t)

Next == (\E t \in Threads : Begin(t) \/ Step(t)) \/ Expire \/ Age

Spec == Init /\ [][Next]_vars

\* A started request is carried on by its thread, and ten seconds pass.
Fairness == (\A t \in Threads : WF_vars(Step(t))) /\ WF_vars(Expire)

FairSpec == Spec /\ Fairness

-----------------------------------------------------------------------------
(* Properties *)

Positions == [Symbols -> -MaxPos .. MaxPos]

Places == {"idle", "publish", "load", "store", "route", "send",
           "lock", "fetch", "keep", "order", "drop"}
Inside == {"fetch", "keep", "order", "drop"}

Task == [at : Places, req : Requests \cup {NONE}, mode : Modes \cup {NONE},
         book : {"paper", "broker", NONE}, view : Positions \cup {NONE}]

\* Types; a thread that uses a mode has one; and a thread between the snapshot of the positions and the end of
\* its smart order holds the lock of its symbol (place_smartorder_api).
TypeOK ==
  /\ row \in Modes /\ cache \in Modes \cup {NONE} /\ events \in 0 .. MaxEvents
  /\ task \in [Threads -> Task]
  /\ paper \in Positions /\ real \in Positions /\ snap \in Positions \cup {NONE}
  /\ lock \in [Symbols -> Threads \cup {NONE}]
  /\ \A t \in Threads :
       /\ task[t].at \in {"publish", "store", "route"} => task[t].mode \in Modes
       /\ task[t].at \in Inside => lock[Sym(t)] = t

\* Whatever readers and writers of the mode overlap, once nobody switches and
\* no read fails any more there is a moment from which every request is routed by the mode in
\* the database: a stale entry of the cache does not outlive its ten seconds
\* for good (_set_cache, get_trading_mode_sync).
SwitchTakesHold ==
  <>[][\A t \in Threads :
         At(t, "route") /\ task'[t].at = "send" => task'[t].book = Book(row)]_vars

\* The position a smart order asks for, and whether its step leaves it.
Meets(t) ==
  LET s == Sym(t)
      r == task[t].req
  IN \/ real'[s] = real[s] + Needed(r.size, real[s], Head(r.legs).qty)
     \/ real' = real /\ Need(t) # 0   \* refused

\* Smart orders of one symbol, however they overlap, are refused or leave the
\* broker's position at the size they were asked for (place_smartorder_api),
\* unless an order that went past them, or whose answer was lost, was filled
\* since the positions were read.
SmartOrderMeetsTarget ==
  [][\A t \in Threads :
       At(t, "order") /\ ~At(t, "order")' /\ Sym(t) \notin loose => Meets(t)]_vars

\* The same whatever else was filled: the order is sized "by comparing desired
\* position with current position" (order_api.py:193).
SmartOrderMeetsTargetAlways ==
  [][\A t \in Threads : At(t, "order") /\ ~At(t, "order")' => Meets(t)]_vars

\* "The broker is never contacted for sandbox orders."
\* (docs/design/ARCHITECTURE.md:389)
PaperStaysPaper == [][real' # real => row = "live"]_vars
=============================================================================
