------------------------ MODULE SandboxSessionProofs ------------------------
(***************************************************************************)
(* Proof that the position and holdings books of any account, with any     *)
(* keys, keep what DeliveryBook promises, if threads, requests and fills   *)
(* take turns: a settlement then commits what it has read, because no      *)
(* other thread is inside a job and what does go on (the clock, the MTM    *)
(* writes, a crash) moves no share.                                        *)
(*                                                                         *)
(* From the same invariant, that jobs leave the margin of what is open     *)
(* blocked and destroy no money: with at most one thread at work, the sums *)
(* over keys and threads change by what its step moves.  The types hold    *)
(* however threads interleave.                                             *)
(***************************************************************************)
EXTENDS SandboxSession, SumProofs

\* Locals that are a record with the fields a task works on in their types.
LocalOK(l) ==
  /\ l = [age |-> l.age, rows |-> l.rows, live |-> l.live, held |-> l.held,
          amt |-> l.amt, pnl |-> l.pnl, cash |-> l.cash, booked |-> l.booked]
  /\ l.rows \in [Keys -> Int] /\ l.live \subseteq Keys /\ l.held \in [Keys -> Int]
LocalsOK(f) == f = [t \in Threads |-> f[t]] /\ \A t \in Threads : LocalOK(f[t])

Rows == [Keys -> [qty : Int, upd : 0..1, trd : 0..1]]
BooksOK == pos \in Rows /\ holding \in [Delivery -> Int] /\ expired \subseteq Contracts
ThreadsOK ==
  /\ agenda = [t \in Threads |-> agenda[t]] /\ pc = [t \in Threads |-> pc[t]]
  /\ LocalsOK(loc)

\* One thread at a time has something to do.
TakeTurns ==
  /\ \A t, u \in Threads : t # u => Idle(t) \/ Idle(u)
  /\ \A t \in Threads : pc[t] # "next" => ~Idle(t)
  /\ up = "down" => \A t \in Threads : Idle(t)
  /\ up = "boot" => Idle("web")

\* What a settlement has read is what is there when it commits.
SettlesWhatItRead(t) ==
  pc[t] = "st_commit" =>
    /\ loc[t].live = {k \in Keys : loc[t].rows[k] # 0} /\ loc[t].live \subseteq Delivery
    /\ \A k \in loc[t].live : loc[t].rows[k] = pos[k].qty /\ pos[k].qty > 0
    /\ \A k \in Delivery : loc[t].held[k] = holding[k]

\* An expiry closes contracts only.
ExpiresContracts(t) == pc[t] = "ex_commit" => \A k \in Delivery : loc[t].rows[k] = 0

DeliveryInv ==
  /\ BooksOK /\ ThreadsOK /\ TakeTurns
  /\ \A t \in Threads : SettlesWhatItRead(t) /\ ExpiresContracts(t)

-----------------------------------------------------------------------------
LEMMA LocalsAtRest == LocalOK(NoLocals) /\ \A a : LocalOK([NoLocals EXCEPT !.age = a])
  BY DEF LocalOK, NoLocals, NoRows

\* Writing the fields of a task's locals one by one, and the locals of one thread.
WithRows(l, r) == [l EXCEPT !.rows = r]
WithLive(l, v) == [l EXCEPT !.live = v]
WithHeld(l, h) == [l EXCEPT !.held = h]
WithAmt(l, a) == [l EXCEPT !.amt = a]
WithPnl(l, p) == [l EXCEPT !.pnl = p]
WithCash(l, c) == [l EXCEPT !.cash = c]
WithBooked(l, b) == [l EXCEPT !.booked = b]
WithAge(l, a) == [l EXCEPT !.age = a]

LEMMA WriteRows ==
  ASSUME NEW l, LocalOK(l), NEW r \in [Keys -> Int]
  PROVE  LocalOK(WithRows(l, r)) /\ WithRows(l, r).rows = r
  BY DEF LocalOK, WithRows

LEMMA WriteLive ==
  ASSUME NEW l, LocalOK(l), NEW v \in SUBSET Keys
  PROVE  /\ LocalOK(WithLive(l, v)) /\ WithLive(l, v).live = v
         /\ WithLive(l, v).rows = l.rows /\ WithLive(l, v).held = l.held
  BY DEF LocalOK, WithLive

LEMMA WriteHeld ==
  ASSUME NEW l, LocalOK(l), NEW h \in [Keys -> Int]
  PROVE  /\ LocalOK(WithHeld(l, h)) /\ WithHeld(l, h).held = h
         /\ WithHeld(l, h).rows = l.rows /\ WithHeld(l, h).live = l.live
  BY DEF LocalOK, WithHeld

LEMMA WriteAmt == ASSUME NEW l, LocalOK(l), NEW a PROVE LocalOK(WithAmt(l, a))
  BY DEF LocalOK, WithAmt

LEMMA WritePnl == ASSUME NEW l, LocalOK(l), NEW p PROVE LocalOK(WithPnl(l, p))
  BY DEF LocalOK, WithPnl

LEMMA WriteCash == ASSUME NEW l, LocalOK(l), NEW c PROVE LocalOK(WithCash(l, c))
  BY DEF LocalOK, WithCash

LEMMA WriteBooked == ASSUME NEW l, LocalOK(l), NEW b PROVE LocalOK(WithBooked(l, b))
  BY DEF LocalOK, WithBooked

LEMMA WriteAge ==
  ASSUME NEW l, LocalOK(l), NEW a
  PROVE  /\ LocalOK(WithAge(l, a)) /\ WithAge(l, a).rows = l.rows
         /\ WithAge(l, a).live = l.live /\ WithAge(l, a).held = l.held
  BY DEF LocalOK, WithAge

\* What a settlement has read: rows r, none deleted yet, and holdings h.
Reading(l, r, v, h) == WithHeld(WithLive(WithRows(l, r), v), h)

LEMMA WriteReading ==
  ASSUME NEW l, LocalOK(l), NEW r \in [Keys -> Int], NEW v \in SUBSET Keys,
         NEW h \in [Keys -> Int]
  PROVE  /\ LocalOK(Reading(l, r, v, h))
         /\ Reading(l, r, v, h).rows = r /\ Reading(l, r, v, h).live = v
         /\ Reading(l, r, v, h).held = h
<1> DEFINE x == WithRows(l, r)
           y == WithLive(x, v)
<1>1. LocalOK(x) /\ x.rows = r
  BY WriteRows
<1> HIDE DEF x
<1>2. LocalOK(y) /\ y.rows = r /\ y.live = v
  BY <1>1, WriteLive
<1> HIDE DEF y
<1>3. LocalOK(WithHeld(y, h)) /\ WithHeld(y, h).rows = r /\ WithHeld(y, h).live = v
      /\ WithHeld(y, h).held = h
  BY <1>2, WriteHeld
<1>4. QED
  BY <1>3 DEF Reading, x, y

LEMMA WriteLocal ==
  ASSUME LocalsOK(loc), NEW t \in Threads, NEW x, LocalOK(x)
  PROVE  LocalsOK([loc EXCEPT ![t] = x]) /\ [loc EXCEPT ![t] = x][t] = x
  BY DEF LocalsOK

LEMMA InitDelivery == Init => DeliveryInv
<1> SUFFICES ASSUME Init PROVE DeliveryInv
  OBVIOUS
<1>1. BooksOK
  BY DEF Init, BooksOK, Rows, NoPosition, Delivery
<1>2. ThreadsOK
  BY LocalsAtRest DEF Init, ThreadsOK, LocalsOK
<1>3. QED
  BY <1>1, <1>2 DEF Init, DeliveryInv, TakeTurns, SettlesWhatItRead, ExpiresContracts,
                    Idle, Threads

-----------------------------------------------------------------------------
(* One step of the thread at work *)

\* The thread at work moves on: the others are idle, so only its own locals count.
LEMMA WorkKeeps ==
  ASSUME DeliveryInv, NEW t \in Threads, ~Idle(t), up' = up,
         BooksOK', ThreadsOK',
         \A u \in Threads \ {t} : agenda'[u] = agenda[u] /\ pc'[u] = pc[u],
         pc'[t] # "next" => ~Idle(t)',
         SettlesWhatItRead(t)', ExpiresContracts(t)'
  PROVE  DeliveryInv'
<1>1. \A u \in Threads \ {t} : Idle(u) /\ pc[u] = "next" /\ Idle(u)' /\ pc'[u] = "next"
  BY DEF DeliveryInv, TakeTurns, Idle
<1>2. TakeTurns'
  BY <1>1 DEF DeliveryInv, TakeTurns, Threads
<1>3. \A u \in Threads : SettlesWhatItRead(u)' /\ ExpiresContracts(u)'
  BY <1>1 DEF SettlesWhatItRead, ExpiresContracts
<1>4. QED
  BY <1>2, <1>3 DEF DeliveryInv

\* Its task is done.
LEMMA DoneKeeps ==
  ASSUME DeliveryInv, NEW t \in Threads, ~Idle(t), up' = up, BooksOK', Done(t)
  PROVE  DeliveryInv'
<1>1. pc'[t] = "next" /\ \A u \in Threads \ {t} : agenda'[u] = agenda[u] /\ pc'[u] = pc[u]
  BY DEF Done, DeliveryInv, ThreadsOK
<1>2. ThreadsOK'
  BY LocalsAtRest DEF Done, DeliveryInv, ThreadsOK, LocalsOK
<1>3. QED
  BY <1>1, <1>2, WorkKeeps DEF SettlesWhatItRead, ExpiresContracts

\* It goes to another place of its task.
LEMMA GotoKeeps ==
  ASSUME DeliveryInv, NEW t \in Threads, ~Idle(t), up' = up, BooksOK',
         NEW c, NEW l, Goto(t, c, l), LocalsOK(l),
         SettlesWhatItRead(t)', ExpiresContracts(t)'
  PROVE  DeliveryInv'
<1>1. /\ \A u \in Threads \ {t} : agenda'[u] = agenda[u] /\ pc'[u] = pc[u]
      /\ ~Idle(t)'
  BY DEF Goto, DeliveryInv, ThreadsOK, Idle
<1>2. ThreadsOK'
  BY DEF Goto, DeliveryInv, ThreadsOK
<1>3. QED
  BY <1>1, <1>2, WorkKeeps

\* At most the places of no other step.
LEMMA GotoElsewhere ==
  ASSUME DeliveryInv, NEW t \in Threads, ~Idle(t), up' = up, BooksOK',
         NEW c, c \notin {"st_commit", "ex_commit"}, NEW l, Goto(t, c, l), LocalsOK(l)
  PROVE  DeliveryInv'
<1>1. pc'[t] = c
  BY DEF Goto, DeliveryInv, ThreadsOK
<1>2. QED
  BY <1>1, GotoKeeps DEF SettlesWhatItRead, ExpiresContracts

-----------------------------------------------------------------------------
(* Trades *)

\* An order changes the row of its key and no other, and leaves the row in its type.
LEMMA TradeTypes ==
  ASSUME BooksOK, NEW k \in Keys, NEW d \in Int, NEW p, Trade(k, d, p)
  PROVE  pos' \in Rows /\ \A j \in Keys \ {k} : pos'[j] = pos[j]
  BY DEF Trade, BooksOK, Rows

\* Users trade and orders are filled while no thread is inside a job.
LEMMA UserKeeps ==
  ASSUME Serial, DeliveryInv, MayTrade, UNCHANGED <<expired, holding, up, agenda, pc, loc>>,
         pos' \in Rows
  PROVE  DeliveryInv'
<1>1. \A t \in Threads : Idle(t) /\ pc[t] = "next"
  BY DEF MayTrade, MayStart, DeliveryInv, TakeTurns
<1>2. QED
  BY <1>1 DEF DeliveryInv, BooksOK, ThreadsOK, TakeTurns, SettlesWhatItRead,
              ExpiresContracts, Idle

\* What one step makes of the rows: one key is traded at most, and nothing is settled.
OneKeyTraded ==
  /\ pos' \in Rows /\ holding' = holding
  /\ \E k \in Keys : \A j \in Keys \ {k} : pos'[j].qty = pos[j].qty

LEMMA OpenTrades ==
  ASSUME Serial, DeliveryInv, NEW k \in Keys, OpenPosition(k) \/ ReducePosition(k)
  PROVE  DeliveryInv' /\ OneKeyTraded
<1>1. PICK d, p : d \in Int /\ Trade(k, d, p)
  BY InputsAssumption DEF OpenPosition, ReducePosition
<1>2. pos' \in Rows /\ \A j \in Keys \ {k} : pos'[j] = pos[j]
  BY <1>1, TradeTypes DEF DeliveryInv
<1>3. /\ UNCHANGED <<expired, holding, up, agenda, pc, loc>>
      /\ MayTrade
  BY DEF OpenPosition, ReducePosition, world, control
<1>4. QED
  BY <1>2, <1>3, UserKeeps DEF OneKeyTraded

LEMMA FillTrades ==
  ASSUME Serial, DeliveryInv, NEW k \in Keys, FillOrder(k)
  PROVE  DeliveryInv' /\ OneKeyTraded
<1>1. pos' \in Rows /\ \A j \in Keys \ {k} : pos'[j] = pos[j]
  BY DEF FillOrder, DeliveryInv, BooksOK, Rows
<1>2. /\ UNCHANGED <<expired, holding, up, agenda, pc, loc>>
      /\ MayTrade
  BY DEF FillOrder, world, control
<1>3. QED
  BY <1>1, <1>2, UserKeeps DEF OneKeyTraded

LEMMA SquareTrades ==
  ASSUME DeliveryInv, NEW t \in Threads, NEW k \in Keys, SquareOff(t, k) \/ SquareOffRefused(t, k)
  PROVE  DeliveryInv' /\ (OneKeyTraded \/ UNCHANGED <<pos, holding>>)
<1>1. pc[t] = "sq_place" /\ ~Idle(t) /\ loc[t].rows[k] \in Int
  BY DEF SquareOff, SquareOffRefused, DeliveryInv, TakeTurns, ThreadsOK, LocalsOK, LocalOK
<1>2. /\ loc' = [loc EXCEPT ![t].rows[k] = 0]
      /\ UNCHANGED <<expired, holding, up, agenda, pc>>
  BY DEF SquareOff, SquareOffRefused, world, book
<1>3. /\ pos' \in Rows
      /\ pos' = pos \/ \A j \in Keys \ {k} : pos'[j] = pos[j]
  <2>1. CASE SquareOffRefused(t, k)
    BY <2>1 DEF SquareOffRefused, book, DeliveryInv, BooksOK
  <2>2. CASE SquareOff(t, k)
    <3>1. PICK p : Trade(k, -loc[t].rows[k], p)
      BY <2>2 DEF SquareOff
    <3>2. -loc[t].rows[k] \in Int
      BY <1>1
    <3>3. QED
      BY <3>1, <3>2, TradeTypes DEF DeliveryInv
  <2>3. QED
    BY <2>1, <2>2
<1>4. LocalsOK(loc')
  <2>1. loc' = [u \in Threads |-> IF u = t THEN [loc[t] EXCEPT !.rows = [loc[t].rows EXCEPT ![k] = 0]]
                                  ELSE loc[u]]
    BY <1>2 DEF DeliveryInv, ThreadsOK, LocalsOK
  <2>2. LocalOK([loc[t] EXCEPT !.rows = [loc[t].rows EXCEPT ![k] = 0]])
    <3>1. [loc[t].rows EXCEPT ![k] = 0] \in [Keys -> Int] /\ LocalOK(loc[t])
      BY DEF DeliveryInv, ThreadsOK, LocalsOK, LocalOK
    <3>2. QED
      BY <3>1, WriteRows DEF WithRows
  <2>3. QED
    BY <2>1, <2>2 DEF DeliveryInv, ThreadsOK, LocalsOK
<1>5. BooksOK' /\ ThreadsOK'
  BY <1>2, <1>3, <1>4 DEF DeliveryInv, BooksOK, ThreadsOK
<1>6. DeliveryInv'
  BY <1>1, <1>2, <1>5, WorkKeeps DEF SettlesWhatItRead, ExpiresContracts, Idle
<1>7. QED
  BY <1>2, <1>3, <1>6 DEF OneKeyTraded

-----------------------------------------------------------------------------
(* Jobs *)

\* No share moves.
NothingMoves ==
  /\ holding' = holding
  /\ \A k \in Delivery : pos'[k].qty = pos[k].qty

\* Long positions move into the holdings, each of them whole.
SettledWhole ==
  \E S \in SUBSET Delivery :
    /\ \A k \in S : pos[k].qty > 0
    /\ \A k \in Delivery : pos'[k].qty = IF k \in S THEN 0 ELSE pos[k].qty
    /\ holding' = [k \in Delivery |-> IF k \in S THEN holding[k] + pos[k].qty ELSE holding[k]]

AllWiped == (\A k \in Delivery : pos'[k].qty = 0) /\ holding' = [k \in Delivery |-> 0]

\* A step that ends a task and leaves the books alone.
LEMMA EndKeeps ==
  ASSUME DeliveryInv, NEW t \in Threads,
         \/ \E j \in Jobs : Mark(t, j)
         \/ SquareOffDone(t) \/ TransferMargin(t) \/ ExpiredAbort(t) \/ BookWrite(t)
         \/ ResetToday(t) \/ WipeFunds(t) \/ Reconcile(t)
  PROVE  DeliveryInv' /\ NothingMoves
<1>1. ~Idle(t)
  BY DEF Mark, SquareOffDone, TransferMargin, ExpiredAbort, BookWrite, ResetToday,
         WipeFunds, Reconcile, AtTask, DeliveryInv, TakeTurns
<1>2. Done(t) /\ UNCHANGED <<pos, holding, expired, up>>
  BY DEF Mark, SquareOffDone, TransferMargin, ExpiredAbort, BookWrite, ResetToday,
         WipeFunds, Reconcile, world, book
<1>3. BooksOK'
  BY <1>2 DEF DeliveryInv, BooksOK
<1>4. QED
  BY <1>1, <1>2, <1>3, DoneKeeps DEF NothingMoves

\* The square-off cancels, releases and lists; an expiry frees and reads the funds.
LEMMA SquareKeeps ==
  ASSUME DeliveryInv, NEW t \in Threads,
         CancelPending(t) \/ CancelRelease(t) \/ ListIntraday(t) \/ FreeMargin(t) \/ BookRead(t)
  PROVE  DeliveryInv' /\ NothingMoves
<1>1. ~Idle(t) /\ UNCHANGED <<pos, holding, expired, up>>
  BY DEF CancelPending, CancelRelease, ListIntraday, FreeMargin, BookRead, AtTask,
         DeliveryInv, TakeTurns, world, book
<1>2. BooksOK' /\ NothingMoves
  BY <1>1 DEF DeliveryInv, BooksOK, NothingMoves
<1>3. LocalsOK(loc) /\ LocalOK(loc[t])
  BY DEF DeliveryInv, ThreadsOK, LocalsOK
<1>4. /\ \A a : LocalsOK([loc EXCEPT ![t].amt = a])
      /\ \A c, b : LocalsOK([loc EXCEPT ![t].cash = c, ![t].booked = b])
  <2>1. ASSUME NEW a PROVE LocalsOK([loc EXCEPT ![t] = WithAmt(loc[t], a)])
    BY <1>3, WriteAmt, WriteLocal
  <2>2. ASSUME NEW c, NEW b
        PROVE  LocalsOK([loc EXCEPT ![t] = WithBooked(WithCash(loc[t], c), b)])
    BY <1>3, WriteCash, WriteBooked, WriteLocal
  <2>3. QED
    BY <1>3, <2>1, <2>2 DEF LocalsOK, WithAmt, WithCash, WithBooked
<1>5. CASE CancelPending(t) \/ CancelRelease(t)
  BY <1>1, <1>2, <1>3, <1>4, <1>5, GotoElsewhere DEF CancelPending, CancelRelease
<1>6. CASE ListIntraday(t)
  <2> DEFINE rows == [k \in Keys |-> IF k \in Intraday THEN pos[k].qty ELSE 0]
  <2>1. rows \in [Keys -> Int]
    BY DEF DeliveryInv, BooksOK, Rows
  <2>2. LocalsOK([loc EXCEPT ![t].rows = rows])
    BY <1>3, <2>1 DEF LocalsOK, LocalOK
  <2>3. Goto(t, "sq_place", [loc EXCEPT ![t].rows = rows])
    BY <1>6 DEF ListIntraday
  <2>4. QED
    BY <1>1, <1>2, <2>2, <2>3, GotoElsewhere
<1>7. CASE FreeMargin(t) \/ BookRead(t)
  BY <1>1, <1>2, <1>4, <1>7, DoneKeeps, GotoElsewhere DEF FreeMargin, BookRead
<1>8. QED
  BY <1>5, <1>6, <1>7

\* A settlement reads what it will move.
LEMMA SettleReadKeeps ==
  ASSUME DeliveryInv, NEW t \in Threads, SettleRead(t)
  PROVE  DeliveryInv' /\ NothingMoves
<1>1. ~Idle(t) /\ UNCHANGED <<pos, holding, expired, up>>
  BY DEF SettleRead, AtTask, world, book
<1>2. BooksOK' /\ NothingMoves
  BY <1>1 DEF DeliveryInv, BooksOK, NothingMoves
<1>3. CASE Eligible = {}
  BY <1>1, <1>2, <1>3, DoneKeeps DEF SettleRead
<1>4. CASE Eligible # {}
  <2> DEFINE rows == [k \in Keys |-> IF k \in Eligible THEN pos[k].qty ELSE 0]
             held == [k \in Keys |-> IF k \in Delivery THEN holding[k] ELSE 0]
             new == [loc EXCEPT ![t].rows = rows, ![t].live = Eligible, ![t].held = held]
  <2>1. Eligible \subseteq Delivery /\ Delivery \subseteq Keys
    BY DEF Eligible, Delivery
  <2>2. rows \in [Keys -> Int] /\ held \in [Keys -> Int]
    BY <2>1 DEF DeliveryInv, BooksOK, Rows
  <2>3. LocalsOK(loc)
    BY DEF DeliveryInv, ThreadsOK
  <2> HIDE DEF rows, held
  <2>4. /\ LocalsOK(new)
        /\ new[t].rows = rows /\ new[t].live = Eligible /\ new[t].held = held
    <3>1. LocalOK(loc[t]) /\ Eligible \in SUBSET Keys
      BY <2>1, <2>3 DEF LocalsOK
    <3>2. new = [loc EXCEPT ![t] = Reading(loc[t], rows, Eligible, held)]
      BY <2>3 DEF LocalsOK, Reading, WithRows, WithLive, WithHeld
    <3> HIDE DEF new
    <3> DEFINE x == Reading(loc[t], rows, Eligible, held)
    <3>3. LocalOK(x)
      BY <2>2, <3>1, WriteReading
    <3>4. x.rows = rows /\ x.live = Eligible /\ x.held = held
      BY <2>2, <3>1, WriteReading
    <3> HIDE DEF x
    <3>5. LocalsOK(new) /\ new[t] = x
      BY <2>3, <3>2, <3>3, WriteLocal DEF x
    <3>6. QED
      BY <3>4, <3>5
  <2>5. Goto(t, "st_commit", new)
    BY <1>4 DEF SettleRead, rows, held
  <2> HIDE DEF new
  <2>6. pc'[t] = "st_commit" /\ loc' = new
    BY <2>5 DEF Goto, DeliveryInv, ThreadsOK
  <2>7. SettlesWhatItRead(t)'
    <3>1. \A k \in Eligible : rows[k] = pos[k].qty /\ pos[k].qty > 0
      BY <2>1 DEF rows, Eligible
    <3>2. Eligible = {k \in Keys : rows[k] # 0}
      BY <2>1, <3>1 DEF rows, Eligible
    <3>3. \A k \in Delivery : held[k] = holding[k]
      BY <2>1 DEF held
    <3>4. QED
      BY <1>1, <2>1, <2>4, <2>6, <3>1, <3>2, <3>3 DEF SettlesWhatItRead
  <2>8. ExpiresContracts(t)'
    BY <2>6 DEF ExpiresContracts
  <2>9. QED
    BY <1>1, <1>2, <2>4, <2>5, <2>7, <2>8, GotoKeeps
<1>5. QED
  BY <1>3, <1>4

\* It commits: while it waited nobody traded, so the rows are the ones it has read.
LEMMA SettleCommitMoves ==
  ASSUME DeliveryInv, NEW t \in Threads, SettleCommit(t)
  PROVE  DeliveryInv' /\ SettledWhole
<1> DEFINE rows == loc[t].rows
           moved == {k \in Delivery : rows[k] # 0}
           deleted == moved \cap loc[t].live
           amt == SizeOf(rows)
           mine == WithAmt(WithHeld(WithLive(WithRows(loc[t], NoRows), {}), NoRows), amt)
           new == [u \in Threads |-> IF u = t THEN mine
                                     ELSE WithLive(loc[u], loc[u].live \ deleted)]
<1>1. pc[t] = "st_commit" /\ ~Idle(t) /\ UNCHANGED <<up, expired>>
  BY DEF SettleCommit, DeliveryInv, TakeTurns, world
<1>2. /\ loc[t].live = {k \in Keys : rows[k] # 0} /\ loc[t].live \subseteq Delivery
      /\ \A k \in loc[t].live : rows[k] = pos[k].qty /\ pos[k].qty > 0
      /\ \A k \in Delivery : loc[t].held[k] = holding[k]
  BY <1>1 DEF DeliveryInv, SettlesWhatItRead
<1>3. moved = loc[t].live /\ deleted = loc[t].live
  BY <1>2 DEF Delivery
<1>4. /\ holding' = [k \in Delivery |-> IF k \in moved THEN loc[t].held[k] + rows[k] ELSE holding[k]]
      /\ pos' = [k \in Keys |-> IF k \in deleted THEN NoPosition ELSE pos[k]]
  BY DEF SettleCommit, Settled
<1>5. Goto(t, "transfer", new)
  BY DEF SettleCommit, Settled, WithRows, WithLive, WithHeld, WithAmt
<1>6. BooksOK'
  <2>1. pos' \in Rows
    BY <1>4 DEF DeliveryInv, BooksOK, Rows, NoPosition
  <2>2. \A k \in Delivery : holding[k] \in Int /\ loc[t].held[k] \in Int /\ rows[k] \in Int
    BY <1>2 DEF DeliveryInv, BooksOK, ThreadsOK, LocalsOK, LocalOK, Delivery
  <2>3. QED
    BY <1>1, <1>4, <2>1, <2>2 DEF DeliveryInv, BooksOK
<1>7. LocalsOK(new)
  <2>1. \A u \in Threads : LocalOK(loc[u]) /\ loc[u].live \ deleted \in SUBSET Keys
    BY DEF DeliveryInv, ThreadsOK, LocalsOK, LocalOK
  <2>2. NoRows \in [Keys -> Int]
    BY DEF NoRows
  <2>3. LocalOK(WithHeld(WithLive(WithRows(loc[t], NoRows), {}), NoRows))
    BY <2>1, <2>2, WriteReading DEF Reading
  <2> HIDE DEF amt, deleted
  <2>4. LocalOK(mine)
    BY <2>3, WriteAmt
  <2> HIDE DEF mine
  <2>5. \A u \in Threads : LocalOK(WithLive(loc[u], loc[u].live \ deleted))
    BY <2>1, WriteLive
  <2>6. QED
    BY <2>4, <2>5 DEF LocalsOK
<1>8. SettledWhole
  <2>1. \A k \in loc[t].live : pos[k].qty > 0
    BY <1>2
  <2>2. \A k \in Delivery : pos'[k].qty = IF k \in loc[t].live THEN 0 ELSE pos[k].qty
    BY <1>3, <1>4 DEF NoPosition, Delivery
  <2>3. holding' = [k \in Delivery |-> IF k \in loc[t].live THEN holding[k] + pos[k].qty
                                       ELSE holding[k]]
    BY <1>2, <1>3, <1>4
  <2>4. QED
    BY <1>2, <2>1, <2>2, <2>3 DEF SettledWhole
<1> HIDE DEF new
<1>9. DeliveryInv'
  BY <1>1, <1>5, <1>6, <1>7, GotoElsewhere
<1>10. QED
  BY <1>8, <1>9

\* It fails: the scheduler goes on, the request ends.
LEMMA SettleAbortKeeps ==
  ASSUME DeliveryInv, NEW t \in Threads, SettleAbort(t)
  PROVE  DeliveryInv' /\ NothingMoves
<1>1. ~Idle(t) /\ UNCHANGED <<pos, holding, expired, up>>
  BY DEF SettleAbort, DeliveryInv, TakeTurns, world, book
<1>2. BooksOK' /\ NothingMoves
  BY <1>1 DEF DeliveryInv, BooksOK, NothingMoves
<1>3. CASE t = "jobs"
  BY <1>1, <1>2, <1>3, DoneKeeps DEF SettleAbort
<1>4. CASE t # "jobs"
  <2>1. /\ agenda' = [agenda EXCEPT ![t] = <<>>] /\ pc' = [pc EXCEPT ![t] = "next"]
        /\ loc' = [loc EXCEPT ![t] = NoLocals]
    BY <1>4 DEF SettleAbort
  <2>2. ThreadsOK'
    BY <2>1, LocalsAtRest, WriteLocal DEF DeliveryInv, ThreadsOK
  <2>3. pc'[t] = "next" /\ \A u \in Threads \ {t} : agenda'[u] = agenda[u] /\ pc'[u] = pc[u]
    BY <2>1 DEF DeliveryInv, ThreadsOK
  <2>4. QED
    BY <1>1, <1>2, <2>2, <2>3, WorkKeeps DEF SettlesWhatItRead, ExpiresContracts
<1>5. QED
  BY <1>3, <1>4

\* Closing rows that are not for delivery.
LEMMA CloseRowsKeeps ==
  ASSUME DeliveryInv, NEW t \in Threads, ~Idle(t), NEW rows, NEW p, CloseRows(t, rows, p),
         \A k \in Delivery : rows[k] = 0, UNCHANGED <<holding, expired, up>>
  PROVE  DeliveryInv' /\ NothingMoves
<1> DEFINE amt == SizeOf(rows)
           mine == WithPnl(WithAmt(WithLive(WithRows(loc[t], NoRows), {}), amt), p)
           new == [loc EXCEPT ![t] = mine]
<1>1. pos' = [k \in Keys |-> IF rows[k] # 0 THEN [pos[k] EXCEPT !.qty = 0, !.upd = 0]
                             ELSE pos[k]]
  BY DEF CloseRows
<1>2. BooksOK' /\ NothingMoves
  <2>1. pos' \in Rows
    <3>1. ASSUME NEW x \in [qty : Int, upd : 0..1, trd : 0..1]
          PROVE  [x EXCEPT !.qty = 0, !.upd = 0] \in [qty : Int, upd : 0..1, trd : 0..1]
      <4> DEFINE y == [x EXCEPT !.qty = 0]
      <4>1. y \in [qty : Int, upd : 0..1, trd : 0..1]
        BY <3>1
      <4> HIDE DEF y
      <4>2. [y EXCEPT !.upd = 0] \in [qty : Int, upd : 0..1, trd : 0..1]
        BY <4>1
      <4>3. QED
        BY <4>2 DEF y
    <3>2. \A k \in Keys : pos[k] \in [qty : Int, upd : 0..1, trd : 0..1]
      BY DEF DeliveryInv, BooksOK, Rows
    <3>3. QED
      BY <1>1, <3>1, <3>2 DEF Rows
  <2>2. \A k \in Delivery : pos'[k] = pos[k]
    BY <1>1 DEF Delivery
  <2>3. QED
    BY <2>1, <2>2 DEF DeliveryInv, BooksOK, NothingMoves
<1>3. LocalsOK(loc) /\ LocalOK(loc[t])
  BY DEF DeliveryInv, ThreadsOK, LocalsOK
<1>4. Goto(t, "free", new)
  BY <1>3 DEF CloseRows, WithRows, WithLive, WithAmt, WithPnl, LocalsOK
<1>5. LocalsOK(new)
  <2>1. NoRows \in [Keys -> Int]
    BY DEF NoRows
  <2>2. LocalOK(WithRows(loc[t], NoRows))
    BY <1>3, <2>1, WriteRows
  <2>3. LocalOK(WithLive(WithRows(loc[t], NoRows), {}))
    BY <2>2, WriteLive
  <2> HIDE DEF amt
  <2>4. LocalOK(WithAmt(WithLive(WithRows(loc[t], NoRows), {}), amt))
    BY <2>3, WriteAmt
  <2>5. LocalOK(mine)
    BY <2>4, WritePnl
  <2> HIDE DEF mine
  <2>6. QED
    BY <1>3, <2>5, WriteLocal
<1> HIDE DEF new
<1>6. QED
  BY <1>2, <1>4, <1>5, GotoElsewhere

LEMMA ExpiryKeeps ==
  ASSUME DeliveryInv, NEW t \in Threads, CloseStale(t) \/ ExpiredCommit(t)
  PROVE  DeliveryInv' /\ NothingMoves
<1>1. ~Idle(t) /\ UNCHANGED <<holding, expired, up>>
  BY DEF CloseStale, ExpiredCommit, AtTask, DeliveryInv, TakeTurns, world
<1>2. CASE ExpiredCommit(t)
  <2>1. pc[t] = "ex_commit" /\ \E p : CloseRows(t, loc[t].rows, p)
    BY <1>2 DEF ExpiredCommit
  <2>2. \A k \in Delivery : loc[t].rows[k] = 0
    BY <2>1 DEF DeliveryInv, ExpiresContracts
  <2>3. QED
    BY <1>1, <2>1, <2>2, CloseRowsKeeps
<1>3. CASE \E p : CloseRows(t, StaleRows, p)
  <2>1. \A k \in Delivery : StaleRows[k] = 0
    BY DEF StaleRows, Delivery, Intraday
  <2>2. QED
    BY <1>1, <1>3, <2>1, CloseRowsKeeps
<1>4. CASE Done(t) /\ UNCHANGED pos
  <2>1. BooksOK' /\ NothingMoves
    BY <1>1, <1>4 DEF DeliveryInv, BooksOK, NothingMoves
  <2>2. QED
    BY <1>1, <1>4, <2>1, DoneKeeps
<1>5. QED
  BY <1>2, <1>3, <1>4 DEF CloseStale

\* An expiry reads contracts only.
LEMMA ExpiredReadKeeps ==
  ASSUME DeliveryInv, NEW t \in Threads, ExpiredRead(t)
  PROVE  DeliveryInv' /\ NothingMoves
<1> DEFINE open == {k \in expired : pos[k].qty # 0}
           rows == [k \in Keys |-> IF k \in open THEN pos[k].qty ELSE 0]
           mine == WithLive(WithRows(loc[t], rows), open)
           new == [loc EXCEPT ![t] = mine]
<1>1. ~Idle(t) /\ UNCHANGED <<pos, holding, expired, up>>
  BY DEF ExpiredRead, AtTask, world, book
<1>2. BooksOK' /\ NothingMoves
  BY <1>1 DEF DeliveryInv, BooksOK, NothingMoves
<1>3. LocalsOK(loc) /\ LocalOK(loc[t])
  BY DEF DeliveryInv, ThreadsOK, LocalsOK
<1>4. CASE Done(t)
  BY <1>1, <1>2, <1>4, DoneKeeps
<1>5. CASE Goto(t, "ex_commit", new)
  <2>1. open \in SUBSET Keys /\ rows \in [Keys -> Int] /\ \A k \in Delivery : rows[k] = 0
    BY DEF DeliveryInv, BooksOK, Rows, Contracts, Delivery
  <2> HIDE DEF open, rows
  <2>2. LocalOK(WithRows(loc[t], rows)) /\ WithRows(loc[t], rows).rows = rows
    BY <1>3, <2>1, WriteRows
  <2>3. LocalOK(mine) /\ mine.rows = rows
    BY <2>1, <2>2, WriteLive
  <2> HIDE DEF mine
  <2>4. LocalsOK(new) /\ new[t].rows = rows
    BY <1>3, <2>3, WriteLocal
  <2> HIDE DEF new
  <2>5. pc'[t] = "ex_commit" /\ loc' = new
    BY <1>5 DEF Goto, DeliveryInv, ThreadsOK
  <2>6. SettlesWhatItRead(t)' /\ ExpiresContracts(t)'
    BY <2>1, <2>4, <2>5 DEF SettlesWhatItRead, ExpiresContracts
  <2>7. QED
    BY <1>1, <1>2, <1>5, <2>4, <2>6, GotoKeeps
<1>6. Done(t) \/ Goto(t, "ex_commit", new)
  BY <1>3 DEF ExpiredRead, WithRows, WithLive, LocalsOK
<1>7. QED
  BY <1>4, <1>5, <1>6

\* A wipe.
LEMMA WipeMoves ==
  ASSUME DeliveryInv, NEW t \in Threads, Wipe(t)
  PROVE  DeliveryInv' /\ AllWiped
<1> DEFINE new == [u \in Threads |-> WithLive(loc[u], {})]
<1>1. /\ ~Idle(t) /\ UNCHANGED <<expired, up>>
      /\ pos' = [k \in Keys |-> NoPosition] /\ holding' = [k \in Delivery |-> 0]
  BY DEF Wipe, AtTask, world
<1>2. BooksOK' /\ AllWiped
  BY <1>1 DEF DeliveryInv, BooksOK, Rows, NoPosition, AllWiped, Delivery
<1>3. LocalsOK(new)
  <2>1. \A u \in Threads : LocalOK(WithLive(loc[u], {}))
    BY WriteLive DEF DeliveryInv, ThreadsOK, LocalsOK
  <2>2. QED
    BY <2>1 DEF LocalsOK
<1>4. Goto(t, "wipe_funds", new)
  BY DEF Wipe, WithLive
<1> HIDE DEF new
<1>5. QED
  BY <1>1, <1>2, <1>3, <1>4, GotoElsewhere

-----------------------------------------------------------------------------
(* The clock, the process and the quotes *)

\* A step outside the threads: nothing a task relies on changes.
LEMMA AroundKeeps ==
  ASSUME DeliveryInv, NextSlot \/ Started \/ \E k \in Keys : RestOrder(k)
  PROVE  DeliveryInv' /\ NothingMoves
<1>1. UNCHANGED <<pos, holding, expired, agenda, pc, loc>>
  BY DEF NextSlot, Started, RestOrder, book, control, world
<1>2. up' = up \/ up' = "up"
  BY DEF NextSlot, Started, RestOrder
<1>3. QED
  BY <1>1, <1>2 DEF DeliveryInv, BooksOK, ThreadsOK, TakeTurns, SettlesWhatItRead,
                    ExpiresContracts, Idle, NothingMoves

\* A mark-to-market write changes the age of a row.
LEMMA MtmKeeps ==
  ASSUME DeliveryInv, NEW k \in Keys, MtmWrite(k)
  PROVE  DeliveryInv' /\ NothingMoves
<1>1. UNCHANGED <<holding, expired, agenda, pc, loc, up>> /\ pos' = [pos EXCEPT ![k].upd = 0]
  BY DEF MtmWrite, control, world
<1>2. pos' \in Rows /\ \A j \in Keys : pos'[j].qty = pos[j].qty
  BY <1>1 DEF DeliveryInv, BooksOK, Rows
<1>3. \A t \in Threads : loc[t].live \subseteq Keys
  BY DEF DeliveryInv, ThreadsOK, LocalsOK, LocalOK
<1>4. \A t \in Threads : SettlesWhatItRead(t)' /\ ExpiresContracts(t)'
  BY <1>1, <1>2, <1>3 DEF DeliveryInv, SettlesWhatItRead, ExpiresContracts
<1>5. QED
  BY <1>1, <1>2, <1>4 DEF DeliveryInv, BooksOK, ThreadsOK, TakeTurns, Idle, NothingMoves, Delivery

\* Midnight makes rows and passes older.
LEMMA MidnightKeeps ==
  ASSUME DeliveryInv, Midnight
  PROVE  DeliveryInv' /\ NothingMoves
<1> DEFINE new == [t \in Threads |-> IF Idle(t) THEN loc[t] ELSE WithAge(loc[t], 1)]
<1>1. /\ UNCHANGED <<holding, agenda, pc, up>> /\ expired' \subseteq Contracts /\ loc' = new
      /\ pos' = [k \in Keys |-> IF pos[k].qty = 0 THEN pos[k]
                                ELSE [pos[k] EXCEPT !.upd = 1, !.trd = 1]]
  BY DEF Midnight, WithAge, DeliveryInv, BooksOK
<1>2. pos' \in Rows /\ \A k \in Keys : pos'[k].qty = pos[k].qty
  <2>1. ASSUME NEW x \in [qty : Int, upd : 0..1, trd : 0..1]
        PROVE  /\ [x EXCEPT !.upd = 1, !.trd = 1] \in [qty : Int, upd : 0..1, trd : 0..1]
               /\ [x EXCEPT !.upd = 1, !.trd = 1].qty = x.qty
    <3> DEFINE y == [x EXCEPT !.upd = 1]
    <3>1. y \in [qty : Int, upd : 0..1, trd : 0..1] /\ y.qty = x.qty
      BY <2>1
    <3> HIDE DEF y
    <3>2. /\ [y EXCEPT !.trd = 1] \in [qty : Int, upd : 0..1, trd : 0..1]
          /\ [y EXCEPT !.trd = 1].qty = y.qty
      BY <3>1
    <3>3. QED
      BY <3>1, <3>2 DEF y
  <2>2. \A k \in Keys : pos[k] \in [qty : Int, upd : 0..1, trd : 0..1]
    BY DEF DeliveryInv, BooksOK, Rows
  <2>3. QED
    BY <1>1, <2>1, <2>2 DEF Rows
<1>3. \A t \in Threads : LocalOK(loc[t])
  BY DEF DeliveryInv, ThreadsOK, LocalsOK
<1>4. \A t \in Threads : /\ LocalOK(new[t]) /\ new[t].rows = loc[t].rows
                         /\ new[t].live = loc[t].live /\ new[t].held = loc[t].held
  BY <1>3, WriteAge
<1>5. LocalsOK(new)
  BY <1>4 DEF LocalsOK
<1> HIDE DEF new
<1>6. \A t \in Threads : loc[t].live \subseteq Keys
  BY <1>3 DEF LocalOK
<1>7. ASSUME NEW t \in Threads PROVE SettlesWhatItRead(t)' /\ ExpiresContracts(t)'
  <2>1. /\ loc'[t].rows = loc[t].rows /\ loc'[t].live = loc[t].live
        /\ loc'[t].held = loc[t].held /\ pc'[t] = pc[t]
    BY <1>1, <1>4
  <2>2. SettlesWhatItRead(t) /\ ExpiresContracts(t)
    BY DEF DeliveryInv
  <2>3. SettlesWhatItRead(t)'
    BY <1>1, <1>2, <1>6, <2>1, <2>2 DEF SettlesWhatItRead
  <2>4. ExpiresContracts(t)'
    BY <2>1, <2>2 DEF ExpiresContracts
  <2>5. QED
    BY <2>3, <2>4
<1>8. QED
  BY <1>1, <1>2, <1>5, <1>7 DEF DeliveryInv, BooksOK, ThreadsOK, TakeTurns, Idle,
                                NothingMoves, Delivery

\* The process starts, a pass begins or a request arrives: all threads are idle, and
\* one of them gets something to do. A crash takes everything from them.
LEMMA StartKeeps ==
  ASSUME Serial, DeliveryInv, Boot \/ Tick \/ Crash \/ \E op \in WebOps : WebCall(op)
  PROVE  DeliveryInv' /\ NothingMoves
<1>1. UNCHANGED <<pos, holding, expired>>
  BY DEF Boot, Tick, Crash, WebCall, book, world
<1>2. CASE Crash
  <2>1. /\ agenda' = [t \in Threads |-> <<>>] /\ pc' = [t \in Threads |-> "next"]
        /\ loc' = [t \in Threads |-> NoLocals]
    BY <1>2 DEF Crash
  <2>2. ThreadsOK'
    BY <2>1, LocalsAtRest DEF ThreadsOK, LocalsOK
  <2>3. QED
    BY <1>1, <2>1, <2>2 DEF DeliveryInv, BooksOK, TakeTurns, SettlesWhatItRead,
                            ExpiresContracts, Idle, NothingMoves, Threads
<1>3. CASE Boot \/ Tick \/ \E op \in WebOps : WebCall(op)
  <2>1. \A t \in Threads : Idle(t) /\ pc[t] = "next"
    BY <1>3 DEF Boot, Tick, WebCall, MayStart, DeliveryInv, TakeTurns
  <2>2. PICK t \in Threads : /\ \A u \in Threads \ {t} : agenda'[u] = agenda[u]
                             /\ agenda' = [u \in Threads |-> agenda'[u]]
                             /\ up' = "boot" => t = "jobs"
    <3>1. agenda = [u \in Threads |-> agenda[u]]
      BY DEF DeliveryInv, ThreadsOK
    <3>2. \A t, a : agenda' = [agenda EXCEPT ![t] = a] =>
            /\ \A u \in Threads \ {t} : agenda'[u] = agenda[u]
            /\ agenda' = [u \in Threads |-> agenda'[u]]
      BY <3>1
    <3>3. CASE Boot
      BY <3>2, <3>3 DEF Boot, Threads
    <3>4. CASE Tick
      BY <3>2, <3>4 DEF Tick, Threads
    <3>5. CASE \E op \in WebOps : WebCall(op)
      BY <3>2, <3>5 DEF WebCall, Threads
    <3>6. QED
      BY <1>3, <3>3, <3>4, <3>5
  <2>3. UNCHANGED <<pc, loc>> /\ up' # "down"
    BY <1>3 DEF Boot, Tick, WebCall
  <2>4. \A u \in Threads \ {t} : Idle(u)'
    BY <2>1, <2>2 DEF DeliveryInv, ThreadsOK, Idle
  <2>5. ThreadsOK'
    BY <2>2, <2>3 DEF DeliveryInv, ThreadsOK
  <2>6. TakeTurns'
    BY <2>1, <2>2, <2>3, <2>4 DEF TakeTurns, Threads
  <2>7. QED
    BY <1>1, <2>1, <2>3, <2>5, <2>6 DEF DeliveryInv, BooksOK, SettlesWhatItRead,
                                        ExpiresContracts, NothingMoves
<1>4. QED
  BY <1>2, <1>3

-----------------------------------------------------------------------------
(* The refinement *)

\* What a step can make of the two books.
BooksStep == NothingMoves \/ OneKeyTraded \/ SettledWhole \/ AllWiped

LEMMA StepMoves ==
  ASSUME Serial, DeliveryInv, [Next]_vars
  PROVE  DeliveryInv' /\ BooksStep
<1>1. CASE UNCHANGED vars
  BY <1>1 DEF vars, DeliveryInv, BooksOK, ThreadsOK, TakeTurns, SettlesWhatItRead,
              ExpiresContracts, Idle, BooksStep, NothingMoves
<1>2. ASSUME NEW t \in Threads, TaskStep(t)
      PROVE  DeliveryInv' /\ BooksStep
  <2>1. UNCHANGED <<pos, holding>> => NothingMoves
    BY DEF NothingMoves
  <2>2. QED
    BY <1>2, <2>1, EndKeeps, SquareKeeps, SquareTrades, SettleReadKeeps, SettleCommitMoves,
       SettleAbortKeeps, ExpiryKeeps, ExpiredReadKeeps, WipeMoves DEF TaskStep, BooksStep
<1>3. CASE NextSlot \/ Started \/ Midnight
  BY <1>3, AroundKeeps, MidnightKeeps DEF BooksStep
<1>4. CASE Boot \/ Crash \/ Tick \/ \E op \in WebOps : WebCall(op)
  BY <1>4, StartKeeps DEF BooksStep
<1>5. CASE \E k \in Keys : OpenPosition(k) \/ ReducePosition(k) \/ RestOrder(k)
                           \/ FillOrder(k) \/ MtmWrite(k)
  BY <1>5, OpenTrades, FillTrades, AroundKeeps, MtmKeeps DEF BooksStep
<1>6. QED
  BY <1>1, <1>2, <1>3, <1>4, <1>5 DEF Next, UserStep

\* The mapped step: an order is a trade, a settlement settles, a wipe wipes.
LEMMA MapsToBook ==
  ASSUME DeliveryInv, DeliveryInv', BooksStep
  PROVE  [Book!Next]_(Book!dvars)
<1> DEFINE net == [k \in Delivery |-> pos[k].qty]
           after == [k \in Delivery |-> pos'[k].qty]
<1>1. after \in [Delivery -> Int]
  BY DEF DeliveryInv, BooksOK, Rows, Delivery
<1>2. CASE NothingMoves
  <2>1. after = net /\ holding' = holding
    BY <1>2 DEF NothingMoves
  <2>2. QED
    BY <2>1 DEF Book!dvars
<1>3. CASE OneKeyTraded
  <2>1. PICK k \in Keys : \A j \in Keys \ {k} : pos'[j].qty = pos[j].qty
    BY <1>3 DEF OneKeyTraded
  <2>2. holding' = holding
    BY <1>3 DEF OneKeyTraded
  <2>3. CASE k \in Delivery
    <3>1. \A j \in Delivery \ {k} : after[j] = net[j]
      BY <2>1 DEF Delivery
    <3>2. Book!Trade
      BY <1>1, <2>2, <2>3, <3>1 DEF Book!Trade
    <3>3. QED
      BY <3>2 DEF Book!Next
  <2>4. CASE k \notin Delivery
    <3>1. after = net
      BY <2>1, <2>4 DEF Delivery
    <3>2. QED
      BY <2>2, <3>1 DEF Book!dvars
  <2>5. QED
    BY <2>3, <2>4
<1>4. CASE SettledWhole
  <2>1. PICK S \in SUBSET Delivery :
          /\ \A k \in S : pos[k].qty > 0
          /\ \A k \in Delivery : pos'[k].qty = IF k \in S THEN 0 ELSE pos[k].qty
          /\ holding' = [k \in Delivery |-> IF k \in S THEN holding[k] + pos[k].qty
                                            ELSE holding[k]]
    BY <1>4 DEF SettledWhole
  <2>2. /\ \A k \in S : net[k] > 0
        /\ after = [k \in Delivery |-> IF k \in S THEN 0 ELSE net[k]]
        /\ holding' = [k \in Delivery |-> IF k \in S THEN holding[k] + net[k] ELSE holding[k]]
    BY <2>1
  <2>3. Book!Settle
    BY <2>2 DEF Book!Settle
  <2>4. QED
    BY <2>3 DEF Book!Next
<1>5. CASE AllWiped
  <2>1. after = [k \in Delivery |-> 0] /\ holding' = [k \in Delivery |-> 0]
    BY <1>5 DEF AllWiped
  <2>2. Book!Wipe
    BY <2>1 DEF Book!Wipe
  <2>3. QED
    BY <2>2 DEF Book!Next
<1>6. QED
  BY <1>2, <1>3, <1>4, <1>5 DEF BooksStep

\* When threads, requests and fills take turns, a share that was bought is in
\* exactly one place, for any account, calendar and jobs: every step of a user, a
\* job, the clock, the MTM thread or a crash is a trade, a settlement of whole
\* positions, a wipe, or nothing to the owner of the share (t1_settle.py).
THEOREM SharesAreDelivered ==
  ASSUME Serial
  PROVE  Spec => SharesAreDeliveredOnce
<1>1. Init => Book!Init
  BY DEF Init, Book!Init, NoPosition, Delivery
<1>2. DeliveryInv /\ [Next]_vars => DeliveryInv' /\ BooksStep
  BY StepMoves
<1>3. DeliveryInv /\ DeliveryInv' /\ BooksStep => [Book!Next]_(Book!dvars)
  BY MapsToBook
<1>4. QED
  BY <1>1, <1>2, <1>3, InitDelivery, PTL DEF Spec, SharesAreDeliveredOnce, Book!Spec

-----------------------------------------------------------------------------
(* Types *)

LocalType == [age : 0..1, rows : [Keys -> Int], live : SUBSET Keys, held : [Keys -> Nat],
              amt : Nat, pnl : Int, cash : Int, booked : Int]
FundType == [available : Int, used : Nat, realized : Int, today : Int]

\* A thread that is anywhere inside a task has one, and what a settlement moves is long.
TypeInv ==
  /\ TypeOK
  /\ \A t \in Threads : /\ pc[t] # "next" => ~Idle(t)
                        /\ pc[t] = "st_commit" => \A k \in Keys : loc[t].rows[k] >= 0

-----------------------------------------------------------------------------
(* Sizes *)

\* A size is not negative.
LEMMA SizeNat ==
  ASSUME NEW S, IsFiniteSet(S), NEW f \in [S -> Int]
  PROVE  SizeOf(f) \in Nat
<1> DEFINE g == [k \in S |-> AbsOf(f[k])]
<1>1. g \in [S -> Nat]
  BY DEF AbsOf
<1> HIDE DEF g
<1>2. SumFunction(g) \in Nat
  BY <1>1, SumNat
<1>3. QED
  BY <1>2 DEF g, SizeOf

\* Keys and their parts are finite.
LEMMA KeysFinite == IsFiniteSet(Keys) /\ IsFiniteSet(Delivery) /\ Delivery \subseteq Keys
  BY KeysAssumption, FS_Subset DEF Delivery

-----------------------------------------------------------------------------
(* The types of what the steps write *)

\* The locals of a thread at rest, and of one that goes on.
LEMMA TypeRest == NoLocals \in LocalType /\ \A a \in 0..1 : WithAge(NoLocals, a) \in LocalType
  BY DEF NoLocals, NoRows, WithAge, LocalType

\* Each field a task writes keeps the locals in their type, and the other fields.
LEMMA TypeRows ==
  ASSUME NEW l \in LocalType, NEW r \in [Keys -> Int]
  PROVE  WithRows(l, r) \in LocalType /\ WithRows(l, r).rows = r
  BY DEF WithRows, LocalType

LEMMA TypeLive ==
  ASSUME NEW l \in LocalType, NEW v \in SUBSET Keys
  PROVE  WithLive(l, v) \in LocalType /\ WithLive(l, v).rows = l.rows
  BY DEF WithLive, LocalType

LEMMA TypeHeld ==
  ASSUME NEW l \in LocalType, NEW h \in [Keys -> Nat]
  PROVE  WithHeld(l, h) \in LocalType /\ WithHeld(l, h).rows = l.rows
  BY DEF WithHeld, LocalType

LEMMA TypeAmt ==
  ASSUME NEW l \in LocalType, NEW a \in Nat
  PROVE  WithAmt(l, a) \in LocalType /\ WithAmt(l, a).rows = l.rows /\ WithAmt(l, a).amt = a
  BY DEF WithAmt, LocalType

LEMMA TypePnl ==
  ASSUME NEW l \in LocalType, NEW p \in Int
  PROVE  WithPnl(l, p) \in LocalType /\ WithPnl(l, p).amt = l.amt
  BY DEF WithPnl, LocalType

LEMMA TypeCash ==
  ASSUME NEW l \in LocalType, NEW c \in Int
  PROVE  WithCash(l, c) \in LocalType /\ WithCash(l, c).cash = c
  BY DEF WithCash, LocalType

LEMMA TypeBooked ==
  ASSUME NEW l \in LocalType, NEW b \in Int
  PROVE  /\ WithBooked(l, b) \in LocalType
         /\ WithBooked(l, b).booked = b /\ WithBooked(l, b).cash = l.cash
  BY DEF WithBooked, LocalType

LEMMA TypeAge ==
  ASSUME NEW l \in LocalType, NEW a \in 0..1
  PROVE  /\ WithAge(l, a) \in LocalType /\ WithAge(l, a).rows = l.rows
         /\ WithAge(l, a).amt = l.amt /\ WithAge(l, a).cash = l.cash
         /\ WithAge(l, a).booked = l.booked
  BY DEF WithAge, LocalType

\* A release and an order leave the funds in their type.
LEMMA ReleaseTypes ==
  ASSUME NEW a \in Int, NEW p \in Int, fund \in FundType, Release(a, p)
  PROVE  fund' \in FundType
<1>1. fund' = [available |-> fund.available + a + p, used |-> MaxOf(0, fund.used - a),
               realized |-> fund.realized + p, today |-> fund.today + p]
  BY DEF Release, FundType
<1>2. QED
  BY <1>1 DEF FundType, MaxOf

\* As does an order.
LEMMA TradeFundTypes ==
  ASSUME TypeOK, NEW k \in Keys, NEW d \in Int, NEW p \in Int, Trade(k, d, p)
  PROVE  fund' \in FundType /\ pos' \in Rows /\ made' \in Int
<1> DEFINE n == pos[k].qty
           c == ClosingPart(n, d)
           o == OpeningPart(n, d)
           b == IF c > 0 THEN p ELSE 0
<1>0. n \in Int /\ n + d \in Int /\ fund \in FundType /\ made \in Int /\ pos \in Rows
  <2>1. fund \in FundType /\ made \in Int /\ pos \in Rows
    BY DEF TypeOK, FundType, Rows
  <2>2. n \in Int
    BY <2>1 DEF Rows
  <2>3. QED
    BY <2>1, <2>2
<1>1. c \in Int /\ o \in Int /\ b \in Int
  BY <1>0 DEF ClosingPart, OpeningPart, MinOf, AbsOf
<1>2. /\ fund' = [available |-> fund.available - o + c + b, used |-> MaxOf(0, fund.used + o - c),
                  realized |-> fund.realized + b, today |-> fund.today + b]
      /\ made' = made + b
      /\ pos' = pos \/ pos' = [pos EXCEPT ![k] = [qty |-> n + d, upd |-> 0, trd |-> 0]]
  BY <1>0 DEF Trade, FundType
<1> HIDE DEF n, c, o, b
<1>3. fund' \in FundType
  BY <1>0, <1>1, <1>2 DEF FundType, MaxOf
<1>4. QED
  BY <1>0, <1>1, <1>2, <1>3 DEF Rows

\* PnL is a number.
LEMMA OutcomesInt == Outcomes \subseteq Int
<1>1. Pnls \subseteq Int
  BY InputsAssumption
<1>2. Outcomes \subseteq {0} \cup Pnls
  BY Zenon DEF Outcomes
<1>3. QED
  BY <1>1, <1>2

-----------------------------------------------------------------------------
(* A step of a thread *)

\* What TypeOK says of everything but the threads.
WorldOK ==
  /\ slot \in 0..2 /\ sunday \in BOOLEAN /\ woke \in BOOLEAN /\ expired \subseteq Contracts
  /\ pos \in Rows /\ resting \in [Keys -> Nat] /\ holding \in [Delivery -> Nat]
  /\ fund \in FundType /\ last \in [Jobs -> 0..1] /\ up \in {"down", "boot", "up"}
  /\ made \in Int /\ upset \subseteq {"reconciled", "torn wipe"} /\ crashes \in 0..MaxCrashes
Threaded ==
  /\ agenda \in [Threads -> Seq(Tasks)] /\ pc \in [Threads -> PCs]
  /\ loc \in [Threads -> LocalType]

\* The type invariant is about the threads and about the rest.
LEMMA TypeParts == TypeOK <=> WorldOK /\ Threaded
  BY DEF TypeOK, WorldOK, Threaded, Rows, FundType, LocalType

\* A thread whose task is done.
LEMMA DoneTypes ==
  ASSUME TypeInv, NEW t \in Threads, ~Idle(t), Done(t), WorldOK'
  PROVE  TypeInv'
<1>1. Threaded
  BY TypeParts DEF TypeInv
<1>2. agenda[t] \in Seq(Tasks) /\ agenda[t] # <<>> /\ loc[t].age \in 0..1
  BY <1>1 DEF Threaded, Idle, LocalType
<1>3. Tail(agenda[t]) \in Seq(Tasks)
  BY <1>2
<1>4. loc'[t] \in LocalType /\ loc' = [loc EXCEPT ![t] = loc'[t]]
  <2>1. loc' = [loc EXCEPT ![t] = IF Len(agenda[t]) = 1 THEN NoLocals
                                  ELSE WithAge(NoLocals, loc[t].age)]
    BY DEF Done, WithAge
  <2>2. QED
    BY <1>1, <1>2, <2>1, TypeRest DEF Threaded
<1>5. /\ agenda' = [agenda EXCEPT ![t] = Tail(agenda[t])]
      /\ pc' = [pc EXCEPT ![t] = "next"]
  BY DEF Done
<1>6. Threaded'
  BY <1>1, <1>3, <1>4, <1>5 DEF Threaded, PCs
<1>7. ASSUME NEW u \in Threads
      PROVE  /\ pc'[u] # "next" => ~Idle(u)'
             /\ pc'[u] = "st_commit" => \A k \in Keys : loc'[u].rows[k] >= 0
  <2>1. CASE u = t
    BY <1>1, <1>5, <2>1 DEF Threaded
  <2>2. CASE u # t
    <3>1. pc'[u] = pc[u] /\ agenda'[u] = agenda[u] /\ loc'[u] = loc[u]
      BY <1>1, <1>4, <1>5, <2>2 DEF Threaded
    <3>2. QED
      BY <3>1 DEF TypeInv, Idle
  <2>3. QED
    BY <2>1, <2>2
<1>8. TypeOK'
  BY <1>6, TypeParts DEF TypeOK, WorldOK, Threaded, Rows, FundType, LocalType
<1>9. QED
  BY <1>7, <1>8 DEF TypeInv

\* A thread that goes to another place of its task.
LEMMA GotoTypes ==
  ASSUME TypeInv, NEW t \in Threads, ~Idle(t), NEW c \in PCs, NEW l, Goto(t, c, l), WorldOK',
         l \in [Threads -> LocalType],
         \A u \in Threads \ {t} : l[u].rows = loc[u].rows,
         c = "st_commit" => \A k \in Keys : l[t].rows[k] >= 0
  PROVE  TypeInv'
<1>1. Threaded
  BY TypeParts DEF TypeInv
<1>2. agenda' = agenda /\ pc' = [pc EXCEPT ![t] = c] /\ loc' = l
  BY DEF Goto
<1>3. Threaded'
  BY <1>1, <1>2 DEF Threaded
<1>4. TypeOK'
  BY <1>3 DEF TypeOK, WorldOK, Threaded, Rows, FundType, LocalType
<1>5. ASSUME NEW u \in Threads
      PROVE  /\ pc'[u] # "next" => ~Idle(u)'
             /\ pc'[u] = "st_commit" => \A k \in Keys : loc'[u].rows[k] >= 0
  <2>1. CASE u = t
    BY <1>1, <1>2, <2>1 DEF Threaded, Idle
  <2>2. CASE u # t
    BY <1>1, <1>2, <2>2 DEF TypeInv, Idle, Threaded
  <2>3. QED
    BY <2>1, <2>2
<1>6. QED
  BY <1>4, <1>5 DEF TypeInv

\* A step that ends a task.
LEMMA EndTypes ==
  ASSUME TypeInv, NEW t \in Threads,
         \/ \E j \in Jobs : Mark(t, j)
         \/ SquareOffDone(t) \/ TransferMargin(t) \/ ExpiredAbort(t) \/ BookWrite(t)
         \/ ResetToday(t) \/ WipeFunds(t) \/ Reconcile(t)
  PROVE  TypeInv'
<1>1. ~Idle(t) /\ Done(t) /\ UNCHANGED <<slot, sunday, woke, expired, book, up, crashes>>
  BY DEF Mark, SquareOffDone, TransferMargin, ExpiredAbort, BookWrite, ResetToday,
         WipeFunds, Reconcile, AtTask, TypeInv, world, history
<1>2. WorldOK /\ Threaded
  BY TypeParts DEF TypeInv
<1>0. fund \in FundType /\ made \in Int /\ pos \in Rows
  BY <1>2 DEF WorldOK
<1>9. upset \subseteq {"reconciled", "torn wipe"}
  BY <1>2 DEF WorldOK
<1>3. /\ loc[t].age \in 0..1 /\ loc[t].amt \in Nat /\ loc[t].cash \in Int
      /\ loc[t].booked \in Int /\ loc[t].pnl \in Int
  BY <1>2 DEF Threaded, LocalType
<1>4. fund' \in FundType
  <2>1. CASE \/ \E j \in Jobs : Mark(t, j)
             \/ SquareOffDone(t) \/ ExpiredAbort(t)
    BY <1>0, <2>1 DEF Mark, SquareOffDone, ExpiredAbort
  <2>2. CASE TransferMargin(t)
    <3>1. /\ fund' = [fund EXCEPT !.used = MaxOf(0, fund.used - loc[t].amt)]
          /\ fund.used - loc[t].amt \in Int
      BY <1>0, <1>3, <2>2 DEF FundType, TransferMargin
    <3>2. QED
      BY <1>0, <3>1 DEF FundType, MaxOf
  <2>3. CASE BookWrite(t)
    <3>1. fund' = [available |-> loc[t].cash + loc[t].pnl, used |-> fund.used,
                   realized |-> loc[t].booked + loc[t].pnl, today |-> fund.today]
      BY <1>0, <2>3 DEF FundType, BookWrite
    <3>2. QED
      BY <1>0, <1>3, <3>1 DEF FundType
  <2>4. CASE ResetToday(t)
    <3>1. fund' = [fund EXCEPT !.today = 0]
      BY <2>4 DEF ResetToday
    <3>2. QED
      BY <1>0, <3>1 DEF FundType
  <2>5. CASE WipeFunds(t)
    <3>1. Capital \in Nat
      BY InputsAssumption
    <3>2. QED
      BY <2>5, <3>1 DEF FundType, WipeFunds
  <2>6. CASE Reconcile(t)
    <3> DEFINE sz == SizeOf([k \in Keys |-> pos[k].qty])
    <3>1. sz \in Nat
      <4>1. [k \in Keys |-> pos[k].qty] \in [Keys -> Int]
        BY <1>0 DEF Rows
      <4>2. QED
        BY <4>1, KeysFinite, SizeNat
    <3> HIDE DEF sz
    <3>2. \/ fund' = fund
          \/ fund' = [available |-> fund.available + (fund.used - sz),
                      used |-> fund.used - (fund.used - sz),
                      realized |-> fund.realized, today |-> fund.today]
      BY <1>0, <2>6 DEF FundType, Reconcile, sz
    <3>3. QED
      BY <1>0, <3>1, <3>2 DEF FundType
  <2>7. QED
    BY <2>1, <2>2, <2>3, <2>4, <2>5, <2>6
<1>8. made' \in Int /\ upset' \subseteq {"reconciled", "torn wipe"}
  <2>1. /\ made' = made \/ made' = 0
        /\ upset' = upset \/ upset' = {} \/ upset' = upset \cup {"reconciled"}
    BY DEF Mark, SquareOffDone, TransferMargin, ExpiredAbort, BookWrite, ResetToday,
           WipeFunds, Reconcile, history
  <2>2. made' \in Int
    BY <1>0, <2>1
  <2>3. upset' \subseteq {"reconciled", "torn wipe"}
    BY <1>9, <2>1, Zenon
  <2>4. QED
    BY <2>2, <2>3
<1>5. last' \in [Jobs -> 0..1]
  <2>1. last \in [Jobs -> 0..1]
    BY <1>2 DEF WorldOK
  <2>2. last' = last \/ \E j \in Jobs : last' = [last EXCEPT ![j] = loc[t].age]
    BY DEF Mark, SquareOffDone, TransferMargin, ExpiredAbort, BookWrite, ResetToday,
           WipeFunds, Reconcile
  <2>3. QED
    BY <1>3, <2>1, <2>2
<1>6. WorldOK'
  BY <1>1, <1>2, <1>4, <1>5, <1>8 DEF WorldOK, book
<1>7. QED
  BY <1>1, <1>6, DoneTypes

\* The square-off cancels, releases and lists; an expiry frees and reads the funds.
LEMMA SquareTypes ==
  ASSUME TypeInv, NEW t \in Threads,
         CancelPending(t) \/ CancelRelease(t) \/ ListIntraday(t) \/ FreeMargin(t) \/ BookRead(t)
  PROVE  TypeInv'
<1>1. ~Idle(t) /\ UNCHANGED <<slot, sunday, woke, expired, pos, holding, last, up, made, upset, crashes>>
  BY DEF CancelPending, CancelRelease, ListIntraday, FreeMargin, BookRead, AtTask,
         TypeInv, world, book, history
<1>2. WorldOK /\ Threaded
  BY TypeParts DEF TypeInv
<1>3. /\ loc \in [Threads -> LocalType] /\ loc[t] \in LocalType /\ loc[t].amt \in Nat
  BY <1>2 DEF Threaded, LocalType
<1>0. fund \in FundType /\ resting \in [Keys -> Nat] /\ pos \in Rows
  BY <1>2 DEF WorldOK
<1>4. resting' \in [Keys -> Nat] /\ fund' \in FundType
  <2>1. CASE CancelRelease(t) \/ FreeMargin(t)
    BY <1>0, <1>3, <2>1, ReleaseTypes DEF CancelRelease, FreeMargin, book
  <2>2. CASE CancelPending(t) \/ ListIntraday(t) \/ BookRead(t)
    BY <1>0, <2>2 DEF CancelPending, ListIntraday, BookRead, book
  <2>3. QED
    BY <2>1, <2>2
<1>5. WorldOK'
  BY <1>1, <1>2, <1>4 DEF WorldOK
<1>6. CASE CancelPending(t) \/ CancelRelease(t)
  <2>1. SizeOf(resting) \in Nat
    BY <1>0, KeysFinite, SizeNat
  <2>2. \A a \in Nat : [loc EXCEPT ![t].amt = a] = [loc EXCEPT ![t] = WithAmt(loc[t], a)]
    BY <1>3 DEF WithAmt
  <2>3. ASSUME NEW a \in Nat
        PROVE  /\ [loc EXCEPT ![t].amt = a] \in [Threads -> LocalType]
               /\ \A u \in Threads \ {t} : [loc EXCEPT ![t].amt = a][u].rows = loc[u].rows
    <3> DEFINE x == WithAmt(loc[t], a)
    <3>1. x \in LocalType
      BY <1>3, TypeAmt
    <3> HIDE DEF x
    <3>2. /\ [loc EXCEPT ![t] = x] \in [Threads -> LocalType]
          /\ \A u \in Threads \ {t} : [loc EXCEPT ![t] = x][u] = loc[u]
      BY <1>3, <3>1
    <3>3. QED
      BY <2>2, <3>2 DEF x
  <2>4. PICK c, l : /\ Goto(t, c, l) /\ c \in {"sq_list", "sq_release"}
                    /\ \/ l = loc
                       \/ \E a \in Nat : l = [loc EXCEPT ![t].amt = a]
    BY <1>6, <2>1 DEF CancelPending, CancelRelease
  <2>5. /\ l \in [Threads -> LocalType] /\ \A u \in Threads \ {t} : l[u].rows = loc[u].rows
        /\ c \in PCs /\ c # "st_commit"
    BY <1>3, <2>3, <2>4 DEF PCs
  <2>6. QED
    BY ONLY TypeInv, t \in Threads, <1>1, <1>5, <2>4, <2>5, GotoTypes
<1>7. CASE ListIntraday(t)
  <2> DEFINE rows == [k \in Keys |-> IF k \in Intraday THEN pos[k].qty ELSE 0]
             x == WithRows(loc[t], rows)
  <2>1. rows \in [Keys -> Int]
    BY <1>0 DEF Rows
  <2>2. x \in LocalType
    BY <1>3, <2>1, TypeRows
  <2>3. Goto(t, "sq_place", [loc EXCEPT ![t] = x])
    BY <1>3, <1>7 DEF ListIntraday, WithRows
  <2> HIDE DEF rows, x
  <2>4. /\ [loc EXCEPT ![t] = x] \in [Threads -> LocalType]
        /\ \A u \in Threads \ {t} : [loc EXCEPT ![t] = x][u] = loc[u]
    BY <1>3, <2>2
  <2>5. QED
    BY <1>1, <1>5, <2>3, <2>4, GotoTypes DEF PCs
<1>8. CASE BookRead(t)
  <2> DEFINE x == WithBooked(WithCash(loc[t], fund.available), fund.realized)
  <2>1. fund.available \in Int /\ fund.realized \in Int
    BY <1>0 DEF FundType
  <2>2. x \in LocalType
    BY <1>3, <2>1, TypeCash, TypeBooked
  <2>3. Goto(t, "book_write", [loc EXCEPT ![t] = x])
    BY <1>3, <1>8 DEF BookRead, WithCash, WithBooked
  <2> HIDE DEF x
  <2>4. /\ [loc EXCEPT ![t] = x] \in [Threads -> LocalType]
        /\ \A u \in Threads \ {t} : [loc EXCEPT ![t] = x][u] = loc[u]
    BY <1>3, <2>2
  <2>5. QED
    BY <1>1, <1>5, <2>3, <2>4, GotoTypes DEF PCs
<1>9. CASE FreeMargin(t)
  <2> DEFINE x == WithAmt(loc[t], 0)
  <2>1. x \in LocalType
    BY <1>3, TypeAmt
  <2>2. Done(t) \/ Goto(t, "book_read", [loc EXCEPT ![t] = x])
    BY <1>3, <1>9 DEF FreeMargin, WithAmt
  <2> HIDE DEF x
  <2>3. /\ [loc EXCEPT ![t] = x] \in [Threads -> LocalType]
        /\ \A u \in Threads \ {t} : [loc EXCEPT ![t] = x][u] = loc[u]
    BY <1>3, <2>1
  <2>4. QED
    BY <1>1, <1>5, <2>2, <2>3, GotoTypes, DoneTypes DEF PCs
<1>10. QED
  BY <1>6, <1>7, <1>8, <1>9

\* Going on with new locals of one's own.
LEMMA OwnTypes ==
  ASSUME TypeInv, NEW t \in Threads, ~Idle(t), NEW c \in PCs, NEW x \in LocalType,
         Goto(t, c, [loc EXCEPT ![t] = x]), WorldOK',
         c = "st_commit" => \A k \in Keys : x.rows[k] >= 0
  PROVE  TypeInv'
<1>1. loc \in [Threads -> LocalType]
  BY TypeParts DEF TypeInv, Threaded
<1>2. /\ [loc EXCEPT ![t] = x] \in [Threads -> LocalType] /\ [loc EXCEPT ![t] = x][t] = x
      /\ \A u \in Threads \ {t} : [loc EXCEPT ![t] = x][u] = loc[u]
  BY <1>1
<1>3. QED
  BY <1>2, GotoTypes

\* A settlement reads long rows.
LEMMA SettleReadTypes ==
  ASSUME TypeInv, NEW t \in Threads, SettleRead(t)
  PROVE  TypeInv'
<1> DEFINE rows == [k \in Keys |-> IF k \in Eligible THEN pos[k].qty ELSE 0]
           held == [k \in Keys |-> IF k \in Delivery THEN holding[k] ELSE 0]
           x == Reading(loc[t], rows, Eligible, held)
<1>1. ~Idle(t) /\ UNCHANGED <<world, book, fund, last, up, history>>
  BY DEF SettleRead, AtTask
<1>2. WorldOK /\ loc \in [Threads -> LocalType]
  BY TypeParts DEF TypeInv, Threaded
<1>3. WorldOK'
  BY <1>1, <1>2 DEF WorldOK, world, book, history
<1>4. pos \in Rows /\ holding \in [Delivery -> Nat] /\ loc[t] \in LocalType
  BY <1>2 DEF WorldOK
<1>5. /\ rows \in [Keys -> Int] /\ held \in [Keys -> Nat] /\ Eligible \in SUBSET Keys
      /\ \A k \in Keys : rows[k] >= 0
  BY <1>4 DEF Rows, Eligible, Delivery
<1>6. Done(t) \/ Goto(t, "st_commit", [loc EXCEPT ![t] = x])
  BY <1>2 DEF SettleRead, Reading, WithRows, WithLive, WithHeld
<1> HIDE DEF rows, held
<1>7. x \in LocalType /\ x.rows = rows
  <2>1. WithRows(loc[t], rows) \in LocalType /\ WithRows(loc[t], rows).rows = rows
    BY <1>4, <1>5, TypeRows
  <2>2. WithLive(WithRows(loc[t], rows), Eligible) \in LocalType
        /\ WithLive(WithRows(loc[t], rows), Eligible).rows = rows
    BY <1>5, <2>1, TypeLive
  <2>3. QED
    BY <1>5, <2>2, TypeHeld DEF Reading
<1> HIDE DEF x
<1>8. QED
  BY <1>1, <1>3, <1>5, <1>6, <1>7, DoneTypes, OwnTypes DEF PCs

\* And adds them to the holdings.
LEMMA SettleCommitTypes ==
  ASSUME TypeInv, NEW t \in Threads, SettleCommit(t)
  PROVE  TypeInv'
<1>1. /\ ~Idle(t) /\ pc[t] = "st_commit" /\ Settled(t)
      /\ UNCHANGED <<world, resting, fund, last, up, history>>
  BY DEF SettleCommit, TypeInv
<1>2. WorldOK /\ loc \in [Threads -> LocalType] /\ \A k \in Keys : loc[t].rows[k] >= 0
  BY <1>1, TypeParts DEF TypeInv, Threaded
<1>3. pos \in Rows /\ holding \in [Delivery -> Nat] /\ loc[t] \in LocalType
  BY <1>2 DEF WorldOK
<1>4. loc[t].rows \in [Keys -> Int] /\ loc[t].held \in [Keys -> Nat]
  BY <1>3 DEF LocalType
<1>5. holding' \in [Delivery -> Nat]
  BY <1>1, <1>2, <1>3, <1>4 DEF Settled, Delivery
<1>6. pos' \in Rows
  BY <1>1, <1>3 DEF Settled, Rows, NoPosition
<1>7. WorldOK'
  BY <1>1, <1>2, <1>5, <1>6 DEF WorldOK, world, history
<1> DEFINE amt == SizeOf(loc[t].rows)
           mine == WithAmt(WithHeld(WithLive(WithRows(loc[t], NoRows), {}), NoRows), amt)
           deleted == {k \in Delivery : loc[t].rows[k] # 0} \cap loc[t].live
           new == [u \in Threads |-> IF u = t THEN mine
                                     ELSE WithLive(loc[u], loc[u].live \ deleted)]
<1>8. Goto(t, "transfer", new)
  <2>1. [loc[t] EXCEPT !.rows = NoRows, !.live = {}, !.held = NoRows, !.amt = amt] = mine
    BY DEF WithAmt, WithHeld, WithLive, WithRows
  <2> HIDE DEF mine
  <2>2. QED
    BY <1>1, <2>1 DEF Settled, WithLive
<1>9. mine \in LocalType
  <2>1. amt \in Nat
    BY <1>4, KeysFinite, SizeNat
  <2>2. NoRows \in [Keys -> Int] /\ NoRows \in [Keys -> Nat]
    BY DEF NoRows
  <2> HIDE DEF amt
  <2>3. WithRows(loc[t], NoRows) \in LocalType
    BY <1>3, <2>2, TypeRows
  <2>4. WithLive(WithRows(loc[t], NoRows), {}) \in LocalType
    BY <2>3, TypeLive
  <2>5. WithHeld(WithLive(WithRows(loc[t], NoRows), {}), NoRows) \in LocalType
    BY <2>2, <2>4, TypeHeld
  <2>6. QED
    BY <2>1, <2>5, TypeAmt
<1>10. ASSUME NEW u \in Threads \ {t}
       PROVE  new[u] \in LocalType /\ new[u].rows = loc[u].rows
  <2>1. loc[u] \in LocalType /\ loc[u].live \ deleted \in SUBSET Keys
    BY <1>2 DEF LocalType
  <2> HIDE DEF deleted
  <2>2. QED
    BY <2>1, TypeLive
<1> HIDE DEF mine, deleted
<1>11. new \in [Threads -> LocalType] /\ \A u \in Threads \ {t} : new[u].rows = loc[u].rows
  BY <1>9, <1>10
<1> HIDE DEF new
<1>12. QED
  BY <1>1, <1>7, <1>8, <1>11, GotoTypes DEF PCs

\* Or gives up.
LEMMA SettleAbortTypes ==
  ASSUME TypeInv, NEW t \in Threads, SettleAbort(t)
  PROVE  TypeInv'
<1>1. ~Idle(t) /\ UNCHANGED <<world, book, fund, last, up, history>>
  BY DEF SettleAbort, TypeInv
<1>2. WorldOK /\ Threaded
  BY TypeParts DEF TypeInv
<1>3. WorldOK'
  BY <1>1, <1>2 DEF WorldOK, world, book, history
<1>4. CASE Done(t)
  BY <1>1, <1>3, <1>4, DoneTypes
<1>5. CASE /\ agenda' = [agenda EXCEPT ![t] = <<>>] /\ pc' = [pc EXCEPT ![t] = "next"]
           /\ loc' = [loc EXCEPT ![t] = NoLocals]
  <2>1. Threaded'
    BY <1>2, <1>5, TypeRest DEF Threaded, PCs
  <2>2. TypeOK'
    BY <1>3, <2>1 DEF TypeOK, WorldOK, Threaded, Rows, FundType, LocalType
  <2>3. QED
    BY <1>2, <1>5, <2>2 DEF TypeInv, Idle, Threaded
<1>6. QED
  BY <1>4, <1>5 DEF SettleAbort

\* Positions that are closed by a job.
LEMMA ClosedRow ==
  ASSUME NEW x \in [qty : Int, upd : 0..1, trd : 0..1]
  PROVE  [x EXCEPT !.qty = 0, !.upd = 0] \in [qty : Int, upd : 0..1, trd : 0..1]
<1> DEFINE y == [x EXCEPT !.qty = 0]
<1>1. y \in [qty : Int, upd : 0..1, trd : 0..1]
  OBVIOUS
<1> HIDE DEF y
<1>2. [y EXCEPT !.upd = 0] \in [qty : Int, upd : 0..1, trd : 0..1]
  BY <1>1
<1>3. QED
  BY <1>2 DEF y

\* And those a job closes itself.
LEMMA CloseRowsTypes ==
  ASSUME TypeInv, NEW t \in Threads, ~Idle(t), NEW rows \in [Keys -> Int], NEW p \in Int,
         CloseRows(t, rows, p), UNCHANGED <<world, resting, holding, fund, last, up, history>>
  PROVE  TypeInv'
<1>1. WorldOK /\ loc \in [Threads -> LocalType]
  BY TypeParts DEF TypeInv, Threaded
<1>2. pos \in Rows /\ loc[t] \in LocalType
  BY <1>1 DEF WorldOK
<1>3. pos' \in Rows
  <2>1. pos' = [k \in Keys |-> IF rows[k] # 0 THEN [pos[k] EXCEPT !.qty = 0, !.upd = 0] ELSE pos[k]]
    BY DEF CloseRows
  <2>2. QED
    BY <1>2, <2>1, ClosedRow DEF Rows
<1>4. WorldOK'
  BY <1>1, <1>3 DEF WorldOK, world, history
<1> DEFINE amt == SizeOf(rows)
           x == WithPnl(WithAmt(WithLive(WithRows(loc[t], NoRows), {}), amt), p)
<1>5. Goto(t, "free", [loc EXCEPT ![t] = x])
  BY <1>1 DEF CloseRows, WithPnl, WithAmt, WithLive, WithRows
<1>6. x \in LocalType
  <2>1. amt \in Nat
    BY KeysFinite, SizeNat
  <2>2. NoRows \in [Keys -> Int]
    BY DEF NoRows
  <2> HIDE DEF amt
  <2>3. WithRows(loc[t], NoRows) \in LocalType
    BY <1>2, <2>2, TypeRows
  <2>4. WithLive(WithRows(loc[t], NoRows), {}) \in LocalType
    BY <2>3, TypeLive
  <2>5. WithAmt(WithLive(WithRows(loc[t], NoRows), {}), amt) \in LocalType
    BY <2>1, <2>4, TypeAmt
  <2>6. QED
    BY <2>5, TypePnl
<1> HIDE DEF x
<1>7. QED
  BY <1>4, <1>5, <1>6, OwnTypes DEF PCs

\* Stale and expired positions.
LEMMA ExpiryTypes ==
  ASSUME TypeInv, NEW t \in Threads, CloseStale(t) \/ ExpiredCommit(t)
  PROVE  TypeInv'
<1>1. ~Idle(t) /\ UNCHANGED <<world, resting, holding, fund, last, up, history>>
  BY DEF CloseStale, ExpiredCommit, AtTask, TypeInv
<1>2. WorldOK /\ loc \in [Threads -> LocalType]
  BY TypeParts DEF TypeInv, Threaded
<1>3. pos \in Rows /\ loc[t].rows \in [Keys -> Int]
  BY <1>2 DEF WorldOK, LocalType
<1>4. StaleRows \in [Keys -> Int]
  BY <1>3 DEF StaleRows, Rows
<1>5. CASE \E p \in Outcomes : CloseRows(t, StaleRows, p) \/ CloseRows(t, loc[t].rows, p)
  <2>1. PICK p \in Outcomes : CloseRows(t, StaleRows, p) \/ CloseRows(t, loc[t].rows, p)
    BY <1>5
  <2>2. p \in Int
    BY <2>1, OutcomesInt
  <2>3. PICK rows \in [Keys -> Int] : CloseRows(t, rows, p)
    BY <1>3, <1>4, <2>1
  <2>4. QED
    BY <1>1, <2>2, <2>3, CloseRowsTypes
<1>6. CASE Done(t) /\ UNCHANGED pos
  <2>1. WorldOK'
    BY <1>1, <1>2, <1>6 DEF WorldOK, world, history
  <2>2. QED
    BY <1>1, <1>6, <2>1, DoneTypes
<1>7. QED
  BY <1>5, <1>6 DEF CloseStale, ExpiredCommit

\* An expiry reads what is open.
LEMMA ExpiredReadTypes ==
  ASSUME TypeInv, NEW t \in Threads, ExpiredRead(t)
  PROVE  TypeInv'
<1> DEFINE open == {k \in expired : pos[k].qty # 0}
           rows == [k \in Keys |-> IF k \in open THEN pos[k].qty ELSE 0]
           x == WithLive(WithRows(loc[t], rows), open)
<1>1. ~Idle(t) /\ UNCHANGED <<world, book, fund, last, up, history>>
  BY DEF ExpiredRead, AtTask
<1>2. WorldOK /\ loc \in [Threads -> LocalType]
  BY TypeParts DEF TypeInv, Threaded
<1>3. WorldOK'
  BY <1>1, <1>2 DEF WorldOK, world, book, history
<1>4. pos \in Rows /\ expired \subseteq Contracts /\ loc[t] \in LocalType
  BY <1>2 DEF WorldOK
<1>5. rows \in [Keys -> Int] /\ open \in SUBSET Keys
  BY <1>4 DEF Rows, Contracts
<1>6. Done(t) \/ Goto(t, "ex_commit", [loc EXCEPT ![t] = x])
  BY <1>2 DEF ExpiredRead, WithRows, WithLive
<1> HIDE DEF rows, open
<1>7. x \in LocalType
  BY <1>4, <1>5, TypeRows, TypeLive
<1> HIDE DEF x
<1>8. QED
  BY <1>1, <1>3, <1>6, <1>7, DoneTypes, OwnTypes DEF PCs

\* A wipe.
LEMMA WipeTypes ==
  ASSUME TypeInv, NEW t \in Threads, Wipe(t)
  PROVE  TypeInv'
<1> DEFINE new == [u \in Threads |-> WithLive(loc[u], {})]
<1>1. /\ ~Idle(t) /\ UNCHANGED <<world, fund, last, up, history>>
      /\ pos' = [k \in Keys |-> NoPosition] /\ resting' = [k \in Keys |-> 0]
      /\ holding' = [k \in Delivery |-> 0]
  BY DEF Wipe, AtTask
<1>2. WorldOK /\ loc \in [Threads -> LocalType]
  BY TypeParts DEF TypeInv, Threaded
<1>3. pos' \in Rows /\ resting' \in [Keys -> Nat] /\ holding' \in [Delivery -> Nat]
  BY <1>1 DEF Rows, NoPosition
<1>4. WorldOK'
  BY <1>1, <1>2, <1>3 DEF WorldOK, world, history
<1>5. Goto(t, "wipe_funds", new)
  BY DEF Wipe, WithLive
<1>6. \A u \in Threads : new[u] \in LocalType /\ new[u].rows = loc[u].rows
  BY <1>2, TypeLive
<1>7. new \in [Threads -> LocalType]
  BY <1>6
<1> HIDE DEF new
<1>8. QED
  BY <1>1, <1>4, <1>5, <1>6, <1>7, GotoTypes DEF PCs

\* The reverse order of a listed position.
LEMMA SquareOffTypes ==
  ASSUME TypeInv, NEW t \in Threads, NEW k \in Keys, SquareOff(t, k) \/ SquareOffRefused(t, k)
  PROVE  TypeInv'
<1>1. /\ ~Idle(t) /\ pc[t] = "sq_place" /\ loc' = [loc EXCEPT ![t].rows[k] = 0]
      /\ UNCHANGED <<world, resting, holding, last, up, agenda, pc, upset, crashes>>
  BY DEF SquareOff, SquareOffRefused, TypeInv, book, history
<1>2. WorldOK /\ loc \in [Threads -> LocalType]
  BY TypeParts DEF TypeInv, Threaded
<1>3. pos \in Rows /\ loc[t] \in LocalType /\ made \in Int /\ fund \in FundType
  BY <1>2 DEF WorldOK
<1>4. loc[t].rows \in [Keys -> Int] /\ -loc[t].rows[k] \in Int
  BY <1>3 DEF LocalType
<1>5. fund' \in FundType /\ pos' \in Rows /\ made' \in Int
  <2>1. CASE SquareOffRefused(t, k)
    BY <1>3, <2>1 DEF SquareOffRefused, book, history
  <2>2. CASE SquareOff(t, k)
    <3>1. PICK p \in Outcomes : Trade(k, -loc[t].rows[k], p)
      BY <2>2 DEF SquareOff
    <3>2. p \in Int
      BY <3>1, OutcomesInt
    <3>3. QED
      BY <1>4, <3>1, <3>2, TradeFundTypes DEF TypeInv
  <2>3. QED
    BY <2>1, <2>2
<1>6. WorldOK'
  BY <1>1, <1>2, <1>5 DEF WorldOK, world
<1> DEFINE r == [loc[t].rows EXCEPT ![k] = 0]
           x == WithRows(loc[t], r)
<1>7. x \in LocalType
  <2>1. r \in [Keys -> Int]
    BY <1>4
  <2> HIDE DEF r
  <2>2. QED
    BY <1>3, <2>1, TypeRows
<1>8. loc' = [loc EXCEPT ![t] = x]
  BY <1>1, <1>2 DEF WithRows
<1> HIDE DEF x
<1>9. Goto(t, "sq_place", [loc EXCEPT ![t] = x])
  BY <1>1, <1>2, <1>8, TypeParts DEF Goto, TypeInv, Threaded
<1>10. QED
  BY <1>1, <1>6, <1>7, <1>9, OwnTypes DEF PCs

\* Nothing changes in the threads.
LEMMA StillTypes ==
  ASSUME TypeInv, UNCHANGED control, WorldOK'
  PROVE  TypeInv'
<1>1. Threaded' /\ UNCHANGED <<agenda, pc, loc>>
  BY TypeParts DEF TypeInv, control, Threaded
<1>2. TypeOK'
  BY <1>1 DEF TypeOK, WorldOK, Threaded, Rows, FundType, LocalType
<1>3. QED
  BY <1>1, <1>2 DEF TypeInv, Idle

\* Users, fills and quotes.
LEMMA UserTypes ==
  ASSUME TypeInv, NEW k \in Keys,
         OpenPosition(k) \/ ReducePosition(k) \/ RestOrder(k) \/ FillOrder(k) \/ MtmWrite(k)
  PROVE  TypeInv'
<1>1. UNCHANGED <<world, holding, last, up, control, upset, crashes>>
  BY DEF OpenPosition, ReducePosition, RestOrder, FillOrder, MtmWrite, history
<1>2. WorldOK
  BY TypeParts DEF TypeInv
<1>3. pos \in Rows /\ resting \in [Keys -> Nat] /\ made \in Int /\ fund \in FundType
  BY <1>2 DEF WorldOK
<1>4. pos[k].qty \in Int /\ resting[k] \in Nat
  BY <1>3 DEF Rows
<1>5. fund' \in FundType /\ pos' \in Rows /\ made' \in Int /\ resting' \in [Keys -> Nat]
  <2>1. CASE OpenPosition(k) \/ ReducePosition(k)
    <3>1. PICK d \in Int, p \in Int : Trade(k, d, p)
      <4>1. Quantities \subseteq Int
        BY InputsAssumption
      <4>2. CASE OpenPosition(k)
        <5>1. PICK d \in Quantities : Trade(k, d, 0)
          BY <4>2 DEF OpenPosition
        <5>2. d \in Int /\ 0 \in Int
          BY <4>1, <5>1
        <5>3. QED
          BY <5>1, <5>2
      <4>3. CASE ReducePosition(k)
        <5>1. PICK p \in Outcomes : Trade(k, IF pos[k].qty > 0 THEN -1 ELSE 1, p)
          BY <4>3 DEF ReducePosition
        <5>2. p \in Int
          BY <5>1, OutcomesInt
        <5>3. QED
          BY <5>1, <5>2
      <4>4. QED
        BY <2>1, <4>2, <4>3
    <3>2. resting' = resting
      BY <2>1 DEF OpenPosition, ReducePosition
    <3>3. QED
      BY <1>3, <3>1, <3>2, TradeFundTypes DEF TypeInv
  <2>2. CASE RestOrder(k)
    <3>1. /\ resting' = [resting EXCEPT ![k] = 1] /\ UNCHANGED <<pos, made>>
          /\ fund' = [available |-> fund.available - 1, used |-> fund.used + 1,
                      realized |-> fund.realized, today |-> fund.today]
      BY <1>3, <2>2 DEF RestOrder, FundType, history
    <3>2. QED
      BY <1>3, <3>1 DEF FundType
  <2>3. CASE FillOrder(k)
    <3>1. resting' = [resting EXCEPT ![k] = 0]
      BY <2>3 DEF FillOrder
    <3>2. CASE UNCHANGED <<fund, made>>
      BY <1>3, <1>4, <2>3, <3>1, <3>2 DEF FillOrder, Rows
    <3>3. CASE pos[k].qty < 0
      <4>1. PICK p \in Outcomes : Release(1 + resting[k], p) /\ made' = made + p
        BY <1>4, <2>3, <3>3 DEF FillOrder
      <4>2. p \in Int /\ 1 + resting[k] \in Int
        BY <1>4, <4>1, OutcomesInt
      <4>3. fund' \in FundType /\ made' \in Int
        BY <1>3, <4>1, <4>2, ReleaseTypes
      <4>4. pos' \in Rows
        BY <1>3, <1>4, <2>3, <3>3 DEF FillOrder, Rows
      <4>5. QED
        BY <1>3, <3>1, <4>3, <4>4
    <3>4. QED
      BY <2>3, <3>2, <3>3 DEF FillOrder
  <2>4. CASE MtmWrite(k)
    BY <1>3, <2>4 DEF MtmWrite, Rows, history
  <2>5. QED
    BY <2>1, <2>2, <2>3, <2>4
<1>6. WorldOK'
  BY <1>1, <1>2, <1>5 DEF WorldOK, world
<1>7. QED
  BY <1>1, <1>6, StillTypes

\* The clock and the process.
LEMMA ClockTypes ==
  ASSUME TypeInv, NextSlot \/ Started
  PROVE  TypeInv'
<1>1. WorldOK
  BY TypeParts DEF TypeInv
<1>2. slot' \in 0..2 /\ up' \in {"down", "boot", "up"} /\ woke' = FALSE
      /\ UNCHANGED <<sunday, expired, book, fund, last, control, history>>
  <2>1. slot \in 0..2 /\ up \in {"down", "boot", "up"}
    BY <1>1 DEF WorldOK
  <2>2. CASE NextSlot
    BY <2>1, <2>2 DEF NextSlot
  <2>3. CASE Started
    BY <2>1, <2>3 DEF Started
  <2>4. QED
    BY <2>2, <2>3
<1>3. WorldOK'
  BY <1>1, <1>2 DEF WorldOK, book, history
<1>4. QED
  BY <1>2, <1>3, StillTypes

\* Midnight makes rows and passes older.
LEMMA MidnightTypes ==
  ASSUME TypeInv, Midnight
  PROVE  TypeInv'
<1> DEFINE new == [t \in Threads |-> IF Idle(t) THEN loc[t] ELSE WithAge(loc[t], 1)]
<1>1. WorldOK /\ Threaded
  BY TypeParts DEF TypeInv
<1>2. /\ slot' = 0 /\ woke' = FALSE /\ last' = [j \in Jobs |-> 1] /\ made' = 0 /\ loc' = new
      /\ UNCHANGED <<resting, holding, fund, up, agenda, pc, upset, crashes>>
      /\ pos' = [k \in Keys |-> IF pos[k].qty = 0 THEN pos[k]
                                ELSE [pos[k] EXCEPT !.upd = 1, !.trd = 1]]
  BY DEF Midnight, WithAge
<1>3. sunday' \in BOOLEAN
  BY DEF Midnight
<1>4. expired' \subseteq Contracts
  BY <1>1 DEF Midnight, WorldOK
<1>5. pos' \in Rows
  <2>1. ASSUME NEW x \in [qty : Int, upd : 0..1, trd : 0..1]
        PROVE  [x EXCEPT !.upd = 1, !.trd = 1] \in [qty : Int, upd : 0..1, trd : 0..1]
    <3> DEFINE y == [x EXCEPT !.upd = 1]
    <3>1. y \in [qty : Int, upd : 0..1, trd : 0..1]
      BY <2>1
    <3> HIDE DEF y
    <3>2. [y EXCEPT !.trd = 1] \in [qty : Int, upd : 0..1, trd : 0..1]
      BY <3>1
    <3>3. QED
      BY <3>2 DEF y
  <2>2. pos \in Rows
    BY <1>1 DEF WorldOK
  <2>3. QED
    BY <1>2, <2>1, <2>2 DEF Rows
<1>6. WorldOK'
  <2>1. slot' \in 0..2 /\ made' \in Int /\ last' \in [Jobs -> 0..1]
    <3>1. slot' = 0 /\ made' = 0 /\ last' = [j \in Jobs |-> 1]
      BY <1>2
    <3>2. QED
      BY <3>1
  <2>2. QED
    BY <1>1, <1>2, <1>3, <1>4, <1>5, <2>1, Zenon DEF WorldOK
<1>7. \A t \in Threads : new[t] \in LocalType /\ new[t].rows = loc[t].rows
  BY <1>1, TypeAge DEF Threaded
<1>8. new \in [Threads -> LocalType]
  BY <1>7
<1> HIDE DEF new
<1>9. Threaded'
  BY <1>1, <1>2, <1>8 DEF Threaded
<1>10. TypeOK'
  BY <1>6, <1>9 DEF TypeOK, WorldOK, Threaded, Rows, FundType, LocalType
<1>11. QED
  BY <1>2, <1>7, <1>10 DEF TypeInv, Idle

\* What a thread is given to do are tasks.
LEMMA AgendaTypes ==
  /\ BootTasks \in Seq(Tasks) /\ BootTasks # <<>>
  /\ \A j \in Jobs : IfDue(j) \in Seq(Tasks)
  /\ \A op \in WebOps : <<op>> \in Seq(Tasks)
<1>1. BootTasks \in Seq(Tasks) /\ BootTasks # <<>>
  BY DEF BootTasks, Tasks
<1>2. ASSUME NEW op \in WebOps PROVE op \in Tasks
  <2>1. op \in AllWebOps
    BY InputsAssumption
  <2>2. QED
    BY <2>1 DEF AllWebOps, Tasks
<1>3. \A j \in Jobs : MarkOf[j] \in Tasks
  BY DEF Tasks
<1>4. {"squareoff", "settle", "today", "expired", "wipe"} \subseteq Tasks
  BY DEF Tasks
<1>5. ASSUME NEW j \in Jobs PROVE IfDue(j) \in Seq(Tasks)
  <2>1. MarkOf[j] \in Tasks
    BY <1>3
  <2> DEFINE m == MarkOf[j]
  <2> HIDE DEF m
  <2>2. m \in Tasks
    BY <2>1 DEF m
  <2>3. /\ <<"squareoff", m>> \in Seq(Tasks) /\ <<"settle", m>> \in Seq(Tasks)
        /\ <<"today", "expired", m>> \in Seq(Tasks) /\ <<"wipe", m>> \in Seq(Tasks)
    BY <1>4, <2>2
  <2>4. TasksOf(j) \in Seq(Tasks)
    BY <2>3 DEF TasksOf, Jobs, m
  <2>5. QED
    BY <2>4 DEF IfDue
<1>6. QED
  BY <1>1, <1>2, <1>5

\* The process starts, a pass begins or a request arrives.
LEMMA StartTypes ==
  ASSUME TypeInv, Boot \/ Tick \/ \E op \in WebOps : WebCall(op)
  PROVE  TypeInv'
<1>1. WorldOK /\ Threaded
  BY TypeParts DEF TypeInv
<1>2. /\ UNCHANGED <<slot, sunday, expired, book, fund, last, pc, loc, history>>
      /\ woke' \in BOOLEAN /\ up' \in {"down", "boot", "up"}
  BY <1>1 DEF Boot, Tick, WebCall, world, WorldOK
<1>3. WorldOK'
  BY <1>1, <1>2 DEF WorldOK, book, history
<1>4. PICK t \in Threads, a \in Seq(Tasks) :
        agenda' = [agenda EXCEPT ![t] = a] /\ (a # <<>> \/ Idle(t))
  <2>1. CASE Boot
    BY <2>1, AgendaTypes DEF Boot, Threads
  <2>2. CASE \E op \in WebOps : WebCall(op)
    BY <2>2, AgendaTypes DEF WebCall, Threads
  <2>3. CASE Tick
    <3> DEFINE a == IfDue("squareoff") \o IfDue("eod") \o IfDue("daily") \o IfDue("weekly")
    <3>1. a \in Seq(Tasks)
      <4>1. /\ IfDue("squareoff") \in Seq(Tasks) /\ IfDue("eod") \in Seq(Tasks)
            /\ IfDue("daily") \in Seq(Tasks) /\ IfDue("weekly") \in Seq(Tasks)
        BY AgendaTypes DEF Jobs
      <4>2. QED
        BY <4>1
    <3>2. agenda' = [agenda EXCEPT !["jobs"] = a] /\ Idle("jobs") /\ "jobs" \in Threads
      BY <2>3 DEF Tick, Threads
    <3> HIDE DEF a
    <3>3. QED
      BY <3>1, <3>2
  <2>4. QED
    BY <2>1, <2>2, <2>3
<1>5. agenda' \in [Threads -> Seq(Tasks)]
  BY <1>1, <1>4 DEF Threaded
<1>6. Threaded'
  BY <1>1, <1>2, <1>5 DEF Threaded
<1>7. TypeOK'
  BY <1>3, <1>6 DEF TypeOK, WorldOK, Threaded, Rows, FundType, LocalType
<1>8. QED
  BY <1>1, <1>2, <1>4, <1>7 DEF TypeInv, Idle, Threaded

\* A crash takes everything from the threads.
LEMMA CrashTypes ==
  ASSUME TypeInv, Crash
  PROVE  TypeInv'
<1>1. WorldOK
  BY TypeParts DEF TypeInv
<1>2. upset' \subseteq {"reconciled", "torn wipe"}
  <2>1. upset \subseteq {"reconciled", "torn wipe"}
    BY <1>1 DEF WorldOK
  <2>2. upset' = upset \/ upset' = upset \cup {"torn wipe"}
    BY DEF Crash
  <2>3. QED
    BY <2>1, <2>2, Zenon
<1>3. crashes' \in 0..MaxCrashes
  <2>1. crashes \in 0..MaxCrashes /\ MaxCrashes \in Nat
    BY <1>1, InputsAssumption DEF WorldOK
  <2>2. crashes < MaxCrashes /\ crashes' = crashes + 1
    BY DEF Crash
  <2>3. QED
    BY <2>1, <2>2
<1>4. WorldOK'
  BY <1>1, <1>2, <1>3 DEF WorldOK, Crash, world, book
<1>5. Threaded'
  <2>1. /\ agenda' = [t \in Threads |-> <<>>] /\ pc' = [t \in Threads |-> "next"]
        /\ loc' = [t \in Threads |-> NoLocals]
    BY DEF Crash
  <2>2. QED
    BY <2>1, TypeRest DEF Threaded, PCs
<1>6. TypeOK'
  BY <1>4, <1>5 DEF TypeOK, WorldOK, Threaded, Rows, FundType, LocalType
<1>7. QED
  BY <1>6 DEF TypeInv, Crash

\* The first state, and any step.
LEMMA InitTypes == Init => TypeInv
<1> SUFFICES ASSUME Init PROVE TypeInv
  OBVIOUS
<1>1. Capital \in Nat /\ MaxCrashes \in Nat
  BY InputsAssumption
<1>2. pos \in Rows /\ fund \in FundType /\ holding \in [Delivery -> Nat]
  BY <1>1 DEF Init, Rows, NoPosition, FundType
<1>3. resting \in [Keys -> Nat] /\ last \in [Jobs -> 0..1] /\ crashes \in 0..MaxCrashes
  BY <1>1 DEF Init
<1>4. WorldOK
  <2>1. /\ slot = 0 /\ sunday = FALSE /\ woke = FALSE /\ expired = {} /\ up = "down"
        /\ made = 0 /\ upset = {}
    BY DEF Init
  <2>2. made \in Int /\ slot \in 0..2
    BY <2>1
  <2>3. expired \subseteq Contracts /\ upset \subseteq {"reconciled", "torn wipe"}
    BY <2>1, Zenon
  <2>4. QED
    BY <1>2, <1>3, <2>1, <2>2, <2>3, Zenon DEF WorldOK
<1>5. Threaded
  BY TypeRest DEF Init, Threaded, PCs
<1>6. TypeOK
  BY <1>4, <1>5, TypeParts
<1>7. QED
  BY <1>6 DEF Init, TypeInv

LEMMA NextTypes ==
  ASSUME TypeInv, [Next]_vars
  PROVE  TypeInv'
<1>1. CASE UNCHANGED vars
  BY <1>1 DEF vars, TypeInv, TypeOK, Idle
<1>2. ASSUME NEW t \in Threads, TaskStep(t)
      PROVE  TypeInv'
  BY <1>2, EndTypes, SquareTypes, SquareOffTypes, SettleReadTypes, SettleCommitTypes,
     SettleAbortTypes, ExpiryTypes, ExpiredReadTypes, WipeTypes DEF TaskStep
<1>3. CASE NextSlot \/ Started \/ Midnight \/ Crash
  BY <1>3, ClockTypes, MidnightTypes, CrashTypes
<1>4. CASE Boot \/ Tick \/ \E op \in WebOps : WebCall(op)
  BY <1>4, StartTypes
<1>5. CASE \E k \in Keys : OpenPosition(k) \/ ReducePosition(k) \/ RestOrder(k)
                           \/ FillOrder(k) \/ MtmWrite(k)
  BY <1>5, UserTypes
<1>6. QED
  BY <1>1, <1>2, <1>3, <1>4, <1>5 DEF Next, UserStep

\* The books of any account stay well-typed through any calendar, jobs, requests
\* and crashes, whoever runs at once: margin, holdings and pending margin are never
\* negative (fund_manager.release_margin clamps at zero), and a job that is
\* inside a task has one.
THEOREM SessionTypes == Spec => []TypeOK
<1>1. TypeInv /\ [Next]_vars => TypeInv'
  BY NextTypes
<1>2. TypeInv => TypeOK
  BY DEF TypeInv
<1>3. QED
  BY <1>1, <1>2, InitTypes, PTL DEF Spec

-----------------------------------------------------------------------------
(* Margin and equity *)

\* The sizes of what the account holds, has pending and owns.
Open == SizeOf([k \in Keys |-> pos[k].qty])
Pending == SizeOf(resting)
Owning == SizeOf(holding)

\* What a settlement has moved and not yet taken out of the blocked margin.
Moving(t) == IF pc[t] = "transfer" THEN loc[t].amt ELSE 0
Spending == SumFunction([t \in Threads |-> Moving(t)])

Covered == "reconciled" \notin upset => ClaimedMargin <= fund.used
Kept ==
  ~Wiping /\ "torn wipe" \notin upset =>
    fund.available + fund.used + Owning
      >= Capital + fund.realized + Spending

\* What a job has read is still so when it writes.
ReadsOK(t) ==
  /\ pc[t] = "ex_commit" => \A k \in Keys : loc[t].rows[k] # 0 => loc[t].rows[k] = pos[k].qty
  /\ pc[t] = "wipe_funds" => /\ \A k \in Keys : pos[k].qty = 0 /\ resting[k] = 0
                             /\ \A k \in Delivery : holding[k] = 0
  /\ pc[t] = "book_write" => loc[t].cash = fund.available /\ loc[t].booked = fund.realized

FundsInv == Covered /\ Kept /\ \A t \in Threads : ReadsOK(t)

-----------------------------------------------------------------------------
\* What a change of one quantity, no quantity, a sum of quantities and a restriction
\* to where there are some make of a size.
LEMMA SizeUpdate ==
  ASSUME NEW S, IsFiniteSet(S), NEW f \in [S -> Int], NEW g \in [S -> Int],
         NEW x \in S, \A y \in S \ {x} : g[y] = f[y]
  PROVE  SizeOf(g) = SizeOf(f) - AbsOf(f[x]) + AbsOf(g[x])
<1> DEFINE F == [k \in S |-> AbsOf(f[k])]
           G == [k \in S |-> AbsOf(g[k])]
<1>1. /\ F \in [S -> Int] /\ G \in [S -> Int] /\ \A y \in S \ {x} : G[y] = F[y]
      /\ F[x] = AbsOf(f[x]) /\ G[x] = AbsOf(g[x])
  BY DEF AbsOf
<1> HIDE DEF F, G
<1>2. SumFunction(G) = SumFunction(F) - F[x] + G[x]
  BY <1>1, SumUpdate
<1>3. QED
  BY <1>1, <1>2 DEF F, G, SizeOf

LEMMA SizeZero ==
  ASSUME NEW S, IsFiniteSet(S), NEW f \in [S -> Int], \A x \in S : f[x] = 0
  PROVE  SizeOf(f) = 0
<1> DEFINE F == [k \in S |-> AbsOf(f[k])]
<1>1. DOMAIN F = S /\ \A x \in S : F[x] = 0
  BY DEF AbsOf
<1> HIDE DEF F
<1>2. SumFunction(F) = 0
  BY <1>1, SumZero
<1>3. QED
  BY <1>2 DEF F, SizeOf

LEMMA SizePlus ==
  ASSUME NEW S, IsFiniteSet(S), NEW f \in [S -> Int], NEW g \in [S -> Int], NEW h \in [S -> Int],
         \A x \in S : AbsOf(h[x]) = AbsOf(f[x]) + AbsOf(g[x])
  PROVE  SizeOf(h) = SizeOf(f) + SizeOf(g)
<1> DEFINE F == [k \in S |-> AbsOf(f[k])]
           G == [k \in S |-> AbsOf(g[k])]
           H == [k \in S |-> AbsOf(h[k])]
<1>1. /\ F \in [S -> Int] /\ G \in [S -> Int] /\ H \in [S -> Int]
      /\ \A x \in S : H[x] = F[x] + G[x]
  BY DEF AbsOf
<1> HIDE DEF F, G, H
<1>2. SumFunction(H) = SumFunction(F) + SumFunction(G)
  BY <1>1, SumPlus
<1>3. QED
  BY <1>2 DEF F, G, H, SizeOf

LEMMA SizeWithin ==
  ASSUME NEW S, IsFiniteSet(S), NEW f \in [S -> Int], NEW D \in SUBSET S,
         \A x \in S \ D : f[x] = 0
  PROVE  SizeOf(f) = SizeOf([x \in D |-> f[x]])
<1> DEFINE F == [k \in S |-> AbsOf(f[k])]
<1>1. F \in [S -> Int] /\ \A x \in S \ D : F[x] = 0
  BY DEF AbsOf
<1>2. [x \in D |-> F[x]] = [x \in D |-> AbsOf([y \in D |-> f[y]][x])]
  OBVIOUS
<1> HIDE DEF F
<1>3. SumFunction(F) = SumFunction([x \in D |-> F[x]])
  BY <1>1, SumWithin
<1>4. QED
  BY <1>2, <1>3 DEF F, SizeOf

\* The capital is a number.
LEMMA CapitalInt == Capital \in Int
  BY InputsAssumption

\* There are two threads.
LEMMA ThreadsFinite == IsFiniteSet(Threads)
<1>1. Threads = {"jobs"} \cup {"web"}
  BY DEF Threads
<1>2. QED
  BY <1>1, FS_Singleton, FS_Union

-----------------------------------------------------------------------------
(* Steps *)

OthersRest(t) == \A u \in Threads \ {t} : pc[u] = "next"

\* The sizes are numbers, and only the thread at work counts.
Counts(t) ==
  /\ Open \in Nat /\ Pending \in Nat /\ Owning \in Nat
  /\ InFlight(t) \in Nat /\ Moving(t) \in Nat
  /\ fund.available \in Int /\ fund.used \in Nat /\ fund.realized \in Int
  /\ ClaimedMargin = Open + Pending + InFlight(t)
  /\ Spending = Moving(t)
  /\ Wiping <=> pc[t] = "wipe_funds"
OneCounts == \A t \in Threads : TypeInv /\ OthersRest(t) => Counts(t)

LEMMA Numbers == OneCounts
<1> SUFFICES ASSUME NEW t \in Threads, TypeInv, OthersRest(t)
             PROVE  Counts(t)
  BY DEF OneCounts
<1>1. WorldOK /\ Threaded
  BY TypeParts DEF TypeInv
<1>2. pos \in Rows /\ resting \in [Keys -> Nat] /\ holding \in [Delivery -> Nat] /\ fund \in FundType
  BY <1>1 DEF WorldOK
<1>3. fund.available \in Int /\ fund.used \in Nat /\ fund.realized \in Int
  BY <1>2 DEF FundType
<1>4. Open \in Nat
  <2>1. [k \in Keys |-> pos[k].qty] \in [Keys -> Int]
    BY <1>2 DEF Rows
  <2>2. QED
    BY <2>1, KeysFinite, SizeNat DEF Open
<1>5. Pending \in Nat /\ Owning \in Nat
  BY <1>2, KeysFinite, SizeNat DEF Pending, Owning
<1>6. \A u \in Threads : loc[u].amt \in Nat
  BY <1>1 DEF Threaded, LocalType
<1> DEFINE flights == [u \in Threads |-> InFlight(u)]
           moves == [u \in Threads |-> Moving(u)]
<1>7. /\ flights \in [Threads -> Int] /\ moves \in [Threads -> Int]
      /\ flights[t] = InFlight(t) /\ moves[t] = Moving(t)
      /\ \A u \in Threads \ {t} : flights[u] = 0 /\ moves[u] = 0
      /\ InFlight(t) \in Nat /\ Moving(t) \in Nat
  BY <1>6 DEF InFlight, Moving, OthersRest
<1> HIDE DEF flights, moves
<1>8. SumFunction(flights) = flights[t] /\ SumFunction(moves) = moves[t]
  BY <1>7, ThreadsFinite, SumSingle
<1>9. Wiping <=> pc[t] = "wipe_funds"
  BY DEF Wiping, OthersRest
<1>10. QED
  BY <1>3, <1>4, <1>5, <1>7, <1>8, <1>9 DEF Counts, ClaimedMargin, Spending, Open, Pending, flights, moves

\* And so it is after a step.
LEMMA NumbersNext == OneCounts'
  BY Numbers, PTL

\* As long as the blocked margin grows by what is claimed more, and the equity by
\* what is booked, the account stays in order.
LEMMA FundsStep ==
  ASSUME TypeInv, TypeInv', FundsInv, NEW t \in Threads, OthersRest(t), OthersRest(t)',
         upset' = upset, pc[t] # "wipe_funds", pc'[t] # "wipe_funds",
         Open' + Pending' + InFlight(t)' + fund.used
           <= Open + Pending + InFlight(t) + fund'.used,
         fund'.available + fund'.used + Owning' + fund.realized + Moving(t)
           >= fund.available + fund.used + Owning + fund'.realized + Moving(t)',
         ReadsOK(t)'
  PROVE  FundsInv'
<1>1. Counts(t) /\ Counts(t)'
  BY Numbers, NumbersNext DEF OneCounts
<1>2. Covered'
  <2>1. Covered
    BY DEF FundsInv
  <2>2. QED
    BY <1>1, <2>1 DEF Counts, Covered
<1>3. Kept'
  <2>1. Kept
    BY DEF FundsInv
  <2>2. Capital \in Int
    BY CapitalInt
  <2>3. CASE "torn wipe" \in upset
    BY <2>3 DEF Kept
  <2>4. CASE "torn wipe" \notin upset
    <3>1. fund.available + fund.used + Owning >= Capital + fund.realized + Moving(t)
      BY <1>1, <2>1, <2>4 DEF Counts, Kept
    <3>2. fund'.available + fund'.used + Owning' >= Capital + fund'.realized + Moving(t)'
      BY <1>1, <2>2, <3>1 DEF Counts
    <3>3. QED
      BY <1>1, <3>2 DEF Counts, Kept
  <2>5. QED
    BY <2>3, <2>4
<1>4. \A u \in Threads : ReadsOK(u)'
  BY DEF ReadsOK, OthersRest
<1>5. QED
  BY <1>2, <1>3, <1>4 DEF FundsInv

\* A thread that is at work is alone.
LEMMA WorkRests ==
  ASSUME DeliveryInv, NEW t \in Threads, ~Idle(t), NEW c, pc' = [pc EXCEPT ![t] = c]
  PROVE  OthersRest(t) /\ OthersRest(t)' /\ pc'[t] = c
<1>1. pc = [u \in Threads |-> pc[u]] /\ \A u \in Threads \ {t} : pc[u] = "next"
  BY DEF DeliveryInv, ThreadsOK, TakeTurns
<1>2. QED
  BY <1>1 DEF OthersRest

-----------------------------------------------------------------------------
(* Trades *)

\* The sign of a product.
LEMMA Signs ==
  ASSUME NEW n \in Int, NEW d \in Int
  PROVE  /\ n * d < 0 <=> (n < 0 /\ d > 0) \/ (n > 0 /\ d < 0)
         /\ n * d > 0 <=> (n < 0 /\ d < 0) \/ (n > 0 /\ d > 0)
  OBVIOUS

\* A fill opens what it does not close: the position grows by that difference.
LEMMA FillSize ==
  ASSUME NEW n \in Int, NEW d \in Int
  PROVE  /\ ClosingPart(n, d) \in Nat /\ OpeningPart(n, d) \in Nat
         /\ ~(n * d > 0) => AbsOf(n + d) = AbsOf(n) + OpeningPart(n, d) - ClosingPart(n, d)
         /\ n * d > 0 => ClosingPart(n, d) = 0
<1>1. CASE n * d < 0
  BY <1>1, Signs DEF ClosingPart, OpeningPart, MinOf, AbsOf
<1>2. CASE ~(n * d < 0)
  BY <1>2, Signs DEF ClosingPart, OpeningPart, AbsOf
<1>3. QED
  BY <1>1, <1>2

\* One row changes.
LEMMA RowSize ==
  ASSUME pos \in Rows, pos' \in Rows, NEW k \in Keys,
         \A j \in Keys \ {k} : pos'[j].qty = pos[j].qty
  PROVE  /\ Open \in Int /\ pos[k].qty \in Int /\ pos'[k].qty \in Int
         /\ Open' = Open - AbsOf(pos[k].qty) + AbsOf(pos'[k].qty)
<1> DEFINE f == [j \in Keys |-> pos[j].qty]
           g == [j \in Keys |-> pos'[j].qty]
<1>1. /\ f \in [Keys -> Int] /\ g \in [Keys -> Int] /\ \A j \in Keys \ {k} : g[j] = f[j]
      /\ f[k] = pos[k].qty /\ g[k] = pos'[k].qty /\ f[k] \in Int /\ g[k] \in Int
  BY DEF Rows
<1> HIDE DEF f, g
<1>2. SizeOf(g) = SizeOf(f) - AbsOf(f[k]) + AbsOf(g[k]) /\ SizeOf(f) \in Nat
  BY <1>1, KeysFinite, SizeUpdate, SizeNat
<1>3. Open = SizeOf(f) /\ Open' = SizeOf(g)
  BY DEF Open, f, g
<1>4. QED
  BY <1>1, <1>2, <1>3

\* Rows keep their quantities.
LEMMA SameSize ==
  ASSUME \A k \in Keys : pos'[k].qty = pos[k].qty
  PROVE  Open' = Open
<1>1. [k \in Keys |-> pos'[k].qty] = [k \in Keys |-> pos[k].qty]
  OBVIOUS
<1>2. QED
  BY <1>1 DEF Open

\* An order blocks what its position grows by, and books what it realizes.
LEMMA TradeDeltas ==
  ASSUME TypeOK, NEW k \in Keys, NEW d \in Int, NEW p \in Int, Trade(k, d, p)
  PROVE  /\ Open' + fund.used <= Open + fund'.used
         /\ fund'.available + fund'.used + fund.realized
              >= fund.available + fund.used + fund'.realized
<1> DEFINE n == pos[k].qty
           c == ClosingPart(n, d)
           o == OpeningPart(n, d)
           b == IF c > 0 THEN p ELSE 0
<1>1. pos \in Rows /\ pos' \in Rows /\ fund \in FundType
  BY TradeFundTypes DEF TypeOK, Rows, FundType
<1>2. n \in Int /\ fund.used \in Nat /\ fund.available \in Int /\ fund.realized \in Int
  BY <1>1 DEF Rows, FundType
<1>3. c \in Nat /\ o \in Nat /\ b \in Int
  <2>1. ASSUME NEW m \in Int PROVE ClosingPart(m, d) \in Nat /\ OpeningPart(m, d) \in Nat
    BY FillSize
  <2>2. c \in Nat /\ o \in Nat
    BY <1>2, <2>1
  <2> HIDE DEF c
  <2>3. QED
    BY <2>2
<1>4. /\ fund'.available = fund.available - o + c + b
      /\ fund'.used = MaxOf(0, fund.used + o - c)
      /\ fund'.realized = fund.realized + b
  BY <1>1 DEF Trade, FundType
<1>5. Open' <= Open + o - c /\ Open \in Int /\ Open' \in Int
  <2>1. CASE n * d > 0
    <3>1. pos' = pos /\ c = 0
      BY <1>2, <2>1, FillSize DEF Trade
    <3>2. Open' = Open /\ Open \in Int
      BY <1>1, <3>1, SameSize, RowSize
    <3>3. QED
      BY <1>3, <3>1, <3>2
  <2>2. CASE ~(n * d > 0)
    <3>1. pos' = [pos EXCEPT ![k] = [qty |-> n + d, upd |-> 0, trd |-> 0]]
      BY <2>2 DEF Trade
    <3>2. pos'[k].qty = n + d /\ \A j \in Keys \ {k} : pos'[j] = pos[j]
      BY <1>1, <3>1 DEF Rows
    <3>3. Open' = Open - AbsOf(n) + AbsOf(n + d) /\ Open \in Int
      BY <1>1, <3>2, RowSize
    <3>4. AbsOf(n + d) = AbsOf(n) + o - c /\ AbsOf(n) \in Int
      <4>1. ASSUME NEW m \in Int, ~(m * d > 0)
            PROVE  /\ AbsOf(m + d) = AbsOf(m) + OpeningPart(m, d) - ClosingPart(m, d)
                   /\ AbsOf(m) \in Int
        <5>1. AbsOf(m) \in Int
          BY DEF AbsOf
        <5>2. QED
          BY <4>1, <5>1, FillSize
      <4>2. QED
        BY <1>2, <2>2, <4>1
    <3>5. QED
      BY <1>3, <3>3, <3>4
  <2>3. QED
    BY <2>1, <2>2
<1> HIDE DEF n, c, o, b
<1>6. QED
  BY <1>2, <1>3, <1>4, <1>5 DEF MaxOf

\* A user or a fill at work while every thread is idle: one row, one order.
LEMMA RestsAll ==
  ASSUME Serial, DeliveryInv, MayTrade
  PROVE  \A t \in Threads : pc[t] = "next"
  BY DEF MayTrade, MayStart, DeliveryInv, TakeTurns

\* What users and fills do to the funds.
LEMMA UserFunds ==
  ASSUME Serial, TypeInv, TypeInv', DeliveryInv, FundsInv, MayTrade,
         UNCHANGED <<pc, loc, upset>>,
         Open' + Pending' + fund.used <= Open + Pending + fund'.used,
         fund'.available + fund'.used + Owning' + fund.realized
           >= fund.available + fund.used + Owning + fund'.realized
  PROVE  FundsInv'
<1>1. PICK t \in Threads : t = "jobs"
  BY DEF Threads
<1>2. \A u \in Threads : pc[u] = "next"
  BY RestsAll
<1>3. OthersRest(t) /\ OthersRest(t)' /\ ReadsOK(t)' /\ pc[t] # "wipe_funds" /\ pc'[t] # "wipe_funds"
  BY <1>2 DEF OthersRest, ReadsOK
<1>4. InFlight(t) = 0 /\ InFlight(t)' = 0 /\ Moving(t) = 0 /\ Moving(t)' = 0
  BY <1>2 DEF InFlight, Moving
<1>5. Counts(t) /\ Counts(t)'
  BY <1>3, Numbers, NumbersNext DEF OneCounts
<1>6. /\ Open' + Pending' + InFlight(t)' + fund.used
           <= Open + Pending + InFlight(t) + fund'.used
      /\ fund'.available + fund'.used + Owning' + fund.realized + Moving(t)
           >= fund.available + fund.used + Owning + fund'.realized + Moving(t)'
  BY <1>4, <1>5 DEF Counts
<1>7. QED
  BY <1>3, <1>6, FundsStep

\* Orders that are filled at once.
LEMMA TradeFunds ==
  ASSUME Serial, TypeInv, TypeInv', DeliveryInv, FundsInv, NEW k \in Keys,
         OpenPosition(k) \/ ReducePosition(k)
  PROVE  FundsInv'
<1>1. PICK d \in Int, p \in Int : Trade(k, d, p)
  <2>1. CASE OpenPosition(k)
    <3>1. Quantities \subseteq Int
      BY InputsAssumption
    <3>2. QED
      BY <2>1, <3>1 DEF OpenPosition
  <2>2. CASE ReducePosition(k)
    <3>1. PICK p \in Outcomes : Trade(k, IF pos[k].qty > 0 THEN -1 ELSE 1, p)
      BY <2>2 DEF ReducePosition
    <3>2. p \in Int
      BY <3>1, OutcomesInt
    <3>3. QED
      BY <3>1, <3>2
  <2>3. QED
    BY <2>1, <2>2
<1>2. MayTrade /\ UNCHANGED <<resting, holding, pc, loc, upset>>
  BY DEF OpenPosition, ReducePosition, control
<1>3. Pending' = Pending /\ Owning' = Owning
  BY <1>2 DEF Pending, Owning
<1>4. /\ Open' + fund.used <= Open + fund'.used
      /\ fund'.available + fund'.used + fund.realized
              >= fund.available + fund.used + fund'.realized
  BY <1>1, TradeDeltas DEF TypeInv
<1>5. PICK t \in Threads : OthersRest(t) /\ OthersRest(t)'
  BY <1>2, RestsAll DEF OthersRest, Threads
<1>6. Counts(t) /\ Counts(t)'
  BY <1>5, Numbers, NumbersNext DEF OneCounts
<1>7. /\ Open' + Pending' + fund.used <= Open + Pending + fund'.used
      /\ fund'.available + fund'.used + Owning' + fund.realized
           >= fund.available + fund.used + Owning + fund'.realized
  BY <1>3, <1>4, <1>6 DEF Counts
<1>8. QED
  BY <1>2, <1>7, UserFunds

\* A pending order is margined when it is placed, and fills out of its margin.
LEMMA PendingSize ==
  ASSUME resting \in [Keys -> Nat], NEW k \in Keys, NEW m \in Nat, resting' = [resting EXCEPT ![k] = m]
  PROVE  Pending' = Pending - resting[k] + m /\ Pending \in Int
<1> DEFINE f == resting
           g == resting'
<1>1. /\ f \in [Keys -> Int] /\ g \in [Keys -> Int] /\ f[k] \in Nat /\ g[k] = m
      /\ \A j \in Keys \ {k} : g[j] = f[j]
  OBVIOUS
<1>2. Pending = SizeOf(f) /\ Pending' = SizeOf(g) /\ resting[k] = f[k]
  BY DEF Pending
<1> HIDE DEF f, g
<1>3. SizeOf(g) = SizeOf(f) - AbsOf(f[k]) + AbsOf(g[k])
  BY <1>1, KeysFinite, SizeUpdate
<1>4. SizeOf(f) \in Nat
  BY <1>1, KeysFinite, SizeNat
<1>5. QED
  BY <1>1, <1>2, <1>3, <1>4 DEF AbsOf

\* Placing it, and its fill.
LEMMA OrderFunds ==
  ASSUME Serial, TypeInv, TypeInv', DeliveryInv, FundsInv, NEW k \in Keys,
         RestOrder(k) \/ FillOrder(k)
  PROVE  FundsInv'
<1>1. WorldOK /\ WorldOK'
  BY DEF TypeInv, TypeOK, WorldOK, Rows, FundType
<1>2. pos \in Rows /\ pos' \in Rows /\ resting \in [Keys -> Nat] /\ fund \in FundType
  BY <1>1 DEF WorldOK
<1>3. /\ pos[k].qty \in Int /\ resting[k] \in Nat
      /\ fund.available \in Int /\ fund.used \in Nat /\ fund.realized \in Int
  BY <1>2 DEF Rows, FundType
<1>4. MayTrade /\ UNCHANGED <<holding, pc, loc, upset>>
  BY DEF RestOrder, FillOrder, control, history
<1>5. Owning' = Owning
  BY <1>4 DEF Owning
<1>6. PICK t \in Threads : OthersRest(t) /\ OthersRest(t)'
  BY <1>4, RestsAll DEF OthersRest, Threads
<1>7. Counts(t) /\ Counts(t)'
  BY <1>6, Numbers, NumbersNext DEF OneCounts
<1>8. CASE RestOrder(k)
  <2>1. /\ resting[k] = 0 /\ resting' = [resting EXCEPT ![k] = 1] /\ pos' = pos
        /\ fund'.available = fund.available - 1 /\ fund'.used = fund.used + 1
        /\ fund'.realized = fund.realized
    BY <1>2, <1>8 DEF RestOrder, FundType
  <2>2. Pending' = Pending + 1 /\ Open' = Open
    <3>1. Pending' = Pending - resting[k] + 1 /\ Pending \in Int
      BY <1>2, <2>1, PendingSize
    <3>2. Open' = Open
      BY <2>1, SameSize
    <3>3. QED
      BY <2>1, <3>1, <3>2
  <2>3. QED
    BY <1>3, <1>4, <1>5, <1>7, <2>1, <2>2, UserFunds DEF Counts
<1>9. CASE FillOrder(k)
  <2>1. resting' = [resting EXCEPT ![k] = 0] /\ resting[k] >= 1
    BY <1>3, <1>9 DEF FillOrder
  <2>2. Pending' = Pending - resting[k]
    <3>1. Pending' = Pending - resting[k] + 0 /\ Pending \in Int
      BY <1>2, <2>1, PendingSize
    <3>2. QED
      BY <1>3, <3>1
  <2>3. CASE pos[k].qty >= 0
    <3>1. UNCHANGED fund
      BY <1>3, <1>9, <2>3 DEF FillOrder
    <3>2. Open' <= Open + 1
      <4>1. CASE pos' = pos
        BY <1>7, <4>1, SameSize DEF Counts
      <4>2. CASE pos[k].qty = 0 /\ pos' = [pos EXCEPT ![k] = [qty |-> 1, upd |-> 0, trd |-> 0]]
        <5>1. pos'[k].qty = 1 /\ \A j \in Keys \ {k} : pos'[j] = pos[j]
          BY <1>2, <4>2 DEF Rows
        <5>2. Open' = Open - AbsOf(pos[k].qty) + AbsOf(pos'[k].qty)
          BY <1>2, <5>1, RowSize
        <5>3. QED
          BY <1>7, <4>2, <5>1, <5>2 DEF AbsOf, Counts
      <4>3. QED
        BY <1>3, <1>9, <2>3, <4>1, <4>2 DEF FillOrder
    <3>3. QED
      BY <1>3, <1>4, <1>5, <1>7, <2>1, <2>2, <3>1, <3>2, UserFunds DEF Counts
  <2>4. CASE pos[k].qty < 0
    <3>1. pos' = [pos EXCEPT ![k] = [qty |-> pos[k].qty + 1, upd |-> 0, trd |-> 0]]
      BY <1>3, <1>9, <2>4 DEF FillOrder
    <3>2. pos'[k].qty = pos[k].qty + 1 /\ \A j \in Keys \ {k} : pos'[j] = pos[j]
      BY <1>2, <3>1 DEF Rows
    <3>3. Open' = Open - AbsOf(pos[k].qty) + AbsOf(pos'[k].qty)
      BY <1>2, <3>2, RowSize
    <3>4. Open' = Open - 1
      BY <1>3, <1>7, <2>4, <3>2, <3>3 DEF AbsOf, Counts
    <3>5. PICK p \in Outcomes : Release(1 + resting[k], p)
      BY <1>3, <1>9, <2>4 DEF FillOrder
    <3>6. p \in Int
      BY <3>5, OutcomesInt
    <3>7. /\ fund'.used = MaxOf(0, fund.used - (1 + resting[k]))
          /\ fund'.available = fund.available + (1 + resting[k]) + p
          /\ fund'.realized = fund.realized + p
      BY <1>2, <3>5 DEF Release, FundType
    <3>8. /\ fund'.used >= fund.used - (1 + resting[k])
          /\ fund'.used \in Int /\ fund'.available \in Int /\ fund'.realized \in Int
      BY <1>3, <1>7, <3>7 DEF MaxOf, Counts
    <3>9. QED
      BY <1>3, <1>4, <1>5, <1>7, <2>2, <3>4, <3>6, <3>7, <3>8, UserFunds DEF Counts
  <2>5. QED
    BY <1>3, <2>3, <2>4
<1>10. QED
  BY <1>8, <1>9

-----------------------------------------------------------------------------
(* Jobs *)

\* A thread that does something else to the funds than to wipe them.
LEMMA JobFunds ==
  ASSUME TypeInv, TypeInv', DeliveryInv, FundsInv, NEW t \in Threads, ~Idle(t),
         NEW c, pc' = [pc EXCEPT ![t] = c], upset' = upset,
         pc[t] # "wipe_funds", c # "wipe_funds",
         Open' + Pending' + InFlight(t)' + fund.used
           <= Open + Pending + InFlight(t) + fund'.used,
         fund'.available + fund'.used + Owning' + fund.realized + Moving(t)
           >= fund.available + fund.used + Owning + fund'.realized + Moving(t)',
         ReadsOK(t)'
  PROVE  FundsInv'
<1>1. OthersRest(t) /\ OthersRest(t)' /\ pc'[t] = c
  BY WorkRests
<1>2. QED
  BY <1>1, FundsStep

\* One that only reads, or ends.
LEMMA QuietFunds ==
  ASSUME TypeInv, TypeInv', DeliveryInv, FundsInv, NEW t \in Threads, ~Idle(t),
         NEW c, pc' = [pc EXCEPT ![t] = c], UNCHANGED <<pos, resting, holding, upset>>,
         pc[t] \notin {"wipe_funds", "sq_release", "transfer", "free"},
         c \notin {"wipe_funds", "sq_release", "transfer", "free"},
         fund'.available = fund.available, fund'.used = fund.used,
         fund'.realized = fund.realized, ReadsOK(t)'
  PROVE  FundsInv'
<1>1. OthersRest(t) /\ OthersRest(t)' /\ pc'[t] = c
  BY WorkRests
<1>2. Counts(t) /\ Counts(t)'
  BY <1>1, Numbers, NumbersNext DEF OneCounts
<1>3. Open' = Open /\ Pending' = Pending /\ Owning' = Owning
  BY SameSize DEF Pending, Owning
<1>4. InFlight(t) = 0 /\ InFlight(t)' = 0 /\ Moving(t) = 0 /\ Moving(t)' = 0
  BY <1>1 DEF InFlight, Moving
<1>5. /\ Open' + Pending' + InFlight(t)' + fund.used
           <= Open + Pending + InFlight(t) + fund'.used
      /\ fund'.available + fund'.used + Owning' + fund.realized + Moving(t)
           >= fund.available + fund.used + Owning + fund'.realized + Moving(t)'
  BY <1>2, <1>3, <1>4 DEF Counts
<1>6. QED
  BY <1>5, JobFunds

\* A task that is done.
LEMMA DoneGoes ==
  ASSUME NEW t \in Threads, Done(t)
  PROVE  pc' = [pc EXCEPT ![t] = "next"]
  BY DEF Done

\* Marks, the end of a square-off, an expiry that gives up, the daily reset.
LEMMA EndFunds ==
  ASSUME TypeInv, TypeInv', DeliveryInv, FundsInv, NEW t \in Threads,
         (\E j \in Jobs : Mark(t, j)) \/ SquareOffDone(t) \/ ExpiredAbort(t)
           \/ ResetToday(t)
  PROVE  FundsInv'
<1>1. ~Idle(t) /\ Done(t) /\ UNCHANGED <<pos, resting, holding, upset>>
      /\ pc[t] \in {"next", "sq_place", "ex_commit"}
  BY DEF Mark, SquareOffDone, ExpiredAbort, ResetToday, AtTask, TypeInv, book, history
<1>2. fund'.available = fund.available /\ fund'.used = fund.used /\ fund'.realized = fund.realized
  <2>1. CASE ResetToday(t)
    <3>1. fund \in FundType
      BY DEF TypeInv, TypeOK, FundType
    <3>2. QED
      BY <2>1, <3>1 DEF ResetToday, FundType
  <2>2. CASE ~ResetToday(t)
    BY <2>2 DEF Mark, SquareOffDone, ExpiredAbort
  <2>3. QED
    BY <2>1, <2>2
<1>3. pc' = [pc EXCEPT ![t] = "next"]
  BY <1>1, DoneGoes
<1>4. pc'[t] = "next"
  BY <1>1, <1>3, WorkRests
<1>5. ReadsOK(t)'
  BY <1>4 DEF ReadsOK
<1>6. QED
  BY <1>1, <1>2, <1>3, <1>5, QuietFunds

\* Steps that read rows, or give up.
LEMMA ReadFunds ==
  ASSUME TypeInv, TypeInv', DeliveryInv, FundsInv, NEW t \in Threads,
         ListIntraday(t) \/ SettleRead(t) \/ SettleAbort(t) \/ ExpiredRead(t) \/ BookRead(t)
  PROVE  FundsInv'
<1>1. ~Idle(t) /\ UNCHANGED <<pos, resting, holding, fund, upset>>
      /\ pc[t] \in {"next", "sq_list", "st_commit", "book_read"}
  BY DEF ListIntraday, SettleRead, SettleAbort, ExpiredRead, BookRead, AtTask, TypeInv, book, history
<1>2. loc \in [Threads -> LocalType]
  BY DEF TypeInv, TypeOK, LocalType
<1>3. PICK c \in {"next", "sq_place", "st_commit", "ex_commit", "book_write"} :
        /\ pc' = [pc EXCEPT ![t] = c]
        /\ c = "ex_commit" => ExpiredRead(t) /\ ~Done(t)
        /\ c = "book_write" => BookRead(t)
  <2>1. CASE SettleAbort(t)
    BY <2>1 DEF SettleAbort, Done
  <2>2. CASE SettleRead(t)
    BY <2>2 DEF SettleRead, Done, Goto
  <2>3. CASE ListIntraday(t) \/ BookRead(t)
    BY <2>3 DEF ListIntraday, BookRead, Goto
  <2>4. CASE ExpiredRead(t)
    <3>1. CASE Done(t)
      BY <3>1, DoneGoes
    <3>2. CASE ~Done(t)
      BY <2>4, <3>2 DEF ExpiredRead, Goto
    <3>3. QED
      BY <3>1, <3>2
  <2>5. QED
    BY <2>1, <2>2, <2>3, <2>4
<1>4. pc'[t] = c
  BY <1>1, <1>3, WorkRests
<1>5. ReadsOK(t)'
  <2>1. CASE c = "ex_commit"
    <3> DEFINE open == {k \in expired : pos[k].qty # 0}
               rows == [k \in Keys |-> IF k \in open THEN pos[k].qty ELSE 0]
               x == WithLive(WithRows(loc[t], rows), open)
    <3>1. loc' = [loc EXCEPT ![t] = x]
      BY <1>2, <1>3, <2>1 DEF ExpiredRead, Goto, WithRows, WithLive
    <3>2. x.rows = rows
      <4>1. rows \in [Keys -> Int] /\ open \in SUBSET Keys
        <5>1. pos \in Rows /\ expired \subseteq Contracts
          BY DEF TypeInv, TypeOK, Rows
        <5>2. QED
          BY <5>1 DEF Rows, Contracts
      <4> HIDE DEF rows, open
      <4>2. WithRows(loc[t], rows) \in LocalType /\ WithRows(loc[t], rows).rows = rows
        BY <1>2, <4>1, TypeRows
      <4>3. QED
        BY <4>1, <4>2, TypeLive
    <3> HIDE DEF x
    <3>3. loc'[t].rows = rows
      BY <1>2, <3>1, <3>2
    <3>4. QED
      BY <1>1, <1>4, <2>1, <3>3 DEF ReadsOK
  <2>2. CASE c = "book_write"
    <3> DEFINE x == WithBooked(WithCash(loc[t], fund.available), fund.realized)
    <3>1. loc' = [loc EXCEPT ![t] = x]
      BY <1>2, <1>3, <2>2 DEF BookRead, Goto, WithCash, WithBooked
    <3>2. x.cash = fund.available /\ x.booked = fund.realized
      <4>1. fund.available \in Int /\ fund.realized \in Int
        BY DEF TypeInv, TypeOK
      <4>2. WithCash(loc[t], fund.available) \in LocalType
            /\ WithCash(loc[t], fund.available).cash = fund.available
        BY <1>2, <4>1, TypeCash
      <4>3. QED
        BY <4>1, <4>2, TypeBooked
    <3> HIDE DEF x
    <3>3. loc'[t].cash = fund.available /\ loc'[t].booked = fund.realized
      BY <1>2, <3>1, <3>2
    <3>4. QED
      BY <1>1, <1>4, <2>2, <3>3 DEF ReadsOK
  <2>3. CASE c \notin {"ex_commit", "book_write"}
    BY <1>3, <1>4, <2>3 DEF ReadsOK
  <2>4. QED
    BY <2>1, <2>2, <2>3
<1>6. QED
  BY <1>1, <1>3, <1>5, QuietFunds

\* The reverse order of a listed position.
LEMMA SquareOffFunds ==
  ASSUME TypeInv, TypeInv', DeliveryInv, FundsInv, NEW t \in Threads, NEW k \in Keys,
         SquareOff(t, k) \/ SquareOffRefused(t, k)
  PROVE  FundsInv'
<1>1. /\ ~Idle(t) /\ pc[t] = "sq_place" /\ UNCHANGED <<resting, holding, pc, upset>>
  BY DEF SquareOff, SquareOffRefused, TypeInv, book, history
<1>2. OthersRest(t) /\ OthersRest(t)'
  BY <1>1 DEF DeliveryInv, TakeTurns, OthersRest
<1>3. Counts(t) /\ Counts(t)'
  BY <1>2, Numbers, NumbersNext DEF OneCounts
<1>4. Pending' = Pending /\ Owning' = Owning
  BY <1>1 DEF Pending, Owning
<1>5. InFlight(t) = 0 /\ InFlight(t)' = 0 /\ Moving(t) = 0 /\ Moving(t)' = 0 /\ ReadsOK(t)'
  BY <1>1 DEF InFlight, Moving, ReadsOK
<1>6. /\ Open' + fund.used <= Open + fund'.used
      /\ fund'.available + fund'.used + fund.realized
           >= fund.available + fund.used + fund'.realized
  <2>1. CASE SquareOffRefused(t, k)
    <3>1. pos' = pos /\ fund' = fund
      BY <2>1 DEF SquareOffRefused, book
    <3>2. QED
      BY <1>3, <3>1, SameSize DEF Counts
  <2>2. CASE SquareOff(t, k)
    <3>1. PICK p \in Outcomes : Trade(k, -loc[t].rows[k], p)
      BY <2>2 DEF SquareOff
    <3>2. p \in Int
      BY <3>1, OutcomesInt
    <3>3. -loc[t].rows[k] \in Int
      <4>1. loc[t].rows \in [Keys -> Int]
        BY DEF TypeInv, TypeOK
      <4>2. QED
        BY <4>1
    <3>4. QED
      BY <3>1, <3>2, <3>3, TradeDeltas DEF TypeInv
  <2>3. QED
    BY <2>1, <2>2
<1>7. /\ Open' + Pending' + InFlight(t)' + fund.used
           <= Open + Pending + InFlight(t) + fund'.used
      /\ fund'.available + fund'.used + Owning' + fund.realized + Moving(t)
           >= fund.available + fund.used + Owning + fund'.realized + Moving(t)'
  BY <1>3, <1>4, <1>5, <1>6 DEF Counts
<1>8. pc[t] # "wipe_funds" /\ pc'[t] # "wipe_funds" /\ upset' = upset
  BY <1>1
<1>9. QED
  BY <1>2, <1>5, <1>7, <1>8, FundsStep

\* The margin of the orders that are cancelled is in flight until it is released.
LEMMA CancelFunds ==
  ASSUME TypeInv, TypeInv', DeliveryInv, FundsInv, NEW t \in Threads, CancelPending(t)
  PROVE  FundsInv'
<1>1. /\ ~Idle(t) /\ pc[t] = "next" /\ UNCHANGED <<pos, holding, fund, upset>>
      /\ resting' = [k \in Keys |-> 0]
  BY DEF CancelPending, AtTask, history
<1>2. /\ resting \in [Keys -> Nat] /\ loc \in [Threads -> LocalType]
  BY DEF TypeInv, TypeOK, LocalType
<1>3. Pending' = 0
  BY <1>1, KeysFinite, SizeZero DEF Pending
<1>4. PICK c \in {"sq_list", "sq_release"} :
        /\ pc' = [pc EXCEPT ![t] = c]
        /\ \/ c = "sq_list" /\ resting = NoRows
           \/ c = "sq_release" /\ loc' = [loc EXCEPT ![t].amt = Pending]
  BY DEF CancelPending, Goto, Pending
<1>5. OthersRest(t) /\ OthersRest(t)' /\ pc'[t] = c
  BY <1>1, <1>4, WorkRests
<1>6. Counts(t) /\ Counts(t)'
  BY <1>5, Numbers, NumbersNext DEF OneCounts
<1>7. Open' = Open /\ Owning' = Owning
  BY <1>1, SameSize DEF Owning
<1>8. InFlight(t)' = Pending
  <2>1. CASE c = "sq_list"
    <3>1. resting \in [Keys -> Int] /\ \A k \in Keys : resting[k] = 0
      BY <1>4, <2>1 DEF NoRows
    <3>2. Pending = 0
      BY <3>1, KeysFinite, SizeZero DEF Pending
    <3>3. QED
      BY <1>5, <2>1, <3>2 DEF InFlight
  <2>2. CASE c = "sq_release"
    <3>1. loc'[t].amt = Pending
      BY <1>2, <1>4, <2>2 DEF LocalType
    <3>2. QED
      BY <1>5, <2>2, <3>1 DEF InFlight
  <2>3. QED
    BY <2>1, <2>2
<1>9. InFlight(t) = 0 /\ Moving(t) = 0 /\ Moving(t)' = 0 /\ ReadsOK(t)'
  BY <1>1, <1>5 DEF InFlight, Moving, ReadsOK
<1>10. /\ Open' + Pending' + InFlight(t)' + fund.used
            <= Open + Pending + InFlight(t) + fund'.used
       /\ fund'.available + fund'.used + Owning' + fund.realized + Moving(t)
            >= fund.available + fund.used + Owning + fund'.realized + Moving(t)'
  BY <1>1, <1>3, <1>6, <1>7, <1>8, <1>9 DEF Counts
<1>11. QED
  BY <1>1, <1>4, <1>9, <1>10, JobFunds

\* What is in flight is released, or spent on the settled shares.
LEMMA ReleaseFields ==
  ASSUME fund \in FundType, NEW a \in Int, NEW p \in Int, Release(a, p)
  PROVE  /\ fund'.used >= fund.used - a
         /\ fund'.available = fund.available + a + p /\ fund'.realized = fund.realized + p
<1>1. /\ fund'.used = MaxOf(0, fund.used - a) /\ fund.used \in Int
      /\ fund'.available = fund.available + a + p /\ fund'.realized = fund.realized + p
  BY DEF Release, FundType
<1>2. QED
  BY <1>1 DEF MaxOf

\* At the end of a square-off, an expiry and a settlement.
LEMMA LandFunds ==
  ASSUME TypeInv, TypeInv', DeliveryInv, FundsInv, NEW t \in Threads,
         CancelRelease(t) \/ FreeMargin(t) \/ TransferMargin(t)
  PROVE  FundsInv'
<1>1. /\ ~Idle(t) /\ UNCHANGED <<pos, resting, holding, upset>>
      /\ pc[t] \in {"sq_release", "free", "transfer"}
  BY DEF CancelRelease, FreeMargin, TransferMargin, TypeInv, book, history
<1>2. fund \in FundType /\ loc[t].amt \in Nat
  BY DEF TypeInv, TypeOK, FundType
<1>3. PICK c \in {"next", "sq_list", "book_read"} : pc' = [pc EXCEPT ![t] = c]
  BY DEF CancelRelease, FreeMargin, TransferMargin, Done, Goto
<1>4. OthersRest(t) /\ OthersRest(t)' /\ pc'[t] = c
  BY <1>1, <1>3, WorkRests
<1>5. Counts(t) /\ Counts(t)'
  BY <1>4, Numbers, NumbersNext DEF OneCounts
<1>6. Open' = Open /\ Owning' = Owning /\ Pending' = Pending
  BY <1>1, SameSize DEF Owning, Pending
<1>7. InFlight(t) = loc[t].amt /\ InFlight(t)' = 0 /\ Moving(t)' = 0 /\ ReadsOK(t)'
  BY <1>1, <1>4 DEF InFlight, Moving, ReadsOK
<1>8. /\ fund'.used >= fund.used - loc[t].amt
      /\ \/ fund'.available = fund.available + loc[t].amt /\ fund'.realized = fund.realized
         \/ /\ fund'.available = fund.available /\ fund'.realized = fund.realized
            /\ Moving(t) = loc[t].amt
  <2>1. CASE CancelRelease(t) \/ FreeMargin(t)
    <3>1. Release(loc[t].amt, 0)
      BY <2>1 DEF CancelRelease, FreeMargin
    <3>2. /\ fund'.used >= fund.used - loc[t].amt
          /\ fund'.available = fund.available + loc[t].amt + 0 /\ fund'.realized = fund.realized + 0
      BY <1>2, <3>1, ReleaseFields
    <3>3. QED
      BY <1>2, <1>5, <3>2 DEF Counts
  <2>2. CASE TransferMargin(t)
    <3>1. /\ fund'.used = MaxOf(0, fund.used - loc[t].amt) /\ fund'.available = fund.available
          /\ fund'.realized = fund.realized
      BY <1>2, <2>2 DEF TransferMargin, FundType
    <3>2. Moving(t) = loc[t].amt
      BY <2>2 DEF TransferMargin, Moving
    <3>3. fund'.used >= fund.used - loc[t].amt
      BY <1>2, <1>5, <3>1 DEF MaxOf, Counts
    <3>4. QED
      BY <3>1, <3>2, <3>3
  <2>3. QED
    BY <2>1, <2>2
<1>9. Moving(t) = 0 \/ Moving(t) = loc[t].amt
  BY DEF Moving
<1>10. /\ Open' + Pending' + InFlight(t)' + fund.used
            <= Open + Pending + InFlight(t) + fund'.used
       /\ fund'.available + fund'.used + Owning' + fund.realized + Moving(t)
            >= fund.available + fund.used + Owning + fund'.realized + Moving(t)'
  <2>1. Open' + Pending' + InFlight(t)' + fund.used <= Open + Pending + InFlight(t) + fund'.used
    BY <1>2, <1>5, <1>6, <1>7, <1>8 DEF Counts
  <2>2. CASE CancelRelease(t) \/ FreeMargin(t)
    <3>1. Moving(t) = 0
      BY <2>2 DEF Moving, CancelRelease, FreeMargin
    <3>2. QED
      BY <1>2, <1>5, <1>6, <1>7, <1>8, <2>1, <3>1 DEF Counts
  <2>3. CASE TransferMargin(t)
    <3>1. fund'.available = fund.available /\ Moving(t) = loc[t].amt
      BY <1>2, <2>3 DEF TransferMargin, FundType, Moving
    <3>2. QED
      BY <1>2, <1>5, <1>6, <1>7, <1>8, <2>1, <3>1 DEF Counts
  <2>4. QED
    BY <2>2, <2>3
<1>11. QED
  BY <1>1, <1>3, <1>7, <1>10, JobFunds

\* The PnL of an expiry is added to what the funds row still says.
LEMMA BookWriteFunds ==
  ASSUME TypeInv, TypeInv', DeliveryInv, FundsInv, NEW t \in Threads, BookWrite(t)
  PROVE  FundsInv'
<1>1. /\ ~Idle(t) /\ Done(t) /\ UNCHANGED <<pos, resting, holding, upset>> /\ pc[t] = "book_write"
  BY DEF BookWrite, TypeInv, book, history
<1>2. pc' = [pc EXCEPT ![t] = "next"]
  BY <1>1, DoneGoes
<1>3. OthersRest(t) /\ OthersRest(t)' /\ pc'[t] = "next"
  BY <1>1, <1>2, WorkRests
<1>4. Counts(t) /\ Counts(t)'
  BY <1>3, Numbers, NumbersNext DEF OneCounts
<1>5. Open' = Open /\ Owning' = Owning /\ Pending' = Pending
  BY <1>1, SameSize DEF Owning, Pending
<1>6. InFlight(t) = 0 /\ InFlight(t)' = 0 /\ Moving(t) = 0 /\ Moving(t)' = 0 /\ ReadsOK(t)'
  BY <1>1, <1>3 DEF InFlight, Moving, ReadsOK
<1>7. /\ loc[t].cash = fund.available /\ loc[t].booked = fund.realized
      /\ fund \in FundType /\ loc[t].pnl \in Int
  BY <1>1 DEF FundsInv, ReadsOK, TypeInv, TypeOK, FundType
<1>8. /\ fund'.available = fund.available + loc[t].pnl /\ fund'.used = fund.used
      /\ fund'.realized = fund.realized + loc[t].pnl
  BY <1>7 DEF BookWrite, FundType
<1>9. /\ Open' + Pending' + InFlight(t)' + fund.used
           <= Open + Pending + InFlight(t) + fund'.used
      /\ fund'.available + fund'.used + Owning' + fund.realized + Moving(t)
           >= fund.available + fund.used + Owning + fund'.realized + Moving(t)'
  BY <1>4, <1>5, <1>6, <1>7, <1>8 DEF Counts
<1>10. QED
  BY <1>1, <1>2, <1>6, <1>9, JobFunds

\* Rows that a job takes out whole: what is open shrinks by their size.
LEMMA TakenSize ==
  ASSUME pos \in Rows, pos' \in Rows, NEW rows \in [Keys -> Int],
         \A k \in Keys : \/ rows[k] = 0 /\ pos'[k].qty = pos[k].qty
                         \/ rows[k] = pos[k].qty /\ pos'[k].qty = 0
  PROVE  Open = Open' + SizeOf(rows) /\ SizeOf(rows) \in Nat
<1> DEFINE h == [k \in Keys |-> pos[k].qty]
           f == [k \in Keys |-> pos'[k].qty]
<1>1. h \in [Keys -> Int] /\ f \in [Keys -> Int]
  BY DEF Rows
<1>2. \A k \in Keys : AbsOf(h[k]) = AbsOf(f[k]) + AbsOf(rows[k])
  <2>1. \A k \in Keys : h[k] \in Int /\ rows[k] \in Int /\ \/ rows[k] = 0 /\ f[k] = h[k]
                                                           \/ rows[k] = h[k] /\ f[k] = 0
    BY <1>1
  <2> HIDE DEF h, f
  <2>2. QED
    BY <2>1 DEF AbsOf
<1>3. Open = SizeOf(h) /\ Open' = SizeOf(f)
  BY DEF Open
<1> HIDE DEF h, f
<1>4. SizeOf(h) = SizeOf(f) + SizeOf(rows)
  BY <1>1, <1>2, KeysFinite, SizePlus
<1>5. SizeOf(rows) \in Nat
  BY KeysFinite, SizeNat
<1>6. QED
  BY <1>3, <1>4, <1>5

\* A settlement: what leaves the positions enters the holdings.
LEMMA SettleFunds ==
  ASSUME TypeInv, TypeInv', DeliveryInv, FundsInv, NEW t \in Threads, SettleCommit(t)
  PROVE  FundsInv'
<1>1. /\ ~Idle(t) /\ pc[t] = "st_commit" /\ Settled(t) /\ UNCHANGED <<resting, fund, upset>>
  BY DEF SettleCommit, TypeInv, history
<1>2. PICK rows : rows = loc[t].rows
  OBVIOUS
<1>3. /\ pos \in Rows /\ pos' \in Rows /\ holding \in [Delivery -> Nat] /\ holding' \in [Delivery -> Nat]
      /\ rows \in [Keys -> Int] /\ loc[t] \in LocalType
  BY <1>2 DEF TypeInv, TypeOK, Rows, LocalType
<1>4. /\ loc[t].live = {k \in Keys : rows[k] # 0} /\ loc[t].live \subseteq Delivery
      /\ \A k \in loc[t].live : rows[k] = pos[k].qty /\ pos[k].qty > 0
      /\ \A k \in Delivery : loc[t].held[k] = holding[k]
  BY <1>1, <1>2 DEF DeliveryInv, SettlesWhatItRead
<1>5. \A k \in Keys : \/ rows[k] = 0 /\ pos'[k].qty = pos[k].qty
                      \/ rows[k] = pos[k].qty /\ pos'[k].qty = 0
  <2>1. pos' = [k \in Keys |-> IF rows[k] # 0 THEN NoPosition ELSE pos[k]]
    BY <1>1, <1>2, <1>4 DEF Settled
  <2>2. QED
    BY <1>4, <2>1 DEF NoPosition
<1>6. Open = Open' + SizeOf(rows) /\ SizeOf(rows) \in Nat
  BY <1>3, <1>5, TakenSize
<1>7. Owning' = Owning + SizeOf(rows)
  <2> DEFINE g == [k \in Delivery |-> rows[k]]
             h == holding'
  <2>1. SizeOf(rows) = SizeOf(g)
    <3>1. \A k \in Keys \ Delivery : rows[k] = 0
      BY <1>4
    <3>2. QED
      BY <1>3, <3>1, KeysFinite, SizeWithin
  <2>2. \A k \in Delivery : h[k] = holding[k] + g[k] /\ g[k] \in Nat /\ holding[k] \in Nat
    <3>1. holding' = [k \in Delivery |-> IF rows[k] # 0 THEN loc[t].held[k] + rows[k] ELSE holding[k]]
      BY <1>1, <1>2 DEF Settled
    <3>2. \A k \in Delivery : rows[k] \in Nat
      <4>1. ASSUME NEW k \in Delivery PROVE rows[k] \in Nat
        <5>1. k \in Keys /\ rows[k] \in Int
          BY <1>3, KeysFinite
        <5>2. rows[k] = 0 \/ rows[k] > 0
          BY <1>4, <5>1
        <5>3. QED
          BY <5>1, <5>2
      <4>2. QED
        BY <4>1
    <3>3. QED
      BY <1>3, <1>4, <3>1, <3>2
  <2>3. g \in [Delivery -> Int] /\ h \in [Delivery -> Int] /\ holding \in [Delivery -> Int]
    BY <1>3, <2>2
  <2>4. Owning = SizeOf(holding) /\ Owning' = SizeOf(h)
    BY DEF Owning
  <2> HIDE DEF g, h
  <2>5. \A k \in Delivery : AbsOf(h[k]) = AbsOf(holding[k]) + AbsOf(g[k])
    BY <2>2 DEF AbsOf
  <2>6. SizeOf(h) = SizeOf(holding) + SizeOf(g)
    BY <2>3, <2>5, KeysFinite, SizePlus
  <2>7. QED
    BY <2>1, <2>4, <2>6
<1>8. pc' = [pc EXCEPT ![t] = "transfer"] /\ loc'[t].amt = SizeOf(rows)
  <2>1. Goto(t, "transfer",
              [u \in Threads |->
                 IF u = t THEN WithAmt(WithHeld(WithLive(WithRows(loc[t], NoRows), {}), NoRows), SizeOf(rows))
                 ELSE WithLive(loc[u], loc[u].live \ ({k \in Delivery : rows[k] # 0} \cap loc[t].live))])
    BY <1>1, <1>2 DEF Settled, WithAmt, WithHeld, WithLive, WithRows
  <2>2. WithHeld(WithLive(WithRows(loc[t], NoRows), {}), NoRows) \in LocalType
    <3>1. NoRows \in [Keys -> Int] /\ NoRows \in [Keys -> Nat]
      BY DEF NoRows
    <3>2. WithRows(loc[t], NoRows) \in LocalType
      BY <1>3, <3>1, TypeRows
    <3>3. WithLive(WithRows(loc[t], NoRows), {}) \in LocalType
      BY <3>2, TypeLive
    <3>4. QED
      BY <3>1, <3>3, TypeHeld
  <2>3. WithAmt(WithHeld(WithLive(WithRows(loc[t], NoRows), {}), NoRows), SizeOf(rows)).amt = SizeOf(rows)
    BY <1>6, <2>2, TypeAmt
  <2>4. QED
    BY <2>1, <2>3 DEF Goto
<1>9. OthersRest(t) /\ OthersRest(t)' /\ pc'[t] = "transfer"
  BY <1>1, <1>8, WorkRests
<1>10. Counts(t) /\ Counts(t)'
  BY <1>9, Numbers, NumbersNext DEF OneCounts
<1>11. /\ InFlight(t) = 0 /\ Moving(t) = 0 /\ ReadsOK(t)' /\ Pending' = Pending
       /\ InFlight(t)' = SizeOf(rows) /\ Moving(t)' = SizeOf(rows)
  BY <1>1, <1>8, <1>9 DEF InFlight, Moving, ReadsOK, Pending
<1>12. /\ Open' + Pending' + InFlight(t)' + fund.used
            <= Open + Pending + InFlight(t) + fund'.used
       /\ fund'.available + fund'.used + Owning' + fund.realized + Moving(t)
            >= fund.available + fund.used + Owning + fund'.realized + Moving(t)'
  BY <1>1, <1>6, <1>7, <1>10, <1>11 DEF Counts
<1>13. QED
  BY <1>1, <1>8, <1>11, <1>12, JobFunds

\* Rows that are closed leave their margin in flight.
LEMMA CloseRowsFunds ==
  ASSUME TypeInv, TypeInv', DeliveryInv, FundsInv, NEW t \in Threads, ~Idle(t),
         pc[t] \in {"next", "ex_commit"}, NEW rows \in [Keys -> Int], NEW p \in Int,
         \A k \in Keys : rows[k] # 0 => rows[k] = pos[k].qty,
         CloseRows(t, rows, p), UNCHANGED <<resting, holding, fund, upset>>
  PROVE  FundsInv'
<1>1. pos \in Rows /\ pos' \in Rows /\ loc \in [Threads -> LocalType]
  BY DEF TypeInv, TypeOK, Rows, LocalType
<1>2. \A k \in Keys : \/ rows[k] = 0 /\ pos'[k].qty = pos[k].qty
                      \/ rows[k] = pos[k].qty /\ pos'[k].qty = 0
  <2>1. ASSUME NEW x \in [qty : Int, upd : 0..1, trd : 0..1]
        PROVE  [x EXCEPT !.qty = 0, !.upd = 0].qty = 0
    OBVIOUS
  <2>2. \A k \in Keys : pos[k] \in [qty : Int, upd : 0..1, trd : 0..1]
    BY <1>1 DEF Rows
  <2>3. pos' = [k \in Keys |-> IF rows[k] # 0 THEN [pos[k] EXCEPT !.qty = 0, !.upd = 0] ELSE pos[k]]
    BY DEF CloseRows
  <2>4. QED
    BY <2>1, <2>2, <2>3
<1>3. Open = Open' + SizeOf(rows) /\ SizeOf(rows) \in Nat
  BY <1>1, <1>2, TakenSize
<1> DEFINE y == WithLive(WithRows(loc[t], NoRows), {})
           x == WithPnl(WithAmt(y, SizeOf(rows)), p)
<1>4. pc' = [pc EXCEPT ![t] = "free"] /\ loc' = [loc EXCEPT ![t] = x]
  BY <1>1 DEF CloseRows, Goto, WithPnl, WithAmt, WithLive, WithRows
<1>5. x.amt = SizeOf(rows)
  <2>1. NoRows \in [Keys -> Int]
    BY DEF NoRows
  <2>2. y \in LocalType
    BY <1>1, <2>1, TypeRows, TypeLive
  <2> HIDE DEF y
  <2>3. WithAmt(y, SizeOf(rows)) \in LocalType /\ WithAmt(y, SizeOf(rows)).amt = SizeOf(rows)
    BY <1>3, <2>2, TypeAmt
  <2>4. QED
    BY <2>3, TypePnl
<1> HIDE DEF x
<1>6. loc'[t].amt = SizeOf(rows)
  BY <1>1, <1>4, <1>5
<1>7. OthersRest(t) /\ OthersRest(t)' /\ pc'[t] = "free"
  BY <1>4, WorkRests
<1>8. Counts(t) /\ Counts(t)'
  BY <1>7, Numbers, NumbersNext DEF OneCounts
<1>9. /\ InFlight(t) = 0 /\ Moving(t) = 0 /\ ReadsOK(t)' /\ Pending' = Pending /\ Owning' = Owning
      /\ InFlight(t)' = SizeOf(rows) /\ Moving(t)' = 0
  BY <1>6, <1>7 DEF InFlight, Moving, ReadsOK, Pending, Owning
<1>10. /\ Open' + Pending' + InFlight(t)' + fund.used
            <= Open + Pending + InFlight(t) + fund'.used
       /\ fund'.available + fund'.used + Owning' + fund.realized + Moving(t)
            >= fund.available + fund.used + Owning + fund'.realized + Moving(t)'
  BY <1>3, <1>8, <1>9 DEF Counts
<1>11. QED
  BY <1>4, <1>9, <1>10, JobFunds

\* Stale and expired positions, closed with the quantities read.
LEMMA ExpiryFunds ==
  ASSUME TypeInv, TypeInv', DeliveryInv, FundsInv, NEW t \in Threads,
         CloseStale(t) \/ ExpiredCommit(t)
  PROVE  FundsInv'
<1>1. /\ ~Idle(t) /\ UNCHANGED <<resting, holding, fund, upset>> /\ pc[t] \in {"next", "ex_commit"}
  BY DEF CloseStale, ExpiredCommit, AtTask, TypeInv, history
<1>2. pos \in Rows /\ loc[t].rows \in [Keys -> Int]
  BY DEF TypeInv, TypeOK, Rows
<1>3. CASE \E p \in Outcomes : CloseRows(t, StaleRows, p)
  <2>1. StaleRows \in [Keys -> Int] /\ \A k \in Keys : StaleRows[k] # 0 => StaleRows[k] = pos[k].qty
    BY <1>2 DEF StaleRows, Rows
  <2>2. QED
    BY <1>1, <1>3, <2>1, OutcomesInt, CloseRowsFunds
<1>4. CASE ExpiredCommit(t)
  <2>1. PICK p \in Outcomes : CloseRows(t, loc[t].rows, p)
    BY <1>4 DEF ExpiredCommit
  <2>2. \A k \in Keys : loc[t].rows[k] # 0 => loc[t].rows[k] = pos[k].qty
    BY <1>4 DEF ExpiredCommit, FundsInv, ReadsOK
  <2>3. PICK rows \in [Keys -> Int] : rows = loc[t].rows
    BY <1>2
  <2>4. CloseRows(t, rows, p) /\ \A k \in Keys : rows[k] # 0 => rows[k] = pos[k].qty
    BY <2>1, <2>2, <2>3
  <2>5. p \in Int
    BY <2>1, OutcomesInt
  <2>6. QED
    BY <1>1, <2>3, <2>4, <2>5, CloseRowsFunds
<1>5. CASE Done(t) /\ UNCHANGED pos
  <2>1. CASE pc[t] = "next"
    <3>1. pc' = [pc EXCEPT ![t] = "next"]
      BY <1>5, DoneGoes
    <3>2. pc'[t] = "next"
      BY <1>1, <3>1, WorkRests
    <3>3. QED
      BY <1>1, <1>5, <2>1, <3>1, <3>2, QuietFunds DEF ReadsOK
  <2>2. CASE pc[t] = "ex_commit"
    <3>1. ExpiredCommit(t)
      BY <2>2 DEF CloseStale, AtTask
    <3>2. QED
      BY <1>4, <3>1
  <2>3. QED
    BY <1>1, <2>1, <2>2
<1>6. QED
  BY <1>3, <1>4, <1>5 DEF CloseStale

\* A wipe empties the books, then starts the funds anew.
LEMMA WipeBooksFunds ==
  ASSUME TypeInv, TypeInv', DeliveryInv, FundsInv, NEW t \in Threads, Wipe(t)
  PROVE  FundsInv'
<1>1. /\ ~Idle(t) /\ pc' = [pc EXCEPT ![t] = "wipe_funds"] /\ UNCHANGED <<fund, upset>>
      /\ pos' = [k \in Keys |-> NoPosition] /\ resting' = [k \in Keys |-> 0]
      /\ holding' = [k \in Delivery |-> 0]
  BY DEF Wipe, AtTask, Goto, history
<1>2. OthersRest(t) /\ OthersRest(t)' /\ pc'[t] = "wipe_funds"
  BY <1>1, WorkRests
<1>3. Counts(t)'
  BY <1>2, NumbersNext DEF OneCounts
<1>4. Open' = 0 /\ Pending' = 0 /\ InFlight(t)' = 0
  <2>1. [k \in Keys |-> pos'[k].qty] \in [Keys -> Int] /\ \A k \in Keys : [j \in Keys |-> pos'[j].qty][k] = 0
    BY <1>1 DEF NoPosition
  <2>2. Open' = 0
    BY <2>1, KeysFinite, SizeZero DEF Open
  <2>3. Pending' = 0
    BY <1>1, KeysFinite, SizeZero DEF Pending
  <2>4. QED
    BY <1>2, <2>2, <2>3 DEF InFlight
<1>5. Covered' /\ Kept'
  BY <1>2, <1>3, <1>4 DEF Counts, Covered, Kept
<1>6. ReadsOK(t)'
  BY <1>1, <1>2, KeysFinite DEF ReadsOK, NoPosition
<1>7. \A u \in Threads : ReadsOK(u)'
  BY <1>2, <1>6 DEF ReadsOK, OthersRest
<1>8. QED
  BY <1>5, <1>7 DEF FundsInv

\* The funds of an empty account.
LEMMA WipeFundsFunds ==
  ASSUME TypeInv, TypeInv', DeliveryInv, FundsInv, NEW t \in Threads, WipeFunds(t)
  PROVE  FundsInv'
<1>1. /\ ~Idle(t) /\ Done(t) /\ pc[t] = "wipe_funds" /\ UNCHANGED <<pos, resting, holding>>
      /\ fund' = [available |-> Capital, used |-> 0, realized |-> 0, today |-> 0]
  BY DEF WipeFunds, TypeInv, book
<1>2. pc' = [pc EXCEPT ![t] = "next"]
  BY <1>1, DoneGoes
<1>3. OthersRest(t) /\ OthersRest(t)' /\ pc'[t] = "next"
  BY <1>1, <1>2, WorkRests
<1>4. Counts(t)'
  BY <1>3, NumbersNext DEF OneCounts
<1>5. /\ \A k \in Keys : pos[k].qty = 0 /\ resting[k] = 0
      /\ \A k \in Delivery : holding[k] = 0
  BY <1>1 DEF FundsInv, ReadsOK
<1>6. /\ resting \in [Keys -> Nat] /\ holding \in [Delivery -> Nat]
  BY DEF TypeInv, TypeOK
<1>7. Open' = 0 /\ Pending' = 0 /\ Owning' = 0
  <2>1. [k \in Keys |-> pos[k].qty] \in [Keys -> Int] /\ \A k \in Keys : [j \in Keys |-> pos[j].qty][k] = 0
    BY <1>5
  <2>2. Open = 0 /\ Open' = Open
    BY <1>1, <2>1, KeysFinite, SizeZero, SameSize DEF Open
  <2>3. resting \in [Keys -> Int] /\ holding \in [Delivery -> Int]
    BY <1>6
  <2>4. SizeOf(resting) = 0 /\ SizeOf(holding) = 0
    BY <1>5, <2>3, KeysFinite, SizeZero
  <2>5. QED
    BY <1>1, <2>2, <2>4 DEF Pending, Owning
<1>8. InFlight(t)' = 0 /\ Moving(t)' = 0
  BY <1>3 DEF InFlight, Moving
<1>9. Capital \in Int
  BY CapitalInt
<1>10. fund'.available = Capital /\ fund'.used = 0 /\ fund'.realized = 0
  BY <1>1
<1>11. Covered' /\ Kept'
  BY <1>4, <1>7, <1>8, <1>9, <1>10 DEF Counts, Covered, Kept
<1>12. \A u \in Threads : ReadsOK(u)'
  BY <1>3 DEF ReadsOK, OthersRest
<1>13. QED
  BY <1>11, <1>12 DEF FundsInv

\* A reconciliation frees blocked margin: the account's equity stays.
LEMMA ReconcileFunds ==
  ASSUME TypeInv, TypeInv', DeliveryInv, FundsInv, NEW t \in Threads, Reconcile(t)
  PROVE  FundsInv'
<1>1. ~Idle(t) /\ Done(t) /\ pc[t] = "next" /\ UNCHANGED <<pos, resting, holding>>
  BY DEF Reconcile, AtTask, book
<1>2. pc' = [pc EXCEPT ![t] = "next"]
  BY <1>1, DoneGoes
<1>3. OthersRest(t) /\ OthersRest(t)' /\ pc'[t] = "next"
  BY <1>1, <1>2, WorkRests
<1>4. CASE UNCHANGED <<fund, upset>>
  BY <1>1, <1>2, <1>3, <1>4, QuietFunds DEF ReadsOK
<1>5. CASE /\ fund' = [fund EXCEPT !.used = @ - (fund.used - Open), !.available = @ + (fund.used - Open)]
           /\ upset' = upset \cup {"reconciled"}
  <2>1. Counts(t) /\ Counts(t)'
    BY <1>3, Numbers, NumbersNext DEF OneCounts
  <2>2. fund \in FundType
    BY DEF TypeInv, TypeOK, FundType
  <2>3. /\ fund'.available = fund.available + (fund.used - Open)
        /\ fund'.used = fund.used - (fund.used - Open) /\ fund'.realized = fund.realized
    BY <1>5, <2>2 DEF FundType
  <2>4. Moving(t) = 0 /\ Moving(t)' = 0 /\ Owning' = Owning
    BY <1>1, <1>3 DEF Moving, Owning
  <2>5. fund'.available + fund'.used = fund.available + fund.used
    BY <2>1, <2>3 DEF Counts
  <2>6. Capital \in Int
    BY CapitalInt
  <2>7. Kept'
    <3>1. "torn wipe" \in upset => "torn wipe" \in upset'
      BY <1>5
    <3>2. "torn wipe" \notin upset =>
            fund.available + fund.used + Owning >= Capital + fund.realized + Moving(t)
      BY <1>1, <2>1 DEF FundsInv, Kept, Counts
    <3>3. "torn wipe" \notin upset =>
            fund'.available + fund'.used + Owning' >= Capital + fund'.realized + Moving(t)'
      BY <2>1, <2>3, <2>4, <2>5, <2>6, <3>2 DEF Counts
    <3>4. QED
      BY <2>1, <3>1, <3>3 DEF Kept, Counts
  <2>8. Covered'
    BY <1>5 DEF Covered
  <2>9. \A u \in Threads : ReadsOK(u)'
    BY <1>3 DEF ReadsOK, OthersRest
  <2>10. QED
    BY <2>7, <2>8, <2>9 DEF FundsInv
<1>6. QED
  BY <1>4, <1>5 DEF Reconcile, Open

-----------------------------------------------------------------------------
(* The clock, the process and the quotes *)

\* A step that moves no share, no money and no thread.
LEMMA AroundFunds ==
  ASSUME FundsInv, UNCHANGED <<resting, holding, fund, upset, pc>>,
         \A k \in Keys : pos'[k].qty = pos[k].qty,
         \A t \in Threads : /\ loc'[t].amt = loc[t].amt /\ loc'[t].rows = loc[t].rows
                            /\ loc'[t].cash = loc[t].cash /\ loc'[t].booked = loc[t].booked
  PROVE  FundsInv'
<1>1. Open' = Open /\ Pending' = Pending /\ Owning' = Owning
  BY SameSize DEF Pending, Owning
<1>2. /\ [t \in Threads |-> InFlight(t)]' = [t \in Threads |-> InFlight(t)]
      /\ [t \in Threads |-> Moving(t)]' = [t \in Threads |-> Moving(t)]
  BY DEF InFlight, Moving
<1>3. ClaimedMargin' = ClaimedMargin /\ Spending' = Spending
  BY <1>1, <1>2 DEF ClaimedMargin, Spending, Open, Pending
<1>4. Covered' /\ Kept'
  BY <1>1, <1>3 DEF FundsInv, Covered, Kept, Wiping
<1>5. \A t \in Threads : ReadsOK(t)'
  BY DEF FundsInv, ReadsOK
<1>6. QED
  BY <1>4, <1>5 DEF FundsInv

\* The clock, a start, a pass, a request or a quote.
LEMMA ClockFunds ==
  ASSUME TypeInv, FundsInv,
         \/ NextSlot \/ Started \/ Midnight \/ Boot \/ Tick
         \/ (\E op \in WebOps : WebCall(op)) \/ (\E k \in Keys : MtmWrite(k))
  PROVE  FundsInv'
<1>1. UNCHANGED <<resting, holding, fund, upset, pc>>
  BY DEF NextSlot, Started, Midnight, Boot, Tick, WebCall, MtmWrite, book, control, history
<1>2. pos \in Rows /\ loc \in [Threads -> LocalType]
  BY DEF TypeInv, TypeOK, Rows, LocalType
<1>3. \A k \in Keys : pos'[k].qty = pos[k].qty
  <2>1. CASE Midnight
    <3>1. ASSUME NEW x \in [qty : Int, upd : 0..1, trd : 0..1]
          PROVE  [x EXCEPT !.upd = 1, !.trd = 1].qty = x.qty
      OBVIOUS
    <3>2. \A k \in Keys : pos[k] \in [qty : Int, upd : 0..1, trd : 0..1]
      BY <1>2 DEF Rows
    <3>3. pos' = [k \in Keys |-> IF pos[k].qty = 0 THEN pos[k]
                                 ELSE [pos[k] EXCEPT !.upd = 1, !.trd = 1]]
      BY <2>1 DEF Midnight
    <3>4. QED
      BY <3>1, <3>2, <3>3
  <2>2. CASE \E k \in Keys : MtmWrite(k)
    <3>1. PICK k \in Keys : pos' = [pos EXCEPT ![k].upd = 0]
      BY <2>2 DEF MtmWrite
    <3>2. QED
      BY <1>2, <3>1 DEF Rows
  <2>3. CASE NextSlot \/ Started \/ Boot \/ Tick \/ \E op \in WebOps : WebCall(op)
    BY <2>3 DEF NextSlot, Started, Boot, Tick, WebCall, book
  <2>4. QED
    BY <2>1, <2>2, <2>3
<1>4. \A t \in Threads : /\ loc'[t].amt = loc[t].amt /\ loc'[t].rows = loc[t].rows
                         /\ loc'[t].cash = loc[t].cash /\ loc'[t].booked = loc[t].booked
  <2>1. CASE Midnight
    <3>1. loc' = [t \in Threads |-> IF Idle(t) THEN loc[t] ELSE WithAge(loc[t], 1)]
      BY <2>1 DEF Midnight, WithAge
    <3>2. ASSUME NEW l \in LocalType
          PROVE  /\ WithAge(l, 1).amt = l.amt /\ WithAge(l, 1).rows = l.rows
                 /\ WithAge(l, 1).cash = l.cash /\ WithAge(l, 1).booked = l.booked
      BY TypeAge
    <3>3. QED
      BY <1>2, <3>1, <3>2
  <2>2. CASE ~Midnight
    BY <2>2 DEF NextSlot, Started, Boot, Tick, WebCall, MtmWrite, control
  <2>3. QED
    BY <2>1, <2>2
<1>5. QED
  BY <1>1, <1>3, <1>4, AroundFunds

\* A crash forgets what was about to be released or spent.
LEMMA CrashFunds ==
  ASSUME TypeInv, TypeInv', DeliveryInv, FundsInv, Crash
  PROVE  FundsInv'
<1>1. /\ pc' = [t \in Threads |-> "next"] /\ UNCHANGED <<pos, resting, holding, fund>>
      /\ upset' = IF Wiping THEN upset \cup {"torn wipe"} ELSE upset
  BY DEF Crash, book
<1>0. fund' = fund
  BY <1>1
<1>2. PICK t \in Threads : OthersRest(t)
  BY DEF DeliveryInv, TakeTurns, OthersRest, Threads
<1>3. OthersRest(t)' /\ pc'[t] = "next"
  BY <1>1 DEF OthersRest
<1>4. Counts(t) /\ Counts(t)'
  BY <1>2, <1>3, Numbers, NumbersNext DEF OneCounts
<1>5. Open' = Open /\ Owning' = Owning /\ Pending' = Pending
  BY <1>1, SameSize DEF Owning, Pending
<1>6. InFlight(t)' = 0 /\ Moving(t)' = 0
  BY <1>3 DEF InFlight, Moving
<1>7. upset \subseteq upset' /\ ("torn wipe" \notin upset' => upset' = upset /\ ~Wiping)
  BY <1>1
<1>8. Covered'
  <2>1. CASE "reconciled" \in upset
    BY <1>7, <2>1 DEF Covered
  <2>2. CASE "reconciled" \notin upset
    <3>1. Open + Pending + InFlight(t) <= fund.used
      BY <1>4, <2>2 DEF FundsInv, Covered, Counts
    <3>2. Open' + Pending' + InFlight(t)' <= fund'.used
      BY <1>0, <1>4, <1>5, <1>6, <3>1 DEF Counts
    <3>3. QED
      BY <1>4, <3>2 DEF Covered, Counts
  <2>3. QED
    BY <2>1, <2>2
<1>9. Kept'
  <2>1. CASE "torn wipe" \in upset'
    BY <2>1 DEF Kept
  <2>2. CASE "torn wipe" \notin upset'
    <3>1. fund.available + fund.used + Owning >= Capital + fund.realized + Moving(t)
      BY <1>4, <1>7, <2>2 DEF FundsInv, Kept, Counts
    <3>2. Capital \in Int
      BY CapitalInt
    <3>3. fund'.available + fund'.used + Owning' >= Capital + fund'.realized + Moving(t)'
      BY <1>0, <1>4, <1>5, <1>6, <3>1, <3>2 DEF Counts
    <3>4. QED
      BY <1>4, <3>3 DEF Kept, Counts
  <2>3. QED
    BY <2>1, <2>2
<1>10. \A u \in Threads : ReadsOK(u)'
  BY <1>1 DEF ReadsOK
<1>11. QED
  BY <1>8, <1>9, <1>10 DEF FundsInv

-----------------------------------------------------------------------------
\* The first state, and any step.
LEMMA InitFunds == Init => FundsInv
<1> SUFFICES ASSUME Init PROVE FundsInv
  OBVIOUS
<1>1. TypeInv
  BY InitTypes
<1>2. PICK t \in Threads : t = "jobs"
  BY DEF Threads
<1>3. \A u \in Threads : pc[u] = "next"
  BY DEF Init
<1>4. Counts(t)
  BY <1>1, <1>3, Numbers DEF OneCounts, OthersRest
<1>5. /\ \A k \in Keys : pos[k].qty = 0 /\ resting[k] = 0
      /\ \A k \in Delivery : holding[k] = 0
      /\ resting \in [Keys -> Int] /\ holding \in [Delivery -> Int]
      /\ fund.available = Capital /\ fund.used = 0 /\ fund.realized = 0
  BY DEF Init, NoPosition
<1>6. Open = 0 /\ Pending = 0 /\ Owning = 0
  <2>1. [k \in Keys |-> pos[k].qty] \in [Keys -> Int] /\ \A k \in Keys : [j \in Keys |-> pos[j].qty][k] = 0
    BY <1>5
  <2>2. Open = 0
    BY <2>1, KeysFinite, SizeZero DEF Open
  <2>3. SizeOf(resting) = 0 /\ SizeOf(holding) = 0
    BY <1>5, KeysFinite, SizeZero
  <2>4. QED
    BY <2>2, <2>3 DEF Pending, Owning
<1>7. InFlight(t) = 0 /\ Moving(t) = 0 /\ \A u \in Threads : ReadsOK(u)
  BY <1>3 DEF InFlight, Moving, ReadsOK
<1>8. Capital \in Int
  BY CapitalInt
<1>9. Covered /\ Kept
  BY <1>4, <1>5, <1>6, <1>7, <1>8 DEF Counts, Covered, Kept
<1>10. QED
  BY <1>7, <1>9 DEF FundsInv

LEMMA NextFunds ==
  ASSUME Serial, TypeInv, TypeInv', DeliveryInv, FundsInv, [Next]_vars
  PROVE  FundsInv'
<1>1. CASE UNCHANGED vars
  BY <1>1, AroundFunds DEF vars
<1>2. ASSUME NEW t \in Threads, TaskStep(t)
      PROVE  FundsInv'
  BY <1>2, EndFunds, ReadFunds, SquareOffFunds, CancelFunds, LandFunds, BookWriteFunds,
     SettleFunds, ExpiryFunds, WipeBooksFunds, WipeFundsFunds, ReconcileFunds DEF TaskStep
<1>3. CASE \/ NextSlot \/ Started \/ Midnight \/ Boot \/ Tick
           \/ (\E op \in WebOps : WebCall(op)) \/ (\E k \in Keys : MtmWrite(k))
  BY <1>3, ClockFunds
<1>4. CASE Crash
  BY <1>4, CrashFunds
<1>5. CASE \E k \in Keys : OpenPosition(k) \/ ReducePosition(k) \/ RestOrder(k) \/ FillOrder(k)
  BY <1>5, TradeFunds, OrderFunds
<1>6. QED
  BY <1>1, <1>2, <1>3, <1>4, <1>5 DEF Next, UserStep

\* Whatever job crashes between two transactions or runs again, the margin of the
\* pending orders and positions, and what a job is about to give back or spend, is
\* blocked, for any account and calendar, as long as threads, requests and fills take
\* turns and until reconcile_margin, which ignores pending orders, is asked for.
THEOREM SessionMarginIsCovered ==
  ASSUME Serial
  PROVE  Spec => []MarginIsCovered
<1>1. TypeInv /\ DeliveryInv /\ FundsInv /\ [Next]_vars => (TypeInv /\ DeliveryInv /\ FundsInv)'
  BY NextTypes, StepMoves, NextFunds
<1>2. Init => TypeInv /\ DeliveryInv /\ FundsInv
  BY InitTypes, InitDelivery, InitFunds
<1>3. FundsInv => MarginIsCovered
  BY DEF FundsInv, Covered, MarginIsCovered
<1>4. QED
  BY <1>1, <1>2, <1>3, PTL DEF Spec

\* And no job destroys money: cash, blocked margin and settled shares at cost never
\* fall short of the capital and the booked PnL, unless the account is being wiped or a
\* crash tore a wipe apart.
THEOREM SessionEquityIsKept ==
  ASSUME Serial
  PROVE  Spec => []EquityNeverDestroyed
<1>1. TypeInv /\ DeliveryInv /\ FundsInv /\ [Next]_vars => (TypeInv /\ DeliveryInv /\ FundsInv)'
  BY NextTypes, StepMoves, NextFunds
<1>2. Init => TypeInv /\ DeliveryInv /\ FundsInv
  BY InitTypes, InitDelivery, InitFunds
<1>3. TypeInv /\ DeliveryInv /\ FundsInv => EquityNeverDestroyed
  <2> SUFFICES ASSUME TypeInv, DeliveryInv, FundsInv, ~Wiping, "torn wipe" \notin upset
               PROVE  fund.available + fund.used + Owning >= Capital + fund.realized
    BY DEF EquityNeverDestroyed, Owning
  <2>1. PICK t \in Threads : OthersRest(t)
    BY DEF DeliveryInv, TakeTurns, OthersRest, Threads
  <2>2. Counts(t)
    BY <2>1, Numbers DEF OneCounts
  <2>3. fund.available + fund.used + Owning >= Capital + fund.realized + Spending
    BY DEF FundsInv, Kept
  <2>4. QED
    BY ONLY <2>2, <2>3, CapitalInt DEF Counts
<1>4. QED
  BY <1>1, <1>2, <1>3, PTL DEF Spec
=============================================================================
