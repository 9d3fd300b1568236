-------------------------- MODULE MarketFeedProofs --------------------------
(***************************************************************************)
(* Proof that, when nothing is under way, whatever clients were told they  *)
(* are subscribed to is streamed, for any number of clients and tokens, if *)
(* messages are handled one at a time and one mode is asked for.  Each     *)
(* wanted token that is not streamed yet is in somebody's hands: in the    *)
(* queue, in the worker's batch, or in what the socket thread has still to *)
(* subscribe again.  That tables keep their types, and that a pause has a  *)
(* reason, needs no assumption on messages or modes.                       *)
(***************************************************************************)
EXTENDS MarketFeed, SumProofs, SequenceTheorems

-----------------------------------------------------------------------------
(* Types *)

LEMMA Blank ==
  /\ Nothing \in [Tokens -> 0..3] /\ Handling \in Calls /\ NoAdapter \in Adapters
  /\ NoWorker \in Workers /\ NoSocket \in Sockets
  BY BoundsAssumption DEF Nothing, Handling, Calls, NoAdapter, Adapters, NoWorker, Workers,
     NoSocket, Sockets, MaxFailures

\* Writing one field.
LEMMA WriteAdapter ==
  ASSUME NEW a \in Adapters, NEW b \in BOOLEAN
  PROVE  /\ [a EXCEPT !.up = b] \in Adapters /\ [a EXCEPT !.connected = b] \in Adapters
         /\ [a EXCEPT !.fatal = b] \in Adapters
  BY DEF Adapters

LEMMA WriteWorker ==
  ASSUME NEW w \in Workers
  PROVE  /\ \A p \in {"none", "check", "leaving", "send", "mode"} : [w EXCEPT !.pc = p] \in Workers
         /\ \A n \in 0..MaxFailures : [w EXCEPT !.fails = n] \in Workers
  BY DEF Workers

SocketPlaces == {"none", "run", "opening", "setting", "serving", "dead"}

LEMMA WriteSocket ==
  ASSUME NEW s \in Sockets
  PROVE  /\ \A p \in SocketPlaces : [s EXCEPT !.pc = p] \in Sockets
         /\ \A f \in [Tokens -> 0..3] : [s EXCEPT !.todo = f] \in Sockets
         /\ \A m \in 0..3 : [s EXCEPT !.mode = m] \in Sockets
         /\ \A b \in BOOLEAN : [s EXCEPT !.reset = b] \in Sockets
         /\ \A n \in Nat : [s EXCEPT !.tries = n] \in Sockets
  BY DEF Sockets, SocketPlaces

\* Frames leave the streams in their type, as the index and the messages do theirs.
LEMMA Frames ==
  ASSUME TypeOK
  PROVE  /\ \A toks : SendSubscribe(toks) => stream' \in [Tokens -> 0..3]
         /\ \A toks : \A m \in 0..3 : SendSetMode(toks, m) => stream' \in [Tokens -> 0..3]
         /\ \A tok : SendUnsubscribe(tok) => stream' \in [Tokens -> 0..3]
  BY DEF TypeOK, SendSubscribe, SendSetMode, SendUnsubscribe, QUOTE

LEMMA InitTypes == Init => TypeOK
<1> SUFFICES ASSUME Init PROVE TypeOK
  OBVIOUS
<1>1. call \in [Clients -> Calls]
  BY Blank DEF Init
<1>2. pending \in Seq(Tokens \X Modes) /\ index \subseteq Clients \X Tokens \X Modes
  BY DEF Init
<1>3. key \in 0..MaxKeys
  BY BoundsAssumption DEF Init
<1>4. QED
  BY <1>1, <1>2, <1>3, Blank DEF Init, TypeOK

LEMMA ClientTypes ==
  ASSUME TypeOK, NEW c \in Clients,
         \/ Authenticate(c) \/ Leave(c)
         \/ \E t \in Tokens, m \in Modes : Subscribe(c, t, m) \/ Unsubscribe(c, t, m)
  PROVE  TypeOK'
<1>1. CASE Authenticate(c)
  <2>1. CASE Adapter /\ ~adapter.fatal /\ adapter.key = key
    BY <1>1, <2>1 DEF Authenticate, TypeOK, cache
  <2>2. CASE ~(Adapter /\ ~adapter.fatal /\ adapter.key = key)
    <3>1. [NoAdapter EXCEPT !.key = key] \in Adapters
      BY Blank DEF TypeOK, Adapters, NoAdapter
    <3>2. [NoSocket EXCEPT !.pc = "run"] \in Sockets
      BY Blank, WriteSocket DEF SocketPlaces
    <3>3. [Handling EXCEPT !.what = "auth"] \in Calls
      BY Blank DEF Calls, Handling
    <3>4. <<>> \in Seq(Tokens \X Modes)
      OBVIOUS
    <3>5. QED
      BY <1>1, <2>2, <3>1, <3>2, <3>3, <3>4, Blank DEF Authenticate, cache, TypeOK
  <2>3. QED
    BY <2>1, <2>2
<1>2. ASSUME NEW t \in Tokens, NEW m \in Modes, Subscribe(c, t, m) \/ Unsubscribe(c, t, m)
      PROVE  TypeOK'
  <2>1. \A w \in {"sub", "unsub"} :
          [what |-> w, tok |-> t, mode |-> m, key |-> adapter.key] \in Calls
    BY DEF TypeOK, Calls, Adapters
  <2>2. /\ index' \subseteq Clients \X Tokens \X Modes /\ kept' \subseteq index'
        /\ call' \in [Clients -> Calls]
    <3>1. /\ index' = index \cup {<<c, t, m>>} \/ index' = index \ {<<c, t, m>>}
          /\ kept' = kept \ {<<c, t, m>>}
      BY <1>2 DEF Subscribe, Unsubscribe
    <3>2. <<c, t, m>> \in Clients \X Tokens \X Modes
      OBVIOUS
    <3>3. index' \subseteq Clients \X Tokens \X Modes /\ kept' \subseteq index'
      BY <3>1, <3>2 DEF TypeOK
    <3>4. \/ call' = call
          \/ \E w \in {"sub", "unsub"} :
               call' = [call EXCEPT ![c] = [what |-> w, tok |-> t, mode |-> m, key |-> adapter.key]]
      BY <1>2 DEF Subscribe, Unsubscribe
    <3>5. QED
      BY <2>1, <3>3, <3>4 DEF TypeOK
  <2>3. UNCHANGED <<authed, adapter, tables, worker, socket, link, stream, cache, key, drops>>
    BY <1>2 DEF Subscribe, Unsubscribe
  <2>4. QED
    BY <2>2, <2>3 DEF TypeOK, tables, cache
<1>3. CASE Leave(c)
  BY <1>3 DEF Leave, TypeOK, tables, cache
<1>4. QED
  BY <1>1, <1>2, <1>3

LEMMA HandlerTypes ==
  ASSUME TypeOK, NEW c \in Clients, Handler(c)
  PROVE  TypeOK'
<1>1. call' \in [Clients -> Calls]
  BY Blank DEF Handler, AuthConnected, AuthFailed, AdapterSubscribe, AdapterUnsubscribe,
     Answered, TypeOK
<1>2. CASE AuthConnected(c)
  BY <1>1, <1>2, WriteAdapter DEF AuthConnected, SetConnected, TypeOK, tables
<1>3. CASE AuthFailed(c)
  <2>1. <<>> \in Seq(Tokens \X Modes)
    OBVIOUS
  <2>2. QED
    BY <1>1, <1>3, <2>1, Blank DEF AuthFailed, SetDisconnected, TypeOK
<1>4. CASE AdapterSubscribe(c)
  <2>1. call[c].tok \in Tokens /\ call[c].mode \in Modes
    BY <1>4 DEF AdapterSubscribe, TypeOK, Calls, Handling
  <2>2. [NoWorker EXCEPT !.pc = "check"] \in Workers
    BY Blank, WriteWorker
  <2>3. UNCHANGED <<authed, index, adapter, socket, link, stream, cache, key, drops>>
    BY <1>4 DEF AdapterSubscribe
  <2>4. CASE UNCHANGED <<kept, tables, worker>>
    BY <1>1, <2>3, <2>4 DEF TypeOK, tables, cache
  <2>5. CASE /\ want' = [want EXCEPT ![call[c].tok] = 0]
             /\ kept' = kept \cup (index \cap {<<c, call[c].tok, call[c].mode>>})
             /\ UNCHANGED <<pending, worker>>
    <3>0. want \in [Tokens -> 0..3] /\ 0 \in 0..3
      BY DEF TypeOK
    <3>1. want' \in [Tokens -> 0..3] /\ pending' = pending /\ worker' = worker
      BY <2>5, <3>0
    <3>2. kept' \subseteq index'
      BY <2>3, <2>5 DEF TypeOK
    <3>3. QED
      BY <1>1, <2>3, <3>1, <3>2 DEF TypeOK, cache
  <2>6. CASE /\ kept' = kept
             /\ want' = [want EXCEPT ![call[c].tok] = IF call[c].mode > @ THEN call[c].mode ELSE @]
             /\ pending' = Append(pending, <<call[c].tok, call[c].mode>>)
             /\ EnsureWorker
    <3>1. want' \in [Tokens -> 0..3]
      <4>1. call[c].mode \in 0..3 /\ want \in [Tokens -> 0..3]
        <5>1. call[c].mode \in 1..3
          BY <2>1, ModesAssumption
        <5>2. want \in [Tokens -> 0..3]
          BY DEF TypeOK
        <5>3. QED
          BY <5>1, <5>2
      <4>2. want' = [want EXCEPT ![call[c].tok] = IF call[c].mode > want[call[c].tok]
                                                  THEN call[c].mode ELSE want[call[c].tok]]
        BY <2>6
      <4>3. QED
        BY <2>1, <4>1, <4>2
    <3>2. pending' \in Seq(Tokens \X Modes)
      BY <2>1, <2>6 DEF TypeOK
    <3>3. worker' \in Workers
      BY <2>2, <2>6 DEF EnsureWorker, TypeOK
    <3>4. QED
      BY <1>1, <2>3, <2>6, <3>1, <3>2, <3>3 DEF TypeOK, cache
  <2>7. QED
    BY <1>4, <2>4, <2>5, <2>6 DEF AdapterSubscribe
<1>5. CASE AdapterUnsubscribe(c)
  <2>1. want' \in [Tokens -> 0..3] /\ stream' \in [Tokens -> 0..3]
    BY <1>5, Frames DEF AdapterUnsubscribe, TypeOK
  <2>2. QED
    BY <1>1, <1>5, <2>1 DEF AdapterUnsubscribe, TypeOK, cache
<1>6. QED
  BY <1>2, <1>3, <1>4, <1>5 DEF Handler

LEMMA SocketTypes ==
  ASSUME TypeOK, Open \/ OnOpen \/ Drop \/ \E fatal \in Fatal : Closed(fatal) \/ Fails(fatal)
  PROVE  TypeOK'
<1>1. CASE Open
  <2>1. [[[socket EXCEPT !.pc = "opening"] EXCEPT !.todo = want] EXCEPT !.reset = TRUE] \in Sockets
    <3> DEFINE a == [socket EXCEPT !.pc = "opening"]
               b == [a EXCEPT !.todo = want]
    <3>1. a \in Sockets
      BY WriteSocket DEF TypeOK, SocketPlaces
    <3> HIDE DEF a
    <3>2. b \in Sockets
      BY <3>1, WriteSocket DEF TypeOK
    <3> HIDE DEF b
    <3>3. [b EXCEPT !.reset = TRUE] \in Sockets
      BY <3>2, WriteSocket
    <3>4. QED
      BY <3>3 DEF a, b
  <2>2. [adapter EXCEPT !.connected = TRUE] \in Adapters
    BY WriteAdapter DEF TypeOK
  <2>3. QED
    BY <1>1, <2>1, <2>2, Blank DEF Open, TypeOK, proxy, tables, cache
<1>2. CASE ResubscribeTokens
  <2>1. PICK m \in {socket.todo[t] : t \in Tokens} \ {0} :
          /\ SendSubscribe({t \in Tokens : socket.todo[t] = m})
          /\ socket' = [socket EXCEPT !.pc = "setting", !.mode = m]
    BY <1>2 DEF ResubscribeTokens
  <2>2. m \in 0..3
    BY DEF TypeOK, Sockets
  <2>3. [[socket EXCEPT !.pc = "setting"] EXCEPT !.mode = m] \in Sockets
    <3> DEFINE a == [socket EXCEPT !.pc = "setting"]
    <3>1. a \in Sockets
      BY WriteSocket DEF TypeOK, SocketPlaces
    <3> HIDE DEF a
    <3>2. [a EXCEPT !.mode = m] \in Sockets
      BY <2>2, <3>1, WriteSocket
    <3>3. QED
      BY <3>2 DEF a
  <2>4. stream' \in [Tokens -> 0..3]
    BY <2>1, Frames
  <2>5. QED
    BY <1>2, <2>1, <2>3, <2>4 DEF ResubscribeTokens, TypeOK, proxy, tables, cache
<1>3. CASE ResubscribeMode
  <2> DEFINE rest == [t \in Tokens |-> IF socket.todo[t] = socket.mode THEN 0 ELSE socket.todo[t]]
  <2>1. socket.mode \in 0..3 /\ rest \in [Tokens -> 0..3]
    BY DEF TypeOK, Sockets
  <2>2. stream' \in [Tokens -> 0..3]
    BY <1>3, <2>1, Frames DEF ResubscribeMode
  <2> HIDE DEF rest
  <2>3. [[[socket EXCEPT !.pc = "opening"] EXCEPT !.mode = 0] EXCEPT !.todo = rest] \in Sockets
    <3> DEFINE a == [socket EXCEPT !.pc = "opening"]
               b == [a EXCEPT !.mode = 0]
    <3>1. a \in Sockets
      BY WriteSocket DEF TypeOK, SocketPlaces
    <3> HIDE DEF a
    <3>2. b \in Sockets
      <4>1. 0 \in 0..3
        OBVIOUS
      <4>2. QED
        BY <3>1, <4>1, WriteSocket
    <3> HIDE DEF b
    <3>3. [b EXCEPT !.todo = rest] \in Sockets
      BY <2>1, <3>2, WriteSocket
    <3>4. QED
      BY <3>3 DEF a, b
  <2>4. socket' = [socket EXCEPT !.pc = "opening", !.mode = 0, !.todo = rest]
    BY <1>3 DEF ResubscribeMode, rest
  <2>5. QED
    BY <1>3, <2>2, <2>3, <2>4 DEF ResubscribeMode, TypeOK, proxy, tables, cache
<1>4. CASE Opened
  <2>1. [socket EXCEPT !.pc = "serving"] \in Sockets
    BY WriteSocket DEF TypeOK, SocketPlaces
  <2>2. [NoWorker EXCEPT !.pc = "check"] \in Workers
    BY Blank, WriteWorker
  <2>3. QED
    BY <1>4, <2>1, <2>2 DEF Opened, EnsureWorker, TypeOK, proxy, tables, cache
<1>5. CASE Drop
  <2>1. drops' \in Nat
    BY <1>5 DEF Drop, TypeOK
  <2>2. QED
    BY <1>5, <2>1, Blank DEF Drop, TypeOK, proxy, tables, cache
<1>6. ASSUME NEW fatal \in Fatal, Return(fatal)
      PROVE  TypeOK'
  <2> DEFINE tries == IF socket.reset THEN 1 ELSE socket.tries + 1
             place == IF fatal \/ tries > MaxTries THEN "dead" ELSE "run"
  <2>1. tries \in Nat /\ place \in SocketPlaces /\ fatal \in BOOLEAN
    BY ModesAssumption DEF TypeOK, Sockets, SocketPlaces
  <2>2. /\ adapter' = [adapter EXCEPT !.connected = FALSE, !.fatal = fatal]
        /\ socket' = [NoSocket EXCEPT !.pc = place, !.tries = tries]
        /\ UNCHANGED <<proxy, tables, worker, link, stream, cache, key, drops>>
    BY <1>6 DEF Return
  <2> HIDE DEF tries, place
  <2>3. adapter' \in Adapters
    <3> DEFINE a == [adapter EXCEPT !.connected = FALSE]
    <3>1. a \in Adapters
      BY WriteAdapter DEF TypeOK
    <3> HIDE DEF a
    <3>2. [a EXCEPT !.fatal = fatal] \in Adapters
      BY <2>1, <3>1, WriteAdapter
    <3>3. QED
      BY <2>2, <3>2 DEF a
  <2>4. socket' \in Sockets
    <3> DEFINE a == [NoSocket EXCEPT !.pc = place]
    <3>1. a \in Sockets
      BY <2>1, Blank, WriteSocket
    <3> HIDE DEF a
    <3>2. [a EXCEPT !.tries = tries] \in Sockets
      BY <2>1, <3>1, WriteSocket
    <3>3. QED
      BY <2>2, <3>2 DEF a
  <2>5. QED
    BY <2>2, <2>3, <2>4 DEF TypeOK, proxy, tables, cache
<1>7. QED
  BY <1>1, <1>2, <1>3, <1>4, <1>5, <1>6 DEF OnOpen, Closed, Fails

\* With one mode the worker takes the whole queue.
LEMMA WholeQueue ==
  ASSUME TypeOK, NEW m, Modes = {m}, pending # <<>>
  PROVE  /\ HeadRun = Len(pending) /\ Len(pending) \in Nat \ {0}
         /\ \A i \in 1..Len(pending) : pending[i][1] \in Tokens /\ pending[i][2] = m
<1>1. /\ pending \in Seq(Tokens \X {m}) /\ Len(pending) \in Nat \ {0}
  BY DEF TypeOK
<1>2. \A i \in 1..Len(pending) : pending[i] \in Tokens \X {m}
  BY <1>1
<1>3. \A i \in 1..Len(pending) : pending[i][1] \in Tokens /\ pending[i][2] = m
  BY <1>2
<1> DEFINE P(n) == /\ \A i \in 1..n : pending[i][2] = pending[1][2]
                   /\ n < Len(pending) => pending[n + 1][2] # pending[1][2]
<1>4. P(Len(pending)) /\ Len(pending) \in 1..Len(pending)
  BY <1>1, <1>3
<1>5. \A n \in 1..Len(pending) : P(n) => n = Len(pending)
  BY <1>1, <1>3
<1>6. HeadRun = CHOOSE n \in 1..Len(pending) : P(n)
  BY DEF HeadRun
<1> HIDE DEF P
<1>7. HeadRun = Len(pending)
  BY <1>4, <1>5, <1>6
<1>8. QED
  BY <1>1, <1>3, <1>7

\* The worker takes a run of entries at the head of the queue, one at least, whatever
\* their modes: the run ends at the first entry that the next differs from in mode.
LEMMA SomeRun ==
  ASSUME TypeOK, pending # <<>>
  PROVE  /\ Len(pending) \in Nat \ {0} /\ HeadRun \in 1..Len(pending)
         /\ \A i \in 1..Len(pending) : pending[i][1] \in Tokens /\ pending[i][2] \in Modes
<1>1. pending \in Seq(Tokens \X Modes) /\ Len(pending) \in Nat \ {0}
  BY DEF TypeOK
<1>2. \A i \in 1..Len(pending) : pending[i] \in Tokens \X Modes
  BY <1>1
<1> DEFINE P(n) == /\ \A i \in 1..n : pending[i][2] = pending[1][2]
                   /\ n < Len(pending) => pending[n + 1][2] # pending[1][2]
           Ends == {n \in 1..Len(pending) :
                      n < Len(pending) => pending[n + 1][2] # pending[1][2]}
<1>3. Len(pending) \in Ends /\ Ends \in SUBSET Nat
  BY <1>1
<1>4. PICK n \in Ends : \A k \in Ends : n <= k
  <2> HIDE DEF Ends
  <2>1. QED
    BY <1>3, LeastNat
<1>5. ASSUME NEW i \in 1..n, pending[i][2] # pending[1][2]
      PROVE  FALSE
  <2> DEFINE Odd == {k \in 1..n : pending[k][2] # pending[1][2]}
  <2>1. i \in Odd /\ Odd \in SUBSET Nat
    BY <1>5
  <2>2. PICK k \in Odd : \A j \in Odd : k <= j
    <3> HIDE DEF Odd
    <3>1. QED
      BY <2>1, LeastNat
  <2>3. k \in 1..n /\ pending[k][2] # pending[1][2] /\ k # 1
    OBVIOUS
  <2>4. PICK j : j = k - 1
    OBVIOUS
  <2>5. j \in 1..n /\ j < n /\ j + 1 = k /\ n \in 1..Len(pending)
    BY <2>3, <2>4
  <2>6. j \in Ends
    BY <2>3, <2>5, <1>1
  <2>7. QED
    BY <1>4, <2>5, <2>6
<1>6. P(n) /\ n \in 1..Len(pending)
  BY <1>5
<1>7. HeadRun = CHOOSE k \in 1..Len(pending) : P(k)
  BY DEF HeadRun
<1> HIDE DEF P
<1>8. HeadRun \in 1..Len(pending)
  BY <1>6, <1>7
<1>9. QED
  BY <1>1, <1>2, <1>8

LEMMA WorkerTypes ==
  ASSUME TypeOK, Worker
  PROVE  TypeOK'
<1>1. CASE WorkerEmpty \/ WorkerEnds \/ WorkerWaits
  <2>1. worker.fails + 1 \in 0..MaxFailures \/ worker.fails = MaxFailures
    BY DEF TypeOK, Workers, MaxFailures
  <2>2. worker' \in Workers
    BY <1>1, <2>1, WriteWorker, Blank DEF WorkerEmpty, WorkerEnds, WorkerWaits, TypeOK
  <2>3. QED
    BY <1>1, <2>2 DEF WorkerEmpty, WorkerEnds, WorkerWaits, TypeOK, proxy, tables, cache
<1>2. CASE WorkerDrains
  <2>1. pending # <<>>
    BY <1>2 DEF WorkerDrains
  <2>2. worker' \in Workers
    <3>1. {pending[i][1] : i \in 1..HeadRun} \in SUBSET Tokens /\ pending[1][2] \in Modes
      BY <2>1, SomeRun
    <3>2. QED
      BY <1>2, <3>1 DEF WorkerDrains, Workers, MaxFailures
  <2>3. pending' \in Seq(Tokens \X Modes)
    <3>1. PICK h : h = HeadRun + 1
      OBVIOUS
    <3>2. h \in 1..(Len(pending) + 1) /\ pending \in Seq(Tokens \X Modes)
      BY <2>1, <3>1, SomeRun DEF TypeOK
    <3>3. SubSeq(pending, h, Len(pending)) \in Seq(Tokens \X Modes)
      BY <3>2, SubSeqProperties
    <3>4. QED
      BY <1>2, <3>1, <3>3 DEF WorkerDrains
  <2>4. QED
    BY <1>2, <2>2, <2>3 DEF WorkerDrains, TypeOK, proxy, cache
<1>3. CASE WorkerSubscribes
  BY <1>3, WriteWorker, Frames DEF WorkerSubscribes, TypeOK, proxy, tables, cache
<1>4. CASE WorkerSetsMode
  <2>1. worker.mode \in 0..3
    <3>1. worker.mode \in Modes \cup {0}
      BY DEF TypeOK, Workers
    <3>2. Modes \subseteq 1..3
      BY ModesAssumption
    <3>3. \A k \in Modes \cup {0} : k \in 0..3
      BY <3>2
    <3>4. QED
      BY <3>1, <3>3
  <2>2. worker' \in Workers
    <3> DEFINE a == [worker EXCEPT !.pc = "check"]
               b == [a EXCEPT !.batch = {}]
    <3>1. a \in Workers
      BY WriteWorker DEF TypeOK
    <3> HIDE DEF a
    <3>2. b \in Workers
      BY <3>1 DEF Workers
    <3> HIDE DEF b
    <3>3. [b EXCEPT !.mode = 0] \in Workers
      BY <3>2 DEF Workers
    <3>4. QED
      BY <1>4, <3>3 DEF WorkerSetsMode, a, b
  <2>3. QED
    BY <1>4, <2>1, <2>2, Frames DEF WorkerSetsMode, TypeOK, proxy, tables, cache
<1>5. QED
  BY <1>1, <1>2, <1>3, <1>4 DEF Worker

LEMMA AroundTypes ==
  ASSUME TypeOK, Gap \/ HealthCheck \/ Login \/ \E t \in Tokens : Tick(t)
  PROVE  TypeOK'
<1>1. CASE Login
  BY <1>1, BoundsAssumption DEF Login, TypeOK, proxy, tables, cache
<1>2. CASE Gap \/ HealthCheck \/ \E t \in Tokens : Tick(t)
  BY <1>2 DEF Gap, HealthCheck, Tick, TypeOK, proxy, tables
<1>3. QED
  BY <1>1, <1>2

LEMMA StepTypes ==
  ASSUME TypeOK, [Next]_vars
  PROVE  TypeOK'
<1>1. CASE UNCHANGED vars
  BY <1>1 DEF vars, proxy, tables, cache, TypeOK
<1>2. QED
  BY <1>1, ClientTypes, HandlerTypes, SocketTypes, WorkerTypes, AroundTypes DEF Next

-----------------------------------------------------------------------------
(* The invariant *)

\* Messages are handled one at a time; an adapter is replaced between them, and
\* leaves an index of which the new one knows nothing.
OneMessage == \A c, d \in Clients : call[c].what # "none" /\ call[d].what # "none" => c = d
CallOK(c) ==
  /\ call[c].what \in {"sub", "unsub"} => call[c].key = adapter.key
  /\ call[c].what = "auth" => index = kept
  /\ call[c].what = "unsub" => \A i \in index \ kept : i[2] # call[c].tok

\* Everything is in the one mode.
OneMode(m) ==
  /\ want \in [Tokens -> {0, m}] /\ socket.todo \in [Tokens -> {0, m}]
  /\ worker.pc \in {"send", "mode"} => worker.mode = m
  /\ socket.pc = "setting" => socket.mode = m
  /\ link => socket.pc \in {"opening", "setting", "serving"}

\* An entry of the index is wanted by the adapter, or about to be.
Known(i) ==
  \/ want[i[2]] # 0
  \/ \E c \in Clients : call[c].what = "sub" /\ i = <<c, call[c].tok, call[c].mode>>

\* No more is wanted than the connection may carry.
Fits == IsFiniteSet(Wanted) /\ Cardinality(Wanted) <= Cap

\* A wanted token is streamed or in the hands of a thread that will subscribe it.
Queued(t) == \E i \in 1..Len(pending) : pending[i][1] = t
WithWorker(t) ==
  /\ worker.pc \in {"send", "mode"} /\ t \in worker.batch
  /\ worker.pc = "mode" => stream[t] # 0
WithSocket(t) ==
  /\ socket.pc \in {"opening", "setting"} /\ socket.todo[t] # 0
  /\ socket.pc = "setting" => stream[t] # 0
Fed(t, m) ==
  link /\ want[t] # 0 => stream[t] >= m \/ Queued(t) \/ WithWorker(t) \/ WithSocket(t)

FeedInv(m) ==
  /\ TypeOK /\ OneMessage /\ OneMode(m) /\ Fits
  /\ \A c \in Clients : CallOK(c)
  /\ \A i \in index \ kept : Known(i)
  /\ \A t \in Tokens : Fed(t, m)

LEMMA NothingFits ==
  /\ want = Nothing => Fits
  /\ want' = Nothing => Fits'
<1>1. IsFiniteSet({}) /\ Cardinality({}) <= Cap
  BY FS_EmptySet, BoundsAssumption
<1>2. want = Nothing => Wanted = {}
  BY DEF Wanted, Nothing
<1>3. want' = Nothing => Wanted' = {}
  BY DEF Wanted, Nothing
<1>4. QED
  BY <1>1, <1>2, <1>3 DEF Fits

LEMMA InitFeed == ASSUME NEW m, Init PROVE FeedInv(m)
<1>1. OneMode(m)
  BY DEF Init, OneMode, Nothing, NoSocket, NoWorker
<1>2. QED
  BY <1>1, InitTypes, NothingFits DEF Init, FeedInv, OneMessage, CallOK, Handling, Fed, Nothing

\* A step that moves neither messages nor index, and wants nothing else.
LEMMA ThreadKeeps ==
  ASSUME NEW m, FeedInv(m), TypeOK', UNCHANGED <<call, index, kept, want>>, adapter'.key = adapter.key,
         OneMode(m)', \A t \in Tokens : Fed(t, m)'
  PROVE  FeedInv(m)'
  BY DEF FeedInv, OneMessage, CallOK, Known, Fits, Wanted

\* A step that moves messages and index only.
LEMMA MessageKeeps ==
  ASSUME NEW m, FeedInv(m), TypeOK', OneMessage',
         UNCHANGED <<want, pending, worker, socket, link, stream>>,
         \A c \in Clients : CallOK(c)', \A i \in index' \ kept' : Known(i)'
  PROVE  FeedInv(m)'
  BY DEF FeedInv, OneMode, Fed, Queued, WithWorker, WithSocket, Fits, Wanted

-----------------------------------------------------------------------------
(* Messages *)

LEMMA ClientFeed ==
  ASSUME Serial, NEW m \in 1..3, Modes = {m}, FeedInv(m), NEW c \in Clients,
         \/ Authenticate(c) \/ Leave(c)
         \/ \E t \in Tokens, n \in Modes : Subscribe(c, t, n) \/ Unsubscribe(c, t, n)
  PROVE  FeedInv(m)'
<1>1. TypeOK'
  BY ClientTypes DEF FeedInv
<1>2. Calm
  BY DEF Authenticate, Leave, Subscribe, Unsubscribe, MayHandle
<1>3. call \in [Clients -> Calls]
  BY DEF FeedInv, TypeOK
<1>4. CASE Authenticate(c)
  <2>1. CASE UNCHANGED <<call, kept, adapter, want, pending, worker, socket, link, stream>>
    <3>1. index' = index
      BY <1>4 DEF Authenticate
    <3>2. QED
      BY <1>1, <1>2, <2>1, <3>1, MessageKeeps DEF FeedInv, OneMessage, CallOK, Known
  <2>2. CASE /\ call' = [call EXCEPT ![c] = [Handling EXCEPT !.what = "auth"]]
             /\ kept' = index /\ want' = Nothing /\ worker' = NoWorker
             /\ socket' = [NoSocket EXCEPT !.pc = "run"] /\ link' = FALSE
    <3>1. index' = index
      BY <1>4 DEF Authenticate
    <3>2. \A d \in Clients : d # c => call'[d].what = "none"
      BY <1>2, <1>3, <2>2 DEF Calm
    <3>3. call'[c].what = "auth"
      BY <1>3, <2>2 DEF Handling
    <3>4. OneMode(m)'
      BY <2>2 DEF OneMode, Nothing, NoSocket, NoWorker
    <3>5. QED
      BY <1>1, <2>2, <3>1, <3>2, <3>3, <3>4, NothingFits DEF FeedInv, OneMessage, CallOK, Fed
  <2>3. QED
    BY <1>4, <2>1, <2>2 DEF Authenticate
<1>5. CASE Leave(c)
  <2>1. UNCHANGED <<call, adapter, want, pending, worker, socket, link, stream>>
    BY <1>5 DEF Leave, tables
  <2>2. index' \ kept' \subseteq index \ kept
    BY <1>5 DEF Leave
  <2>3. QED
    BY <1>1, <1>2, <2>1, <2>2, MessageKeeps DEF FeedInv, OneMessage, CallOK, Known, Calm
<1>6. ASSUME NEW t \in Tokens, NEW n \in Modes, Subscribe(c, t, n)
      PROVE  FeedInv(m)'
  <2>1. UNCHANGED <<adapter, want, pending, worker, socket, link, stream>>
    BY <1>6 DEF Subscribe, tables
  <2>2. call'[c] = [what |-> "sub", tok |-> t, mode |-> n, key |-> adapter.key]
    BY <1>3, <1>6 DEF Subscribe
  <2>3. \A d \in Clients : d # c => call'[d].what = "none"
    BY <1>2, <1>3, <1>6 DEF Subscribe, Calm
  <2>4. index' \ kept' \subseteq (index \ kept) \cup {<<c, t, n>>}
    BY <1>6 DEF Subscribe
  <2>5. \A i \in index' \ kept' : Known(i)'
    BY <1>2, <2>1, <2>2, <2>4 DEF FeedInv, Known, Calm
  <2>6. QED
    BY <1>1, <2>1, <2>2, <2>3, <2>5, MessageKeeps DEF OneMessage, CallOK
<1>7. ASSUME NEW t \in Tokens, NEW n \in Modes, Unsubscribe(c, t, n)
      PROVE  FeedInv(m)'
  <2>1. /\ UNCHANGED <<adapter, want, pending, worker, socket, link, stream>>
        /\ index' \ kept' \subseteq index \ kept
    BY <1>7 DEF Unsubscribe, tables
  <2>2. \A i \in index' \ kept' : Known(i)'
    BY <1>2, <2>1 DEF FeedInv, Known, Calm
  <2>3. CASE \E d \in Clients : <<d, t, n>> \in index'
    <3>1. call' = call
      BY <1>7, <2>3 DEF Unsubscribe
    <3>2. QED
      BY <1>1, <1>2, <2>1, <2>2, <3>1, MessageKeeps DEF OneMessage, CallOK, Calm
  <2>4. CASE ~\E d \in Clients : <<d, t, n>> \in index'
    <3>1. call'[c] = [what |-> "unsub", tok |-> t, mode |-> n, key |-> adapter.key]
      BY <1>3, <1>7, <2>4 DEF Unsubscribe
    <3>2. \A d \in Clients : d # c => call'[d].what = "none"
      BY <1>2, <1>3, <1>7 DEF Unsubscribe, Calm
    <3>3. \A i \in index' : i[2] # t
      <4>1. index' \subseteq Clients \X Tokens \X {n}
        BY <1>1 DEF TypeOK
      <4>2. QED
        BY <2>4, <4>1
    <3>4. QED
      BY <1>1, <2>1, <2>2, <3>1, <3>2, <3>3, MessageKeeps DEF OneMessage, CallOK
  <2>5. QED
    BY <2>3, <2>4
<1>8. QED
  BY <1>4, <1>5, <1>6, <1>7

\* The queue only grows at its end.
LEMMA StillQueued ==
  ASSUME TypeOK, NEW e \in Tokens \X Modes, pending' = Append(pending, e)
  PROVE  /\ \A t : Queued(t) => Queued(t)'
         /\ Queued(e[1])'
<1>1. pending \in Seq(Tokens \X Modes) /\ Len(pending') = Len(pending) + 1 /\ Len(pending) \in Nat
  BY DEF TypeOK
<1>2. \A i \in 1..Len(pending) : pending'[i] = pending[i]
  BY <1>1
<1>3. pending'[Len(pending')] = e /\ Len(pending') \in 1..Len(pending')
  BY <1>1
<1>4. 1..Len(pending) \subseteq 1..Len(pending')
  BY <1>1
<1>5. QED
  BY <1>2, <1>3, <1>4 DEF Queued

\* What is wanted already is never refused, and what is not refused fits.
LEMMA RoomForWanted ==
  ASSUME Fits, NEW t \in Tokens
  PROVE  /\ Cardinality(Wanted \cup {t}) > Cap => t \notin Wanted
         /\ IsFiniteSet(Wanted \cup {t})
         /\ ~(Cardinality(Wanted \cup {t}) > Cap) => Cardinality(Wanted \cup {t}) <= Cap
<1>1. IsFiniteSet(Wanted \cup {t})
  BY FS_AddElement DEF Fits
<1>2. Cardinality(Wanted \cup {t}) \in Nat /\ Cap \in Nat
  BY <1>1, FS_CardinalityType, BoundsAssumption
<1>3. Cardinality(Wanted \cup {t}) > Cap => t \notin Wanted
  <2>1. ASSUME t \in Wanted PROVE Wanted \cup {t} = Wanted
    BY <2>1
  <2>2. QED
    BY <1>2, <2>1 DEF Fits
<1>4. QED
  BY <1>1, <1>2, <1>3

LEMMA HandlerFeed ==
  ASSUME Serial, NEW m \in 1..3, Modes = {m}, FeedInv(m), NEW c \in Clients, Handler(c)
  PROVE  FeedInv(m)'
<1>1. TypeOK /\ TypeOK'
  BY HandlerTypes DEF FeedInv
<1>2. call[c].what # "none"
  BY DEF Handler, AuthConnected, AuthFailed, AdapterSubscribe, AdapterUnsubscribe
<1>3. \A d \in Clients : call'[d].what = "none"
  <2>1. call \in [Clients -> Calls] /\ call' = [call EXCEPT ![c] = Handling]
    BY <1>1 DEF TypeOK, Handler, AuthConnected, AuthFailed, AdapterSubscribe, AdapterUnsubscribe,
       Answered
  <2>2. \A d \in Clients : d # c => call[d].what = "none"
    BY <1>2 DEF FeedInv, OneMessage
  <2>3. QED
    BY <2>1, <2>2 DEF Handling
<1>4. OneMessage' /\ \A d \in Clients : CallOK(d)'
  BY <1>3 DEF OneMessage, CallOK
<1>5. index' = index
  BY DEF Handler, AuthConnected, AuthFailed, AdapterSubscribe, AdapterUnsubscribe
<1>6. CASE AuthConnected(c)
  <2>1. UNCHANGED <<kept, want, pending, worker, socket, link, stream>>
    BY <1>6 DEF AuthConnected, tables
  <2>2. index \ kept = {}
    BY <1>6 DEF AuthConnected, FeedInv, CallOK
  <2>3. QED
    BY <1>1, <1>4, <1>5, <2>1, <2>2, MessageKeeps
<1>7. CASE AuthFailed(c)
  <2>1. /\ kept' = kept /\ want' = Nothing /\ worker' = NoWorker
        /\ socket' = NoSocket /\ link' = FALSE
    BY <1>7 DEF AuthFailed
  <2>2. OneMode(m)'
    BY <2>1 DEF OneMode, Nothing, NoSocket, NoWorker
  <2>3. index \ kept = {}
    BY <1>7 DEF AuthFailed, FeedInv, CallOK
  <2>4. QED
    BY <1>1, <1>4, <1>5, <2>1, <2>2, <2>3, NothingFits DEF FeedInv, Fed
<1>8. CASE AdapterSubscribe(c)
  <2>1. PICK t \in Tokens : call[c].what = "sub" /\ call[c].tok = t /\ call[c].mode = m
    BY <1>1, <1>8 DEF AdapterSubscribe, TypeOK, Calls, Handling
  <2>2. ~Replaced(c)
    BY <2>1 DEF Replaced, FeedInv, CallOK
  <2>3. want \in [Tokens -> {0, m}]
    BY DEF FeedInv, OneMode
  <2>4. UNCHANGED <<socket, link, stream>>
    BY <1>8 DEF AdapterSubscribe
  <2>5. \A i \in index \ kept : i[2] \in Tokens /\ (want[i[2]] # 0 \/ i = <<c, t, m>>)
    BY <1>1, <1>2, <2>1 DEF TypeOK, FeedInv, Known, OneMessage
  <2>6. CASE Cardinality(Wanted \cup {t}) > Cap
    <3>1. /\ want' = [want EXCEPT ![t] = 0] /\ UNCHANGED <<pending, worker>>
          /\ kept' = kept \cup (index \cap {<<c, t, m>>})
      BY <1>8, <2>1, <2>2, <2>6 DEF AdapterSubscribe
    <3>2. want[t] = 0
      BY <2>6, RoomForWanted DEF FeedInv, Wanted
    <3>3. want' = want
      BY <2>3, <3>1, <3>2
    <3>4. \A i \in index' \ kept' : Known(i)'
      <4> SUFFICES ASSUME NEW i \in index' \ kept' PROVE Known(i)'
        OBVIOUS
      <4>1. i \in index \ kept /\ i # <<c, t, m>>
        BY <1>5, <3>1
      <4>2. QED
        BY <2>5, <3>3, <4>1 DEF Known
    <3>5. QED
      BY <1>1, <1>4, <2>4, <3>1, <3>3, <3>4, MessageKeeps
  <2>7. CASE ~(Cardinality(Wanted \cup {t}) > Cap)
    <3>1. /\ want' = [want EXCEPT ![t] = IF m > want[t] THEN m ELSE want[t]]
          /\ kept' = kept /\ pending' = Append(pending, <<t, m>>)
          /\ EnsureWorker
      BY <1>8, <2>1, <2>2, <2>7 DEF AdapterSubscribe
    <3>2. want' = [want EXCEPT ![t] = m]
      <4>1. (IF m > want[t] THEN m ELSE want[t]) = m
        BY <2>1, <2>3
      <4>2. QED
        BY <3>1, <4>1
    <3>3. /\ want' \in [Tokens -> {0, m}] /\ want'[t] = m
          /\ \A u \in Tokens : u # t => want'[u] = want[u]
      BY <2>1, <2>3, <3>2
    <3>4. (worker' = worker) \/ (worker.pc = "none" /\ worker'.pc = "check")
      BY <3>1 DEF EnsureWorker, Alive, NoWorker
    <3>5. OneMode(m)'
      BY <2>4, <3>3, <3>4 DEF FeedInv, OneMode
    <3>6. Fits'
      <4>1. Wanted' = Wanted \cup {t}
        BY <2>1, <3>3 DEF Wanted
      <4>2. QED
        BY <2>7, <4>1, RoomForWanted DEF FeedInv, Fits
    <3>7. \A i \in index' \ kept' : Known(i)'
      BY <1>5, <2>5, <3>1, <3>3 DEF Known
    <3>8. \A u \in Tokens : Fed(u, m)'
      <4>1. Queued(t)' /\ \A u : Queued(u) => Queued(u)'
        <5> DEFINE e == <<t, m>>
        <5>1. e \in Tokens \X Modes /\ e[1] = t /\ pending' = Append(pending, e)
          BY <3>1
        <5> HIDE DEF e
        <5>2. QED
          BY <1>1, <5>1, StillQueued
      <4>2. \A u : WithWorker(u) => WithWorker(u)'
        BY <2>4, <3>4 DEF WithWorker
      <4>3. \A u : WithSocket(u) => WithSocket(u)'
        BY <2>4 DEF WithSocket
      <4>4. ASSUME NEW u \in Tokens, u # t PROVE Fed(u, m)'
        <5>1. want'[u] = want[u] /\ Fed(u, m)
          BY <3>3, <4>4 DEF FeedInv
        <5>2. QED
          BY <2>4, <4>1, <4>2, <4>3, <5>1 DEF Fed
      <4>5. Fed(t, m)'
        BY <4>1 DEF Fed
      <4>6. QED
        BY <4>4, <4>5
    <3>9. QED
      BY <1>1, <1>4, <3>5, <3>6, <3>7, <3>8 DEF FeedInv
  <2>8. QED
    BY <2>6, <2>7
<1>9. CASE AdapterUnsubscribe(c)
  <2> DEFINE t == call[c].tok
  <2>1. call[c].what = "unsub" /\ t \in Tokens
    BY <1>1, <1>9 DEF AdapterUnsubscribe, TypeOK, Calls, Handling
  <2>2. UNCHANGED <<kept, pending, worker, socket, link>>
    BY <1>9 DEF AdapterUnsubscribe
  <2>3. /\ want' = [want EXCEPT ![t] = 0]
        /\ stream' = stream \/ stream' = [stream EXCEPT ![t] = 0]
    BY <1>9, <2>1 DEF AdapterUnsubscribe, Replaced, SendUnsubscribe, FeedInv, CallOK
  <2>4. /\ want \in [Tokens -> {0, m}] /\ stream \in [Tokens -> 0..3]
    BY <1>1 DEF FeedInv, OneMode, TypeOK
  <2>5. \A i \in index \ kept : i[2] # t
    BY <2>1 DEF FeedInv, CallOK
  <2> HIDE DEF t
  <2>6. /\ want' \in [Tokens -> {0, m}] /\ want'[t] = 0
        /\ \A u \in Tokens : u # t => want'[u] = want[u] /\ stream'[u] = stream[u]
    BY <2>1, <2>3, <2>4
  <2>7. OneMode(m)'
    BY <2>2, <2>6 DEF FeedInv, OneMode
  <2>8. \A i \in index' \ kept' : Known(i)'
    <3> SUFFICES ASSUME NEW i \in index \ kept PROVE Known(i)'
      BY <1>5, <2>2
    <3>1. i[2] \in Tokens /\ i[2] # t /\ Known(i)
      BY <1>1, <2>5 DEF TypeOK, FeedInv
    <3>2. want[i[2]] # 0
      BY <1>2, <2>1, <3>1 DEF Known, FeedInv, OneMessage
    <3>3. QED
      BY <2>6, <3>1, <3>2 DEF Known
  <2>9. \A u \in Tokens : Fed(u, m)'
    <3> SUFFICES ASSUME NEW u \in Tokens PROVE Fed(u, m)'
      OBVIOUS
    <3>1. CASE u = t
      BY <2>6, <3>1 DEF Fed
    <3>2. CASE u # t
      <4>1. want'[u] = want[u] /\ stream'[u] = stream[u]
        BY <2>6, <3>2
      <4>2. QED
        BY <2>2, <4>1 DEF FeedInv, Fed, Queued, WithWorker, WithSocket
    <3>3. QED
      BY <3>1, <3>2
  <2>10. Fits'
    <3>1. Wanted' \subseteq Wanted
      BY <2>1, <2>6 DEF Wanted
    <3>2. IsFiniteSet(Wanted') /\ Cardinality(Wanted') <= Cardinality(Wanted)
      BY <3>1, FS_Subset DEF FeedInv, Fits
    <3>3. Cardinality(Wanted') \in Nat /\ Cardinality(Wanted) \in Nat /\ Cap \in Nat
      BY <3>2, FS_CardinalityType, BoundsAssumption DEF FeedInv, Fits
    <3>4. QED
      BY <3>2, <3>3 DEF FeedInv, Fits
  <2>11. QED
    BY <1>1, <1>4, <2>7, <2>8, <2>9, <2>10 DEF FeedInv
<1>10. QED
  BY <1>6, <1>7, <1>8, <1>9 DEF Handler

-----------------------------------------------------------------------------
(* The threads *)

\* What a frame of each kind does to one token, on a socket that is up.
LEMMA FrameEffect ==
  ASSUME TypeOK, link, NEW toks, NEW m \in 1..3, NEW t \in Tokens
  PROVE  /\ SendSubscribe(toks) => /\ stream'[t] >= stream[t]
                                   /\ t \in toks \/ stream[t] # 0 => stream'[t] # 0
         /\ SendSetMode(toks, m) => /\ stream[t] >= m => stream'[t] >= m
                                    /\ stream[t] # 0 => stream'[t] # 0
                                    /\ t \in toks /\ stream[t] # 0 => stream'[t] >= m
<1>1. stream[t] \in 0..3
  BY DEF TypeOK
<1>2. QED
  BY <1>1 DEF SendSubscribe, SendSetMode, QUOTE

LEMMA SocketFeed ==
  ASSUME NEW m \in 1..3, Modes = {m}, FeedInv(m),
         Open \/ OnOpen \/ Drop \/ \E fatal \in Fatal : Closed(fatal) \/ Fails(fatal)
  PROVE  FeedInv(m)'
<1>1. TypeOK /\ TypeOK'
  BY SocketTypes DEF FeedInv
<1>2. UNCHANGED <<call, index, kept, want>>
  BY DEF Open, OnOpen, ResubscribeTokens, ResubscribeMode, Opened, Drop, Closed, Fails, Return,
     proxy, tables
<1>3. adapter'.key = adapter.key
  <2>1. adapter \in Adapters
    BY <1>1 DEF TypeOK
  <2>2. \/ adapter' = adapter \/ adapter' = [adapter EXCEPT !.connected = TRUE]
        \/ \E fatal \in Fatal : adapter' = [adapter EXCEPT !.connected = FALSE, !.fatal = fatal]
    BY DEF Open, OnOpen, ResubscribeTokens, ResubscribeMode, Opened, Drop, Closed, Fails, Return
  <2>3. QED
    BY <2>1, <2>2 DEF Adapters
<1>4. /\ socket \in Sockets /\ socket.todo \in [Tokens -> {0, m}] /\ want \in [Tokens -> {0, m}]
      /\ stream \in [Tokens -> 0..3]
  BY <1>1 DEF TypeOK, FeedInv, OneMode
<1>5. CASE Open
  <2>1. socket'.pc = "opening" /\ socket'.todo = want /\ worker' = worker
    BY <1>4, <1>5 DEF Open, Sockets
  <2>2. OneMode(m)'
    BY <1>2, <1>4, <2>1 DEF FeedInv, OneMode
  <2>3. \A t \in Tokens : Fed(t, m)'
    BY <1>2, <2>1 DEF Fed, WithSocket
  <2>4. QED
    BY <1>1, <1>2, <1>3, <2>2, <2>3, ThreadKeeps
<1>6. CASE ResubscribeTokens
  <2>1. PICK n \in {socket.todo[t] : t \in Tokens} \ {0} :
          /\ SendSubscribe({t \in Tokens : socket.todo[t] = n})
          /\ socket' = [socket EXCEPT !.pc = "setting", !.mode = n]
    BY <1>6 DEF ResubscribeTokens
  <2>2. n = m
    BY <1>4
  <2>3. socket.pc = "opening" /\ UNCHANGED <<pending, worker, link>>
    BY <1>6 DEF ResubscribeTokens, tables
  <2>4. socket'.pc = "setting" /\ socket'.mode = m /\ socket'.todo = socket.todo
    BY <1>4, <2>1, <2>2 DEF Sockets
  <2>5. OneMode(m)'
    BY <1>2, <2>3, <2>4 DEF FeedInv, OneMode
  <2>6. \A t \in Tokens : Fed(t, m)'
    <3> SUFFICES ASSUME NEW t \in Tokens, link, want[t] # 0 PROVE Fed(t, m)'
      BY <1>2, <2>3 DEF Fed
    <3> DEFINE toks == {u \in Tokens : socket.todo[u] = n}
    <3>1. SendSubscribe(toks)
      BY <2>1
    <3> HIDE DEF toks
    <3>2. stream'[t] >= stream[t] /\ (t \in toks \/ stream[t] # 0 => stream'[t] # 0)
      BY <1>1, <3>1, FrameEffect
    <3>3. stream[t] >= m => stream'[t] >= m
      <4>1. stream[t] \in 0..3 /\ stream'[t] \in 0..3
        BY <1>1 DEF TypeOK
      <4>2. QED
        BY <3>2, <4>1
    <3>4. Queued(t) => Queued(t)'
      BY <2>3 DEF Queued
    <3>5. WithWorker(t) => WithWorker(t)'
      BY <2>3, <3>2 DEF WithWorker
    <3>6. WithSocket(t) => WithSocket(t)'
      <4>1. ASSUME socket.todo[t] # 0 PROVE t \in toks
        BY <1>4, <2>2, <4>1 DEF toks
      <4>2. QED
        BY <2>4, <3>2, <4>1 DEF WithSocket
    <3>7. QED
      BY <3>3, <3>4, <3>5, <3>6 DEF FeedInv, Fed
  <2>7. QED
    BY <1>1, <1>2, <1>3, <2>5, <2>6, ThreadKeeps
<1>7. CASE ResubscribeMode
  <2> DEFINE rest == [t \in Tokens |-> IF socket.todo[t] = socket.mode THEN 0 ELSE socket.todo[t]]
             toks == {t \in Tokens : socket.todo[t] = socket.mode}
  <2>1. socket.pc = "setting" /\ socket.mode = m /\ UNCHANGED <<pending, worker, link>>
    BY <1>7 DEF ResubscribeMode, tables, FeedInv, OneMode
  <2>2. rest \in [Tokens -> {0, m}]
    BY <1>4
  <2>3. \A t \in Tokens : socket.todo[t] # 0 => t \in toks
    BY <1>4, <2>1
  <2>4. SendSetMode(toks, m) /\ socket' = [socket EXCEPT !.pc = "opening", !.mode = 0, !.todo = rest]
    BY <1>7, <2>1 DEF ResubscribeMode
  <2> HIDE DEF rest, toks
  <2>5. socket'.pc = "opening" /\ socket'.todo = rest
    BY <1>4, <2>4 DEF Sockets
  <2>6. OneMode(m)'
    BY <1>2, <2>1, <2>2, <2>5 DEF FeedInv, OneMode
  <2>7. \A t \in Tokens : Fed(t, m)'
    <3> SUFFICES ASSUME NEW t \in Tokens, link, want[t] # 0 PROVE Fed(t, m)'
      BY <1>2, <2>1 DEF Fed
    <3>1. /\ stream[t] >= m => stream'[t] >= m
          /\ stream[t] # 0 => stream'[t] # 0
          /\ t \in toks /\ stream[t] # 0 => stream'[t] >= m
      BY <1>1, <2>4, FrameEffect
    <3>2. Queued(t) => Queued(t)'
      BY <2>1 DEF Queued
    <3>3. WithWorker(t) => WithWorker(t)'
      BY <2>1, <3>1 DEF WithWorker
    <3>4. WithSocket(t) => stream'[t] >= m
      BY <2>1, <2>3, <3>1 DEF WithSocket
    <3>5. QED
      BY <3>1, <3>2, <3>3, <3>4 DEF FeedInv, Fed
  <2>8. QED
    BY <1>1, <1>2, <1>3, <2>6, <2>7, ThreadKeeps
<1>8. CASE Opened
  <2>1. UNCHANGED <<pending, link, stream>> /\ socket.todo = Nothing
    BY <1>8 DEF Opened, tables
  <2>2. socket'.pc = "serving" /\ socket'.todo = socket.todo
    BY <1>4, <1>8 DEF Opened, Sockets
  <2>3. (worker' = worker) \/ (worker.pc = "none" /\ worker'.pc = "check")
    BY <1>8 DEF Opened, EnsureWorker, Alive, NoWorker
  <2>4. OneMode(m)'
    BY <1>2, <1>4, <2>1, <2>2, <2>3 DEF FeedInv, OneMode
  <2>5. \A t \in Tokens : ~WithSocket(t) /\ (WithWorker(t) => WithWorker(t)')
    BY <2>1, <2>3 DEF WithSocket, WithWorker, Nothing
  <2>6. \A t \in Tokens : Fed(t, m)'
    BY <1>2, <2>1, <2>5 DEF FeedInv, Fed, Queued
  <2>7. QED
    BY <1>1, <1>2, <1>3, <2>4, <2>6, ThreadKeeps
<1>9. CASE Drop
  <2>1. link' = FALSE /\ UNCHANGED <<worker, socket>>
    BY <1>9 DEF Drop
  <2>2. OneMode(m)'
    BY <1>2, <2>1 DEF FeedInv, OneMode
  <2>3. QED
    BY <1>1, <1>2, <1>3, <2>1, <2>2, ThreadKeeps DEF Fed
<1>10. ASSUME NEW fatal \in Fatal, Closed(fatal) \/ Fails(fatal)
       PROVE  FeedInv(m)'
  <2>1. ~link /\ UNCHANGED <<worker, link>>
    BY <1>10 DEF Closed, Fails, Return, FeedInv, OneMode
  <2>2. socket'.todo = Nothing /\ socket'.pc # "setting"
    BY <1>10 DEF Closed, Fails, Return, NoSocket
  <2>3. OneMode(m)'
    BY <1>2, <2>1, <2>2 DEF FeedInv, OneMode, Nothing
  <2>4. QED
    BY <1>1, <1>2, <1>3, <2>1, <2>3, ThreadKeeps DEF Fed
<1>11. QED
  BY <1>5, <1>6, <1>7, <1>8, <1>9, <1>10 DEF OnOpen

LEMMA WorkerFeed ==
  ASSUME NEW m \in 1..3, Modes = {m}, FeedInv(m), Worker
  PROVE  FeedInv(m)'
<1>1. TypeOK /\ TypeOK'
  BY WorkerTypes DEF FeedInv
<1>2. UNCHANGED <<call, index, kept, want, adapter, socket, link>>
  BY DEF Worker, WorkerEmpty, WorkerEnds, WorkerWaits, WorkerDrains, WorkerSubscribes,
     WorkerSetsMode, proxy, tables
<1>3. worker \in Workers
  BY <1>1 DEF TypeOK
<1>4. \A t \in Tokens : stream'[t] # 0 \/ stream[t] = 0 => (WithSocket(t) => WithSocket(t)')
  BY <1>2 DEF WithSocket
<1>5. CASE WorkerEmpty \/ WorkerEnds \/ WorkerWaits
  <2>1. UNCHANGED <<pending, stream>> /\ worker.pc \notin {"send", "mode"}
    BY <1>5 DEF WorkerEmpty, WorkerEnds, WorkerWaits, tables
  <2>2. worker'.pc \notin {"send", "mode"}
    BY <1>3, <1>5 DEF WorkerEmpty, WorkerEnds, WorkerWaits, Workers, NoWorker
  <2>3. OneMode(m)'
    BY <1>2, <2>2 DEF FeedInv, OneMode
  <2>4. \A t \in Tokens : Fed(t, m)'
    BY <1>2, <2>1 DEF FeedInv, Fed, Queued, WithWorker, WithSocket
  <2>5. QED
    BY <1>1, <1>2, <2>3, <2>4, ThreadKeeps
<1>6. CASE WorkerDrains
  <2>1. worker.pc = "check" /\ pending # <<>> /\ stream' = stream
    BY <1>6 DEF WorkerDrains
  <2>2. HeadRun = Len(pending) /\ \A i \in 1..Len(pending) : pending[i][2] = m
    BY <1>1, <2>1, WholeQueue
  <2>3. Len(pending) \in Nat \ {0}
    BY <1>1, <2>1, WholeQueue
  <2>4. /\ worker'.pc = "send" /\ worker'.mode = m
        /\ worker'.batch = {pending[i][1] : i \in 1..Len(pending)}
    BY <1>6, <2>2, <2>3 DEF WorkerDrains
  <2>5. OneMode(m)'
    BY <1>2, <2>4 DEF FeedInv, OneMode
  <2>6. \A t \in Tokens : Fed(t, m)'
    <3> SUFFICES ASSUME NEW t \in Tokens PROVE Fed(t, m)'
      OBVIOUS
    <3>1. Queued(t) => WithWorker(t)'
      BY <2>4 DEF Queued, WithWorker
    <3>2. ~WithWorker(t)
      BY <2>1 DEF WithWorker
    <3>3. QED
      BY <1>2, <1>4, <2>1, <3>1, <3>2 DEF FeedInv, Fed
  <2>7. QED
    BY <1>1, <1>2, <2>5, <2>6, ThreadKeeps
<1>7. CASE WorkerSubscribes
  <2>1. worker.pc = "send" /\ SendSubscribe(worker.batch) /\ pending' = pending
    BY <1>7 DEF WorkerSubscribes, tables
  <2>2. worker'.pc = "mode" /\ worker'.mode = worker.mode /\ worker'.batch = worker.batch
    BY <1>3, <1>7 DEF WorkerSubscribes, Workers
  <2>3. OneMode(m)'
    BY <1>2, <2>1, <2>2 DEF FeedInv, OneMode
  <2>4. \A t \in Tokens : Fed(t, m)'
    <3> SUFFICES ASSUME NEW t \in Tokens, link, want[t] # 0 PROVE Fed(t, m)'
      BY <1>2 DEF Fed
    <3>1. /\ stream'[t] >= stream[t]
          /\ t \in worker.batch \/ stream[t] # 0 => stream'[t] # 0
      BY <1>1, <2>1, FrameEffect
    <3>2. stream[t] >= m => stream'[t] >= m
      <4>1. stream[t] \in 0..3 /\ stream'[t] \in 0..3
        BY <1>1 DEF TypeOK
      <4>2. QED
        BY <3>1, <4>1
    <3>3. Queued(t) => Queued(t)'
      BY <2>1 DEF Queued
    <3>4. WithWorker(t) => WithWorker(t)'
      BY <2>2, <3>1 DEF WithWorker
    <3>5. QED
      BY <1>4, <3>1, <3>2, <3>3, <3>4 DEF FeedInv, Fed
  <2>5. QED
    BY <1>1, <1>2, <2>3, <2>4, ThreadKeeps
<1>8. CASE WorkerSetsMode
  <2>1. worker.pc = "mode" /\ SendSetMode(worker.batch, m) /\ pending' = pending
    BY <1>8 DEF WorkerSetsMode, tables, FeedInv, OneMode
  <2>2. worker'.pc = "check"
    BY <1>3, <1>8 DEF WorkerSetsMode, Workers
  <2>3. OneMode(m)'
    BY <1>2, <2>2 DEF FeedInv, OneMode
  <2>4. \A t \in Tokens : Fed(t, m)'
    <3> SUFFICES ASSUME NEW t \in Tokens, link, want[t] # 0 PROVE Fed(t, m)'
      BY <1>2 DEF Fed
    <3>1. /\ stream[t] >= m => stream'[t] >= m
          /\ stream[t] # 0 => stream'[t] # 0
          /\ t \in worker.batch /\ stream[t] # 0 => stream'[t] >= m
      BY <1>1, <2>1, FrameEffect
    <3>2. Queued(t) => Queued(t)'
      BY <2>1 DEF Queued
    <3>3. WithWorker(t) => stream'[t] >= m
      BY <2>1, <3>1 DEF WithWorker
    <3>4. QED
      BY <1>4, <3>1, <3>2, <3>3 DEF FeedInv, Fed
  <2>5. QED
    BY <1>1, <1>2, <2>3, <2>4, ThreadKeeps
<1>9. QED
  BY <1>5, <1>6, <1>7, <1>8 DEF Worker

LEMMA AroundFeed ==
  ASSUME NEW m, FeedInv(m), Gap \/ HealthCheck \/ Login \/ \E t \in Tokens : Tick(t)
  PROVE  FeedInv(m)'
<1>1. TypeOK'
  BY AroundTypes DEF FeedInv
<1>2. UNCHANGED <<call, index, kept, adapter, want, pending, worker, socket, link, stream>>
  BY DEF Gap, HealthCheck, Login, Tick, proxy, tables
<1>3. OneMessage' /\ (\A c \in Clients : CallOK(c)') /\ \A i \in index' \ kept' : Known(i)'
  BY <1>2 DEF FeedInv, OneMessage, CallOK, Known
<1>4. QED
  BY <1>1, <1>2, <1>3, MessageKeeps

LEMMA StepFeed ==
  ASSUME Serial, NEW m \in 1..3, Modes = {m},
         FeedInv(m), [Next]_vars
  PROVE  FeedInv(m)'
<1>1. CASE UNCHANGED vars
  <2>1. TypeOK'
    BY <1>1, StepTypes DEF FeedInv
  <2>2. UNCHANGED <<call, index, kept, adapter, want, pending, worker, socket, link, stream>>
    BY <1>1 DEF vars
  <2>3. OneMessage' /\ (\A c \in Clients : CallOK(c)') /\ \A i \in index' \ kept' : Known(i)'
    BY <2>2 DEF FeedInv, OneMessage, CallOK, Known
  <2>4. QED
    BY <2>1, <2>2, <2>3, MessageKeeps
<1>2. QED
  BY <1>1, ClientFeed, HandlerFeed, SocketFeed, WorkerFeed, AroundFeed DEF Next

-----------------------------------------------------------------------------

\* At rest nobody holds a token any more, so what is wanted is streamed.
LEMMA FeedServes ==
  ASSUME NEW m \in 1..3, Modes = {m}, FeedInv(m)
  PROVE  ServedAtRest
<1> SUFFICES ASSUME AtRest, NEW i \in index \ kept PROVE stream[i[2]] >= i[3]
  BY DEF ServedAtRest, Served
<1>1. i[2] \in Tokens /\ i[3] = m
  <2>1. i \in Clients \X Tokens \X {m}
    BY DEF FeedInv, TypeOK
  <2>2. QED
    BY <2>1
<1>2. want[i[2]] # 0
  BY DEF FeedInv, Known, AtRest, Calm
<1>3. /\ Fed(i[2], m) /\ link
  BY <1>1 DEF FeedInv, AtRest
<1>4. ~Queued(i[2]) /\ ~WithWorker(i[2]) /\ ~WithSocket(i[2])
  BY DEF AtRest, Alive, Queued, WithWorker, WithSocket
<1>5. QED
  BY <1>1, <1>2, <1>3, <1>4 DEF Fed

\* Whatever messages overlap and modes mix, the tables of the proxy, the adapter, its
\* threads and the cache keep their types: in particular the worker always finds a run
\* to take at the head of a queue that is not empty (_process_subscriptions).
THEOREM FeedTypes == Spec => []TypeOK
<1>1. QED
  BY InitTypes, StepTypes, PTL DEF Spec

\* With messages handled one at a time (_handle_client does so for one client, and
\* for several no lock does) and one mode, what clients were told they are subscribed
\* to is streamed whenever nothing is under way, up to the limit of the connection:
\* the worker (_process_subscriptions) and the reconnect (_on_open) between them lose
\* no token, however often the socket breaks and whoever comes and goes.
THEOREM StreamsAtRest ==
  ASSUME Serial, NEW m \in 1..3, Modes = {m}
  PROVE  Spec => []ServedAtRest
<1>1. Init => FeedInv(m)
  BY InitFeed
<1>2. FeedInv(m) /\ [Next]_vars => FeedInv(m)'
  BY StepFeed
<1>3. FeedInv(m) => ServedAtRest
  BY FeedServes
<1>4. QED
  BY <1>1, <1>2, <1>3, PTL DEF Spec

\* Trade management (market_data_cache's _trade_paused) is never paused under a feed
\* that is up, and always under a stale one, whatever messages overlap: so the tick
\* that ends staleness ends the pause (process_market_data).
THEOREM PausesEnd == Spec => []PauseCanEnd
<1> DEFINE Inv == PauseCanEnd /\ status \in {"disconnected", "authenticated", "stale"}
<1>1. Init => Inv /\ ~paused
  BY DEF Init, PauseCanEnd
<1>2. ASSUME Inv, [Next]_vars PROVE Inv'
  <2>1. \/ UNCHANGED <<status, paused>>
        \/ SetConnected \/ SetDisconnected
        \/ status = "stale" /\ status' = "authenticated" /\ paused' = FALSE
        \/ status' = "stale" /\ paused' = TRUE
    <3>1. CASE UNCHANGED vars
      BY <3>1 DEF vars
    <3>2. ASSUME NEW c \in Clients, Authenticate(c) \/ Leave(c) \/ Handler(c)
          PROVE  SetConnected \/ SetDisconnected \/ UNCHANGED <<status, paused>>
      BY <3>2 DEF Authenticate, Leave, Handler, AuthConnected, AuthFailed, AdapterSubscribe,
         AdapterUnsubscribe, cache
    <3>3. ASSUME NEW c \in Clients, NEW t \in Tokens, NEW m \in Modes,
                 Subscribe(c, t, m) \/ Unsubscribe(c, t, m)
          PROVE  UNCHANGED <<status, paused>>
      BY <3>3 DEF Subscribe, Unsubscribe, cache
    <3>4. ASSUME Open \/ OnOpen \/ Drop \/ \E fatal \in Fatal : Closed(fatal) \/ Fails(fatal)
          PROVE  UNCHANGED <<status, paused>>
      BY <3>4 DEF Open, OnOpen, ResubscribeTokens, ResubscribeMode, Opened, Drop, Closed, Fails,
         Return, cache
    <3>5. ASSUME Worker PROVE UNCHANGED <<status, paused>>
      BY <3>5 DEF Worker, WorkerEmpty, WorkerEnds, WorkerWaits, WorkerDrains, WorkerSubscribes,
         WorkerSetsMode, cache
    <3>6. ASSUME Gap \/ HealthCheck \/ Login \/ \E t \in Tokens : Tick(t)
          PROVE  \/ UNCHANGED <<status, paused>>
                 \/ status = "stale" /\ status' = "authenticated" /\ paused' = FALSE
                 \/ status' = "stale" /\ paused' = TRUE
      BY <3>6 DEF Gap, HealthCheck, Login, Tick, cache
    <3>7. QED
      BY <1>2, <3>1, <3>2, <3>3, <3>4, <3>5, <3>6 DEF Next
  <2>2. CASE SetConnected
    <3>1. status' = "authenticated"
      BY <2>2 DEF SetConnected
    <3>2. CASE status \in {"disconnected", "stale"}
      <4>1. ~paused'
        BY <2>2, <3>2 DEF SetConnected
      <4>2. QED
        BY <3>1, <4>1 DEF PauseCanEnd
    <3>3. CASE status = "authenticated"
      <4>1. paused' = paused /\ ~paused
        BY <1>2, <2>2, <3>3 DEF SetConnected, PauseCanEnd
      <4>2. QED
        BY <3>1, <4>1 DEF PauseCanEnd
    <3>4. QED
      BY <1>2, <3>2, <3>3
  <2>3. QED
    BY <1>2, <2>1, <2>2 DEF PauseCanEnd, SetDisconnected
<1>3. Inv => PauseCanEnd
  OBVIOUS
<1> HIDE DEF Inv
<1>4. QED
  BY <1>1, <1>2, <1>3, PTL DEF Spec
=============================================================================
