----------------------------- MODULE MarketFeed -----------------------------
(***************************************************************************)
(* The live feed: the WebSocket proxy's subscription index                 *)
(* (websocket_proxy/server.py), the Kite streaming adapter with its socket *)
(* thread and its subscription worker                                      *)
(* (broker/zerodha/streaming/zerodha_adapter.py), and the status of the    *)
(* market-data cache that pauses trade management                          *)
(* (services/market_data_cache.py).                                        *)
(*                                                                         *)
(* What a client asked for is known in three places: the proxy's index, the *)
(* adapter's table of wanted tokens, and the broker, which forgets          *)
(* everything when the socket closes.  A message carries one symbol, and a  *)
(* symbol is its token.                                                    *)
(***************************************************************************)
EXTENDS Integers, Sequences, FiniteSets

CONSTANTS
  Clients,    \* WebSocket clients of the proxy
  Tokens,     \* instruments
  Modes,      \* modes asked for: subset of 1..3 (LTP, QUOTE, DEPTH)
  Cap,        \* MAX_INSTRUMENTS_PER_CONNECTION
  MaxTries,   \* RECONNECT_MAX_TRIES
  Serial,     \* TRUE: the proxy handles one message at a time
  Fatal,      \* may a connection end by a fatal authentication error: subset of BOOLEAN
  MaxDrops,   \* bound: times the broker's socket breaks
  MaxKeys,    \* bound: broker tokens issued to the user
  MaxPending  \* bound: entries of the subscribe queue when a message is taken

MaxFailures == 3  \* disconnect cycles the worker sits out
QUOTE == 2        \* the mode Kite gives to a token that is only subscribed

ASSUME ModesAssumption == Modes \subseteq 1..3 /\ Fatal \subseteq BOOLEAN
ASSUME BoundsAssumption ==
  /\ Cap \in Nat /\ MaxTries \in Nat /\ Serial \in BOOLEAN
  /\ MaxDrops \in Nat /\ MaxKeys \in Nat \ {0} /\ MaxPending \in Nat

VARIABLES
  authed,   \* _authenticated_clients
  call,     \* per client, the message its handler is at
  index,    \* _subscription_index, as triples
  kept,     \* entries of the index the adapter does not have: made at one since
            \* replaced, or refused over the limit of the connection (history)
  adapter,  \* the proxy's _adapter
  want,     \* _subscribed_tokens: the mode of each wanted token, or 0
  pending,  \* the subscribe queue
  worker,   \* the subscription worker
  socket,   \* the socket thread: where it is, and what _on_open has still to send
  link,     \* the broker holds the socket open
  stream,   \* the mode in which the broker streams each token, or 0
  status,   \* the cache's connection status
  paused,   \* the cache's _trade_paused
  age,      \* age of the last tick: "never", "fresh", "old"
  key,      \* the broker token on record for the user
  drops     \* times the socket broke (bounded by MaxDrops)

proxy == <<authed, call, index, kept>>
tables == <<want, pending>>
cache == <<status, paused, age>>
vars == <<authed, call, index, kept, adapter, want, pending, worker, socket, link, stream,
          status, paused, age, key, drops>>

-----------------------------------------------------------------------------
(* Helpers *)

Nothing == [t \in Tokens |-> 0]
NoWorker == [pc |-> "none", batch |-> {}, mode |-> 0, fails |-> 0]
NoSocket == [pc |-> "none", todo |-> Nothing, mode |-> 0, reset |-> FALSE, tries |-> 0]
NoAdapter == [key |-> 0, up |-> FALSE, connected |-> FALSE, fatal |-> FALSE]
Handling == [what |-> "none", tok |-> 0, mode |-> 0, key |-> 0]

Adapter == adapter # NoAdapter
Calm == \A c \in Clients : call[c].what = "none"
MayHandle(c) == call[c].what = "none" /\ (Serial => Calm)
Answered(c) == call' = [call EXCEPT ![c] = Handling]
Alive == worker.pc # "none"

\* _ensure_sub_worker
EnsureWorker == worker' = IF Alive THEN worker ELSE [NoWorker EXCEPT !.pc = "check"]

\* What the broker does with the frames of _send_subscribe, _send_set_mode and
\* _send_unsubscribe.  On a broken socket the error is logged and swallowed.
SendSubscribe(toks) ==
  stream' = IF ~link THEN stream
            ELSE [t \in Tokens |-> IF t \in toks /\ stream[t] = 0 THEN QUOTE ELSE stream[t]]
SendSetMode(toks, m) ==
  stream' = IF ~link THEN stream
            ELSE [t \in Tokens |-> IF t \in toks /\ stream[t] # 0 THEN m ELSE stream[t]]
SendUnsubscribe(tok) == stream' = IF ~link THEN stream ELSE [stream EXCEPT ![tok] = 0]

\* MarketDataCache.set_connected
SetConnected ==
  /\ status' = "authenticated"
  /\ paused' = IF status \in {"disconnected", "stale"} THEN FALSE ELSE paused
SetDisconnected == status' = "disconnected" /\ paused' = TRUE

Init ==
  /\ authed = {} /\ call = [c \in Clients |-> Handling] /\ index = {} /\ kept = {}
  /\ adapter = NoAdapter /\ want = Nothing /\ pending = <<>>
  /\ worker = NoWorker /\ socket = NoSocket /\ link = FALSE /\ stream = Nothing
  /\ status = "disconnected" /\ paused = FALSE /\ age = "never"
  /\ key = 1 /\ drops = 0

-----------------------------------------------------------------------------
(* websocket_proxy: _handle_client *)

\* A crashed adapter, or one of another broker token, is disconnected and replaced;
\* the index stays.  The new one is visible to all before it is connected.
Authenticate(c) ==
  /\ MayHandle(c)
  /\ \A d \in Clients : call[d].what # "auth"
  /\ authed' = authed \cup {c}
  /\ IF Adapter /\ ~adapter.fatal /\ adapter.key = key
     THEN UNCHANGED <<call, kept, adapter, want, pending, worker, socket, link, stream>>
     ELSE /\ call' = [call EXCEPT ![c] = [Handling EXCEPT !.what = "auth"]]
          /\ adapter' = [NoAdapter EXCEPT !.key = key] /\ kept' = index
          /\ want' = Nothing /\ pending' = <<>> /\ worker' = NoWorker
          /\ socket' = [NoSocket EXCEPT !.pc = "run"]
          /\ link' = FALSE /\ stream' = Nothing
  /\ UNCHANGED <<index, cache, key, drops>>

\* adapter.connect returns: the listener is started and the cache told.
AuthConnected(c) ==
  /\ call[c].what = "auth" /\ adapter.connected
  /\ adapter' = [adapter EXCEPT !.up = TRUE]
  /\ SetConnected
  /\ Answered(c)
  /\ UNCHANGED <<authed, index, kept, tables, worker, socket, link, stream, age, key, drops>>

\* It raises after ten seconds; the adapter is given up.
AuthFailed(c) ==
  /\ call[c].what = "auth" /\ ~adapter.connected
  /\ adapter' = NoAdapter /\ want' = Nothing /\ pending' = <<>>
  /\ worker' = NoWorker /\ socket' = NoSocket /\ link' = FALSE /\ stream' = Nothing
  /\ SetDisconnected
  /\ Answered(c)
  /\ UNCHANGED <<authed, index, kept, age, key, drops>>

\* The index is updated, and the adapter called in a thread.
Subscribe(c, t, m) ==
  /\ MayHandle(c) /\ Adapter /\ c \in authed
  /\ Len(pending) < MaxPending
  /\ index' = index \cup {<<c, t, m>>} /\ kept' = kept \ {<<c, t, m>>}
  /\ call' = [call EXCEPT ![c] = [what |-> "sub", tok |-> t, mode |-> m, key |-> adapter.key]]
  /\ UNCHANGED <<authed, adapter, tables, worker, socket, link, stream, cache, key, drops>>

\* Mutant: the adapter is told by every client that goes.
UnsubscribeAlways(c, t, m) ==
  /\ MayHandle(c) /\ Adapter /\ c \in authed
  /\ <<c, t, m>> \in index
  /\ index' = index \ {<<c, t, m>>} /\ kept' = kept \ {<<c, t, m>>}
  /\ call' = [call EXCEPT ![c] = [what |-> "unsub", tok |-> t, mode |-> m, key |-> adapter.key]]
  /\ UNCHANGED <<authed, adapter, tables, worker, socket, link, stream, cache, key, drops>>

\* Only the last client of a symbol in this mode calls the adapter.
Unsubscribe(c, t, m) ==
  /\ MayHandle(c) /\ Adapter /\ c \in authed
  /\ <<c, t, m>> \in index
  /\ index' = index \ {<<c, t, m>>} /\ kept' = kept \ {<<c, t, m>>}
  /\ IF \E d \in Clients : <<d, t, m>> \in index' THEN UNCHANGED call
     ELSE call' = [call EXCEPT ![c] = [what |-> "unsub", tok |-> t, mode |-> m, key |-> adapter.key]]
  /\ UNCHANGED <<authed, adapter, tables, worker, socket, link, stream, cache, key, drops>>

\* The client's socket closes: the index forgets it, the adapter is not told.
Leave(c) ==
  /\ MayHandle(c) /\ c \in authed
  /\ authed' = authed \ {c}
  /\ index' = {i \in index : i[1] # c} /\ kept' = kept \cap index'
  /\ UNCHANGED <<call, adapter, tables, worker, socket, link, stream, cache, key, drops>>

-----------------------------------------------------------------------------
(* ZerodhaAdapter: subscribe and unsubscribe, in a thread of the executor *)

Wanted == {t \in Tokens : want[t] # 0}

\* The call of an adapter that has been replaced reaches nobody.  Over the limit the
\* token is dropped with a line in the log, and the client told of success all the same.
Replaced(c) == call[c].key # adapter.key

AdapterSubscribe(c) ==
  /\ call[c].what = "sub"
  /\ LET t == call[c].tok
         m == call[c].mode
         full == Cardinality(Wanted \cup {t}) > Cap
     IN  IF Replaced(c) THEN UNCHANGED <<kept, tables, worker>>
         ELSE IF full THEN /\ want' = [want EXCEPT ![t] = 0]
                           /\ kept' = kept \cup (index \cap {<<c, t, m>>})
                           /\ UNCHANGED <<pending, worker>>
         ELSE /\ kept' = kept
              /\ want' = [want EXCEPT ![t] = IF m > @ THEN m ELSE @]
              /\ pending' = Append(pending, <<t, m>>)
              /\ EnsureWorker
  /\ Answered(c)
  /\ UNCHANGED <<authed, index, adapter, socket, link, stream, cache, key, drops>>

\* The token is dropped, whatever its mode.
AdapterUnsubscribe(c) ==
  /\ call[c].what = "unsub"
  /\ IF Replaced(c) THEN UNCHANGED <<want, stream>>
     ELSE /\ want' = [want EXCEPT ![call[c].tok] = 0]
          /\ IF adapter.connected THEN SendUnsubscribe(call[c].tok) ELSE UNCHANGED stream
  /\ Answered(c)
  /\ UNCHANGED <<authed, index, kept, adapter, pending, worker, socket, link, cache, key, drops>>

-----------------------------------------------------------------------------
(* The socket thread: _run_ws, _on_open, _on_close, _on_error *)

\* Mutant: nothing is subscribed again.
OpenForgets ==
  /\ socket.pc = "run"
  /\ link' = TRUE /\ stream' = Nothing
  /\ adapter' = [adapter EXCEPT !.connected = TRUE]
  /\ socket' = [socket EXCEPT !.pc = "opening", !.todo = Nothing, !.reset = TRUE]
  /\ UNCHANGED <<proxy, tables, worker, cache, key, drops>>

\* The handshake succeeds.  _on_open marks the adapter connected and takes the
\* table of wanted tokens.
Open ==
  /\ socket.pc = "run"
  /\ link' = TRUE /\ stream' = Nothing
  /\ adapter' = [adapter EXCEPT !.connected = TRUE]
  /\ socket' = [socket EXCEPT !.pc = "opening", !.todo = want, !.reset = TRUE]
  /\ UNCHANGED <<proxy, tables, worker, cache, key, drops>>

\* It subscribes them again mode by mode: first the tokens, then their mode.
ResubscribeTokens ==
  /\ socket.pc = "opening"
  /\ \E m \in {socket.todo[t] : t \in Tokens} \ {0} :
       /\ SendSubscribe({t \in Tokens : socket.todo[t] = m})
       /\ socket' = [socket EXCEPT !.pc = "setting", !.mode = m]
  /\ UNCHANGED <<proxy, adapter, tables, worker, link, cache, key, drops>>

ResubscribeMode ==
  /\ socket.pc = "setting"
  /\ SendSetMode({t \in Tokens : socket.todo[t] = socket.mode}, socket.mode)
  /\ socket' = [socket EXCEPT !.pc = "opening", !.mode = 0,
                  !.todo = [t \in Tokens |-> IF @[t] = socket.mode THEN 0 ELSE @[t]]]
  /\ UNCHANGED <<proxy, adapter, tables, worker, link, cache, key, drops>>

Opened ==
  /\ socket.pc = "opening" /\ socket.todo = Nothing
  /\ socket' = [socket EXCEPT !.pc = "serving"]
  /\ EnsureWorker
  /\ UNCHANGED <<proxy, adapter, tables, link, stream, cache, key, drops>>

\* The broker, the network or _health_loop closes the socket.
Drop ==
  /\ link /\ drops < MaxDrops
  /\ link' = FALSE /\ stream' = Nothing /\ drops' = drops + 1
  /\ UNCHANGED <<proxy, adapter, tables, worker, socket, cache, key>>

\* run_forever returns: after a fatal authentication error, or with the budget of
\* attempts used up, the thread ends; an attempt that had connected resets it.
Return(fatal) ==
  LET tries == IF socket.reset THEN 1 ELSE socket.tries + 1
  IN  /\ adapter' = [adapter EXCEPT !.connected = FALSE, !.fatal = fatal]
      /\ socket' = [NoSocket EXCEPT !.pc = IF fatal \/ tries > MaxTries THEN "dead" ELSE "run",
                                    !.tries = tries]
      /\ UNCHANGED <<proxy, tables, worker, link, stream, cache, key, drops>>

Closed(fatal) == socket.pc = "serving" /\ ~link /\ Return(fatal)
Fails(fatal) == socket.pc = "run" /\ Return(fatal)

-----------------------------------------------------------------------------
(* The subscription worker: _process_subscriptions *)

\* Nothing is pending: the thread is about to end, and still counts as alive.
WorkerEmpty ==
  /\ worker.pc = "check" /\ pending = <<>>
  /\ worker' = [worker EXCEPT !.pc = "leaving"]
  /\ UNCHANGED <<proxy, adapter, tables, socket, link, stream, cache, key, drops>>

WorkerEnds ==
  /\ worker.pc = "leaving"
  /\ worker' = NoWorker
  /\ UNCHANGED <<proxy, adapter, tables, socket, link, stream, cache, key, drops>>

\* Mutant: one cycle more.
WorkerWaitsLonger ==
  /\ worker.pc = "check" /\ pending # <<>> /\ ~adapter.connected
  /\ worker' = IF worker.fails > MaxFailures THEN [worker EXCEPT !.pc = "leaving"]
               ELSE [worker EXCEPT !.fails = @ + 1]
  /\ UNCHANGED <<proxy, adapter, tables, socket, link, stream, cache, key, drops>>

\* It sits out a few disconnect cycles and gives up.
WorkerWaits ==
  /\ worker.pc = "check" /\ pending # <<>> /\ ~adapter.connected
  /\ worker' = IF worker.fails = MaxFailures THEN [worker EXCEPT !.pc = "leaving"]
               ELSE [worker EXCEPT !.fails = @ + 1]
  /\ UNCHANGED <<proxy, adapter, tables, socket, link, stream, cache, key, drops>>

\* The entries at the head that have one mode are taken.
HeadRun == CHOOSE n \in 1..Len(pending) :
  /\ \A i \in 1..n : pending[i][2] = pending[1][2]
  /\ n < Len(pending) => pending[n + 1][2] # pending[1][2]

WorkerDrains ==
  /\ worker.pc = "check" /\ pending # <<>> /\ adapter.connected
  /\ worker' = [pc |-> "send", batch |-> {pending[i][1] : i \in 1..HeadRun},
                mode |-> pending[1][2], fails |-> 0]
  /\ pending' = SubSeq(pending, HeadRun + 1, Len(pending))
  /\ UNCHANGED <<proxy, adapter, want, socket, link, stream, cache, key, drops>>

WorkerSubscribes ==
  /\ worker.pc = "send"
  /\ SendSubscribe(worker.batch)
  /\ worker' = [worker EXCEPT !.pc = "mode"]
  /\ UNCHANGED <<proxy, adapter, tables, socket, link, cache, key, drops>>

WorkerSetsMode ==
  /\ worker.pc = "mode"
  /\ SendSetMode(worker.batch, worker.mode)
  /\ worker' = [worker EXCEPT !.pc = "check", !.batch = {}, !.mode = 0]
  /\ UNCHANGED <<proxy, adapter, tables, socket, link, cache, key, drops>>

-----------------------------------------------------------------------------
(* The cache, and the environment *)

\* Mutant: the tick restores the status and forgets the pause.
TickKeepsPause(t) ==
  /\ link /\ stream[t] # 0 /\ want[t] # 0 /\ socket.pc = "serving" /\ adapter.up
  /\ age' = "fresh"
  /\ status' = IF status = "stale" THEN "authenticated" ELSE status
  /\ UNCHANGED <<proxy, adapter, tables, worker, socket, link, stream, paused, key, drops>>

\* A tick of a token the adapter still knows reaches process_market_data: it ends
\* a pause that staleness began.
Tick(t) ==
  /\ link /\ stream[t] # 0 /\ want[t] # 0 /\ socket.pc = "serving" /\ adapter.up
  /\ age' = "fresh"
  /\ IF status = "stale" THEN status' = "authenticated" /\ paused' = FALSE
     ELSE UNCHANGED <<status, paused>>
  /\ UNCHANGED <<proxy, adapter, tables, worker, socket, link, stream, key, drops>>

\* MAX_DATA_GAP_SECONDS pass without a tick.
Gap ==
  /\ age = "fresh"
  /\ age' = "old"
  /\ UNCHANGED <<proxy, adapter, tables, worker, socket, link, stream, status, paused, key, drops>>

\* MarketDataCache._health_loop
HealthCheck ==
  /\ status = "authenticated" /\ age = "old"
  /\ status' = "stale" /\ paused' = TRUE
  /\ UNCHANGED <<proxy, adapter, tables, worker, socket, link, stream, age, key, drops>>

\* The user logs in at the broker again.
Login ==
  /\ key < MaxKeys
  /\ key' = key + 1
  /\ UNCHANGED <<proxy, adapter, tables, worker, socket, link, stream, cache, drops>>

-----------------------------------------------------------------------------

Worker == WorkerEmpty \/ WorkerEnds \/ WorkerWaits \/ WorkerDrains
          \/ WorkerSubscribes \/ WorkerSetsMode
OnOpen == ResubscribeTokens \/ ResubscribeMode \/ Opened
Handler(c) == AuthConnected(c) \/ AuthFailed(c) \/ AdapterSubscribe(c) \/ AdapterUnsubscribe(c)

Next ==
  \/ \E c \in Clients : Authenticate(c) \/ Leave(c) \/ Handler(c)
  \/ \E c \in Clients, t \in Tokens, m \in Modes : Subscribe(c, t, m) \/ Unsubscribe(c, t, m)
  \/ Open \/ OnOpen \/ Drop
  \/ \E fatal \in Fatal : Closed(fatal) \/ Fails(fatal)
  \/ Worker
  \/ \E t \in Tokens : Tick(t)
  \/ Gap \/ HealthCheck \/ Login

Spec == Init /\ [][Next]_vars

\* The adapter's threads run; an attempt to connect ends, well or not.
Fairness ==
  /\ WF_vars(Worker) /\ WF_vars(OnOpen)
  /\ WF_vars(Open \/ \E fatal \in Fatal : Fails(fatal))
  /\ WF_vars(\E fatal \in Fatal : Closed(fatal))

FairSpec == Spec /\ Fairness

-----------------------------------------------------------------------------
(* Properties *)

Calls == {Handling, [Handling EXCEPT !.what = "auth"]}
         \cup [what : {"sub", "unsub"}, tok : Tokens, mode : Modes, key : 0..MaxKeys]
Adapters == [key : 0..MaxKeys, up : BOOLEAN, connected : BOOLEAN, fatal : BOOLEAN]
Workers == [pc : {"none", "check", "leaving", "send", "mode"}, batch : SUBSET Tokens,
            mode : Modes \cup {0}, fails : 0..MaxFailures]
Sockets == [pc : {"none", "run", "opening", "setting", "serving", "dead"},
            todo : [Tokens -> 0..3], mode : 0..3, reset : BOOLEAN, tries : Nat]

TypeOK ==
  /\ authed \subseteq Clients /\ index \subseteq Clients \X Tokens \X Modes /\ kept \subseteq index
  /\ call \in [Clients -> Calls] /\ adapter \in Adapters
  /\ want \in [Tokens -> 0..3] /\ stream \in [Tokens -> 0..3]
  /\ pending \in Seq(Tokens \X Modes)
  /\ worker \in Workers /\ socket \in Sockets
  /\ link \in BOOLEAN /\ key \in 0..MaxKeys /\ drops \in Nat
  /\ status \in {"disconnected", "authenticated", "stale"} /\ paused \in BOOLEAN
  /\ age \in {"never", "fresh", "old"}

\* When nothing is under way - no message, no pending subscription, no worker, and
\* the socket served - each symbol in the proxy's index is streamed in the mode
\* its client was told it has ("status": "success" of the subscribe ack).  Excepted
\* are those an adapter knew that has been replaced, and those over the limit.
AtRest == Calm /\ Adapter /\ ~Alive /\ pending = <<>> /\ socket.pc = "serving" /\ link
Served(entries) == \A i \in entries : stream[i[2]] >= i[3]
ServedAtRest == AtRest => Served(index \ kept)

\* The same of every symbol, though the adapter was replaced.
AllServedAtRest == AtRest => Served(index)

\* Trade management is paused only while there is no feed, never under a feed that
\* is up: a tick ends a pause only when the status is stale (process_market_data).
PauseCanEnd ==
  /\ paused => status \in {"disconnected", "stale"}
  /\ status = "stale" => paused

\* When the socket breaks, what the adapter wanted is streamed again, unless it is
\* unsubscribed, the adapter replaced or its socket given up (_on_open:
\* "Re-subscribe on reconnect").
WantedComesBack ==
  \A t \in Tokens : want[t] # 0 /\ ~link ~> stream[t] # 0 \/ want[t] = 0 \/ socket.pc = "dead"

\* No pending subscription waits for good ("caller will respawn us when more
\* arrive", _process_subscriptions).
PendingIsDrained == pending # <<>> ~> pending = <<>> \/ socket.pc = "dead"
=============================================================================
