--------------------------- MODULE PluginLifecycle ---------------------------
(***************************************************************************)
(* The life of the plugin in the broker process: mosquitto_plugin_init     *)
(* (plugin/main.go) with LoadConfig, ConnectNATS and BuildRuntime          *)
(* (runtime_init.go), registerCallbacks, the callbacks' use of the runtime *)
(* and mosquitto_plugin_cleanup, all on the broker thread, against the     *)
(* NATS goroutine that runs FanoutConsumer.handle and the worker pool that *)
(* settles queued events.  The publisher is the abstract queue that        *)
(* AsyncPublisher implements.  A call to a library may fail wherever the   *)
(* code allows for it.                                                     *)
(***************************************************************************)
EXTENDS Config, Sequences, FiniteSets

CONSTANTS Jobs, MinBacklog, MaxBacklog, \* see BestEffortQueue
          OptionSets,                   \* the configuration files considered
          MaxChannel,                   \* largest buffer make(chan) can allocate
          MaxPending,                   \* bound on undelivered invalidations
          None

ASSUME LifecycleAssumption ==
  /\ MaxChannel \in Nat /\ MaxPending \in Nat
  /\ OptionSets \subseteq [Strings \cup Numbers -> Int \cup {Blank, Text}]
  /\ \A o \in OptionSets, s \in Strings : o[s] \in {Blank, Text}

VARIABLES
  pc,                \* what the broker thread does next
  opts, cfg,         \* the options, and the Config made of them
  nats,              \* the NATS connection: "none", "open", "closed"
  runtime, natsConn, \* main.go's two pointers: set or nil
  registered,        \* how many of the Callbacks the broker has
  db, pebbleDB,      \* Pebble: "none", "open", "closed"; the store's pointer
  sub,               \* the subscription: "none", "active", "draining", "closed"
  pending, handler,  \* its undelivered messages, and the step handle() is at
  fate, phase,       \* the publisher, as a BestEffortQueue
  drained,           \* history: how Drain ended, "no", "true", "false"
  late,              \* history: jobs a worker took to the closed connection
  cause,             \* history: the call that made init fail
  crash              \* "no", or what brought the process down

Queue == INSTANCE BestEffortQueue

config == <<opts, cfg>>
pointers == <<runtime, natsConn, registered>>
store == <<db, pebbleDB>>
fan == <<sub, pending, handler>>
queue == <<fate, phase>>
history == <<drained, late, cause>>
vars == <<pc, config, nats, pointers, store, fan, queue, history, crash>>

Callbacks == <<"basic_auth", "acl_check", "disconnect", "message">>

Init == /\ pc = "load" /\ opts \in OptionSets /\ cfg = None
        /\ nats = "none" /\ runtime = FALSE /\ natsConn = FALSE /\ registered = 0
        /\ db = "none" /\ pebbleDB = FALSE
        /\ sub = "none" /\ pending = 0 /\ handler = "idle"
        /\ Queue!Init
        /\ drained = "no" /\ late = {} /\ cause = "none" /\ crash = "no"

\* The broker thread, in a process that has not crashed, goes from s to t.
Go(s, t) == crash = "no" /\ pc = s /\ pc' = t

-------------------------------------------------------------------------------
\* mosquitto_plugin_init and BuildRuntime.
InitLoadConfig ==
  /\ \/ Loads(opts) /\ Go("load", "connect") /\ cfg' = LoadConfig(opts) /\ UNCHANGED cause
     \/ ~Loads(opts) /\ Go("load", "failed") /\ cause' = "options" /\ UNCHANGED cfg
  /\ UNCHANGED <<opts, nats, pointers, store, fan, queue, drained, late, crash>>

InitConnectNATS ==
  /\ \/ Go("connect", "publisher") /\ nats' = "open" /\ natsConn' = TRUE /\ UNCHANGED cause
     \/ Go("connect", "failed") /\ cause' = "nats" /\ UNCHANGED <<nats, natsConn>>
  /\ UNCHANGED <<config, runtime, registered, store, fan, queue, drained, late, crash>>

\* NewAsyncPublisher and Start; make(chan) panics on a size it cannot allocate.
InitPublisher ==
  /\ \/ /\ Go("publisher", "authClient")
        /\ PublisherAccepts(cfg) /\ cfg.BufferSize <= MaxChannel
        /\ Queue!Open /\ UNCHANGED <<cause, crash>>
     \/ /\ Go("publisher", "publisher")
        /\ PublisherAccepts(cfg) /\ cfg.BufferSize > MaxChannel
        /\ crash' = "makechan" /\ UNCHANGED <<cause, queue>>
     \/ /\ Go("publisher", "buildFailed") /\ ~PublisherAccepts(cfg)
        /\ cause' = "publisher" /\ UNCHANGED <<queue, crash>>
  /\ UNCHANGED <<config, nats, pointers, store, fan, drained, late>>

InitAuthClient ==
  /\ \/ Go("authClient", "pebble") /\ AuthClientAccepts(cfg) /\ UNCHANGED cause
     \/ Go("authClient", "buildDrain") /\ ~AuthClientAccepts(cfg) /\ cause' = "authClient"
  /\ UNCHANGED <<config, nats, pointers, store, fan, queue, drained, late, crash>>

\* NewTieredAuthStore: Pebble if there is a path, MinIO if there is an endpoint.
InitPebble ==
  /\ \/ Go("pebble", "minio") /\ cfg.CacheL1Path # Blank
        /\ db' = "open" /\ pebbleDB' = TRUE /\ UNCHANGED cause
     \/ Go("pebble", "buildDrain") /\ cfg.CacheL1Path # Blank
        /\ cause' = "pebble" /\ UNCHANGED store
     \/ Go("pebble", "minio") /\ cfg.CacheL1Path = Blank /\ UNCHANGED <<store, cause>>
  /\ UNCHANGED <<config, nats, pointers, fan, queue, drained, late, crash>>

InitMinio ==
  /\ \/ Go("minio", "fanout") /\ UNCHANGED cause
     \/ Go("minio", "buildDrain") /\ cfg.CacheL2Endpoint # Blank /\ cause' = "minio"
  /\ UNCHANGED <<config, nats, pointers, store, fan, queue, drained, late, crash>>

\* NewFanoutConsumer and Start: without a subscription init goes on.
InitFanout ==
  /\ Go("fanout", "expose") /\ sub' \in {"active", "none"}
  /\ UNCHANGED <<config, nats, pointers, store, pending, handler, queue, history, crash>>

InitStoreRuntime ==
  /\ Go("expose", "register") /\ runtime' = TRUE /\ natsConn' = TRUE
  /\ UNCHANGED <<config, nats, registered, store, fan, queue, history, crash>>

\* mutant: one registration too many
MutRegister ==
  /\ \/ registered <= Len(Callbacks) /\ Go("register", "register")
        /\ registered' = registered + 1 /\ UNCHANGED cause
     \/ registered > Len(Callbacks) /\ Go("register", "ready") /\ UNCHANGED <<registered, cause>>
  /\ UNCHANGED <<config, nats, runtime, natsConn, store, fan, queue, drained, late, crash>>

\* registerCallbacks, one registration at a time.
Register ==
  /\ \/ registered < Len(Callbacks) /\ Go("register", "register")
        /\ registered' = registered + 1 /\ UNCHANGED cause
     \/ registered < Len(Callbacks) /\ Go("register", "registerDrain")
        /\ cause' = "register" /\ UNCHANGED registered
     \/ registered = Len(Callbacks) /\ Go("register", "ready") /\ UNCHANGED <<registered, cause>>
  /\ UNCHANGED <<config, nats, runtime, natsConn, store, fan, queue, drained, late, crash>>

\* mutant: Drain waits for the workers however long they take
MutDrain(s, t) ==
  /\ \/ /\ phase = "open" /\ Queue!Seal /\ Go(s, s) /\ UNCHANGED drained
     \/ /\ phase = "sealed" /\ Queue!Backlog = {} /\ Go(s, t) /\ drained' = "true"
        /\ UNCHANGED queue
  /\ UNCHANGED <<config, nats, pointers, store, fan, late, cause, crash>>

\* AsyncPublisher.Drain: the channel is closed, then the workers finish or the
\* timer fires; its answer is ignored.
Drain(s, t) ==
  /\ \/ /\ phase = "open" /\ Queue!Seal /\ Go(s, s) /\ UNCHANGED drained
     \/ /\ phase = "sealed" /\ Queue!Backlog = {} /\ Go(s, t) /\ drained' = "true"
        /\ UNCHANGED queue
     \/ /\ phase = "sealed" /\ Go(s, t) /\ drained' = "false" /\ UNCHANGED queue
  /\ UNCHANGED <<config, nats, pointers, store, fan, late, cause, crash>>

\* nc.Close() drops the subscription and what it has not delivered.
CloseNATS == /\ nats' = "closed" /\ pending' = 0
             /\ sub' = IF sub = "none" THEN "none" ELSE "closed"
             /\ UNCHANGED handler

\* mutant: the connection is left open
MutInitBuildFailed ==
  /\ Go("buildFailed", "failed")
  /\ UNCHANGED <<config, nats, pointers, store, fan, queue, history, crash>>

\* BuildRuntime failed: natsConn keeps pointing at the closed connection.
InitBuildFailed ==
  /\ Go("buildFailed", "failed") /\ CloseNATS
  /\ UNCHANGED <<config, pointers, store, queue, history, crash>>

\* mutant: the pointer to the runtime is left behind
MutInitRegisterFailed ==
  /\ Go("registerFailed", "failed") /\ CloseNATS /\ natsConn' = FALSE
  /\ UNCHANGED <<config, runtime, registered, store, queue, history, crash>>
\* mutant: the store is closed as well
MutInitRegisterCloses ==
  /\ Go("registerFailed", "failed") /\ CloseNATS /\ runtime' = FALSE /\ natsConn' = FALSE
  /\ db' = "closed"
  /\ UNCHANGED <<config, registered, pebbleDB, queue, history, crash>>

\* registerCallbacks failed: neither the callbacks registered so far nor the
\* store and the fanout consumer are taken back.
InitRegisterFailed ==
  /\ Go("registerFailed", "failed") /\ CloseNATS /\ runtime' = FALSE /\ natsConn' = FALSE
  /\ UNCHANGED <<config, registered, store, queue, history, crash>>

InitStep == \/ InitLoadConfig \/ InitConnectNATS \/ InitPublisher \/ InitAuthClient
            \/ InitPebble \/ InitMinio \/ InitFanout \/ InitStoreRuntime \/ Register
            \/ Drain("buildDrain", "buildFailed") \/ InitBuildFailed
            \/ Drain("registerDrain", "registerFailed") \/ InitRegisterFailed

-------------------------------------------------------------------------------
\* The broker runs callbacks whenever it is in neither init nor cleanup.
Serving == pc \in {"ready", "failed"}

\* A callback that loads a runtime may enqueue an event; the ACL check never
\* does, and without a runtime every callback returns at once.
Callback ==
  /\ crash = "no" /\ Serving /\ runtime
  /\ \E i \in 1 .. registered : Callbacks[i] # "acl_check"
  /\ \E j \in Jobs : Queue!Accept(j) \/ Queue!Refuse(j)
  /\ UNCHANGED <<pc, config, nats, pointers, store, fan, history, crash>>

\* mosquitto_plugin_cleanup.
Cleanup ==
  /\ Serving
  /\ \/ runtime /\ Go(pc, "stop") /\ registered' = 0
     \/ ~runtime /\ Go(pc, "done") /\ UNCHANGED registered
  /\ UNCHANGED <<config, nats, runtime, natsConn, store, fan, queue, history, crash>>

\* FanoutConsumer.Stop: Drain of the subscription only starts the draining.
\* Without a subscription, or when Drain fails, which is only logged, Stop
\* changes nothing and cleanup goes on.
CleanupStop ==
  /\ Go("stop", "close")
  /\ \/ sub = "active" /\ sub' = "draining"
     \/ UNCHANGED sub
  /\ UNCHANGED <<config, nats, pointers, store, pending, handler, queue, history, crash>>

\* TieredAuthStore.Close: Pebble is closed, then the pointer is cleared.
CleanupClose ==
  /\ \/ pebbleDB /\ Go("close", "forget") /\ db' = "closed"
     \/ ~pebbleDB /\ Go("close", "drain") /\ UNCHANGED db
  /\ UNCHANGED <<config, nats, pointers, pebbleDB, fan, queue, history, crash>>

\* mutant: the connection is closed before the publisher is drained
MutCleanupForget ==
  /\ Go("forget", "drain") /\ pebbleDB' = FALSE /\ CloseNATS
  /\ UNCHANGED <<config, pointers, db, queue, history, crash>>

CleanupForget ==
  /\ Go("forget", "drain") /\ pebbleDB' = FALSE
  /\ UNCHANGED <<config, nats, pointers, db, fan, queue, history, crash>>

CleanupEnd ==
  /\ Go("disconnect", "done")
  /\ \/ natsConn /\ CloseNATS
     \/ ~natsConn /\ UNCHANGED <<nats, fan>>
  /\ runtime' = FALSE /\ natsConn' = FALSE
  /\ UNCHANGED <<config, registered, store, queue, history, crash>>

CleanupStep == \/ CleanupStop \/ CleanupClose \/ CleanupForget
               \/ Drain("drain", "disconnect") \/ CleanupEnd

-------------------------------------------------------------------------------
\* A worker hands a job to NATS; on a closed connection that fails.
Settle(j) ==
  /\ crash = "no" /\ Queue!Settle(j)
  /\ nats = "closed" => fate'[j] = "failed"
  /\ late' = IF nats = "closed" THEN late \cup {j} ELSE late
  /\ UNCHANGED <<pc, config, nats, pointers, store, fan, drained, cause, crash>>

\* The NATS goroutine: handle() and, inside it, Invalidate.
Deliver == /\ crash = "no" /\ nats = "open" /\ sub = "active" /\ pending < MaxPending
           /\ pending' = pending + 1
           /\ UNCHANGED <<pc, config, nats, pointers, store, sub, handler, queue, history, crash>>

\* The next message; a malformed one or one without an asset ends here.
Handle == /\ crash = "no" /\ handler = "idle" /\ pending > 0
          /\ pending' = pending - 1 /\ handler' \in {"idle", "check"}
          /\ UNCHANGED <<pc, config, nats, pointers, store, sub, queue, history, crash>>

InvalidateCheck ==
  /\ crash = "no" /\ handler = "check"
  /\ handler' = IF pebbleDB THEN "call" ELSE "idle"
  /\ UNCHANGED <<pc, config, nats, pointers, store, sub, pending, queue, history, crash>>

\* The pointer is read again; Delete panics on a nil or closed Pebble.
InvalidateCall ==
  /\ crash = "no" /\ handler = "call"
  /\ \/ pebbleDB /\ db = "open" /\ handler' = "delete" /\ UNCHANGED crash
     \/ ~(pebbleDB /\ db = "open") /\ crash' = "invalidate" /\ UNCHANGED handler
  /\ UNCHANGED <<pc, config, nats, pointers, store, sub, pending, queue, history>>

\* Delete returns; a Close that came in between may make it panic.
InvalidateReturn ==
  /\ crash = "no" /\ handler = "delete"
  /\ \/ handler' = "idle" /\ UNCHANGED crash
     \/ db = "closed" /\ crash' = "invalidate" /\ UNCHANGED handler
  /\ UNCHANGED <<pc, config, nats, pointers, store, sub, pending, queue, history>>

\* Nothing left to deliver: the client library ends the draining.
SubscriptionDrained ==
  /\ crash = "no" /\ sub = "draining" /\ pending = 0 /\ handler = "idle"
  /\ sub' = "closed"
  /\ UNCHANGED <<pc, config, nats, pointers, store, pending, handler, queue, history, crash>>

FanoutStep == \/ Handle \/ InvalidateCheck \/ InvalidateCall \/ InvalidateReturn
              \/ SubscriptionDrained

Next == \/ InitStep \/ Callback \/ Cleanup \/ CleanupStep
        \/ \E j \in Jobs : Settle(j)
        \/ Deliver \/ FanoutStep

Spec == Init /\ [][Next]_vars

\* The broker thread keeps running, in library calls too; workers and handlers
\* may stand still for ever.
FairSpec == Spec /\ WF_vars(InitStep) /\ WF_vars(CleanupStep)

-------------------------------------------------------------------------------
Configs == [NatsURL : {Text}, AuthURL : {Text}, AuthAPIKey : {Text},
            AuthTimeout : Int, WorkerPoolSize : Int, BufferSize : Int,
            CacheL1Path : {Text, DefaultCacheL1Path}, CacheL1TTL : Int,
            CacheL2Endpoint : {Blank, Text}]

InitPoints == {"load", "connect", "publisher", "authClient", "pebble", "minio", "fanout",
               "expose", "register", "buildDrain", "buildFailed", "registerDrain",
               "registerFailed"}
CleanupPoints == {"stop", "close", "forget", "drain", "disconnect"}

TypeOK ==
  /\ pc \in InitPoints \cup CleanupPoints \cup {"ready", "failed", "done"}
  /\ opts \in OptionSets /\ cfg \in Configs \cup {None}
  /\ nats \in {"none", "open", "closed"}
  /\ runtime \in BOOLEAN /\ natsConn \in BOOLEAN /\ registered \in 0 .. Len(Callbacks)
  /\ db \in {"none", "open", "closed"} /\ pebbleDB \in BOOLEAN
  /\ sub \in {"none", "active", "draining", "closed"}
  /\ pending \in 0 .. MaxPending /\ handler \in {"idle", "check", "call", "delete"}
  /\ fate \in [Jobs -> {"new", "refused", "queued", "published", "failed"}]
  /\ phase \in {"new", "open", "sealed"}
  /\ drained \in {"no", "true", "false"} /\ late \subseteq Jobs
  /\ cause \in {"none", "options", "nats", "publisher", "authClient", "pebble", "minio", "register"}
  /\ crash \in {"no", "makechan", "invalidate"}

\* A callback that finds a runtime finds all of it working, with the connection
\* open, the publisher accepting and the store's L1 open; in particular the
\* callbacks a half-way failed registration leaves behind find none.
CallbackSeesWholeRuntime ==
  Serving /\ registered > 0 /\ runtime =>
     nats = "open" /\ natsConn /\ phase = "open" /\ pebbleDB /\ db = "open"

\* When init reports failure nothing of the plugin is at work any more: no
\* connection, no subscription, no accepting or unfinished publisher.  Only
\* Pebble can be left open, by a failure after it was opened.
FailedInitIsInert ==
  pc = "failed" => /\ nats # "open" /\ sub \in {"none", "closed"} /\ ~runtime
                   /\ phase # "open" /\ Queue!Backlog = {}
                   /\ db = "open" => cause \in {"minio", "register"}

\* An invalidation brings the broker down only once cleanup has closed the
\* store under it, never while the plugin serves nor when init fails.
CrashOnlyAfterClose ==
  crash = "invalidate" => pc \in {"forget", "drain", "disconnect", "done"}

\* Cleanup closes the connection on an event still queued only if Drain's
\* timer fired: in an orderly shutdown every accepted event was handed to the
\* NATS client while its connection was open.  What the client itself still
\* buffers for a lost server when it is closed is the library's to lose.
LateOnlyAfterTimeout == late # {} => drained = "false"

\* The positive number an option asks for, in its unit, or the default.
Asked(o, unit, default) ==
  IF opts[o] \in {Blank, Text} THEN default
  ELSE IF opts[o] \in 1 .. MaxInt THEN opts[o] * unit ELSE default

\* Whatever the integer options hold, NewAsyncPublisher and NewAuthClient do
\* not refuse the Config: LoadConfig replaces what is malformed, zero, negative
\* or too wide.  A buffer_size that an int holds but make(chan) does not is
\* taken as it stands: it, and nothing else, brings the process down in init,
\* and no publisher ever comes of it.
OnlyBufferSizeStopsBoot ==
  LET buffer == Asked("buffer_size", 1, DefaultBufferSize) IN
  /\ cause \notin {"publisher", "authClient"}
  /\ crash = "makechan" => buffer > MaxChannel
  /\ phase # "new" => buffer <= MaxChannel

\* The durations are the ones written in the options, or the defaults, as long
\* as 64 bits hold them; and even when they wrap round, the HTTP client has a
\* timeout and L1 entries expire.  Without a wrap every CONNECT has a deadline.
DurationsAsWritten ==
  cfg # None =>
     LET timeout == Asked("auth_timeout_seconds", Second, DefaultAuthTimeout)
         ttl == Asked("cache_l1_ttl_minutes", Minute, DefaultCacheL1TTL) IN
     /\ HTTPTimeout(cfg) > 0 /\ L1Expiry(cfg) > 0
     /\ timeout <= MaxInt => HasDeadline(cfg) /\ HTTPTimeout(cfg) = timeout
     /\ ttl <= MaxInt => L1Expiry(cfg) = ttl

\* Init and cleanup come to an end, though workers and handlers may never move
\* again and any library call may fail: Drain's timer is the only thing they
\* wait for.  That the calls the broker thread makes itself, ConnectNATS and
\* Pebble's Open and Close among them, return is assumed (FairSpec).
BrokerThreadReturns ==
  pc \in InitPoints \cup CleanupPoints ~> Serving \/ pc = "done" \/ crash # "no"

\* The plugin as the broker sees it.
Status == IF crash # "no" THEN "crashed"
          ELSE IF pc \in InitPoints THEN "starting"
          ELSE IF pc \in CleanupPoints THEN "stopping"
          ELSE CASE pc = "ready" -> "serving" [] pc = "failed" -> "refused"
                 [] pc = "done" -> "stopped"

Contract == INSTANCE PluginContract WITH status <- Status

\* Every behaviour of init, callbacks, cleanup, workers and handlers is one of
\* the plugin the broker was promised: in particular callbacks left behind by a
\* failed registration take no event, and a worker that outlives cleanup
\* publishes nothing.  The events are those offered to Enqueue; the callbacks
\* discard oversized and unroutable ones before that (PluginRuntime).
ImplementsPluginContract == Contract!Spec

\* fanout_consumer.go:45: "Stop  ->  unsubscribe + drain in-flight handlers".
StopDrainsHandlers == pc = "close" => handler = "idle"
===============================================================================
