------------------------- MODULE PluginLifecycleProofs -------------------------
(***************************************************************************)
(* The safety of init, serving and cleanup for every configuration file,   *)
(* width of integers and number of events and messages.  The invariant     *)
(* says, for each point of the broker thread, which of the plugin's parts  *)
(* exist and in what state; the handler and the workers are tied to it by  *)
(* what they may still touch.                                              *)
(***************************************************************************)
EXTENDS PluginLifecycle, TLAPS

Closing == {"forget", "drain", "disconnect", "done"}
Exposed == {"register", "registerDrain", "registerFailed", "ready"} \cup CleanupPoints
Built == {"authClient", "pebble", "minio", "fanout", "expose", "register", "ready", "stop",
          "close", "forget"}
Connected == {"publisher", "buildDrain", "buildFailed", "registerDrain", "registerFailed",
              "drain", "disconnect"} \cup Built
Cached == {"minio", "fanout", "expose", "register", "registerDrain", "registerFailed",
           "ready", "stop", "close"}

\* The Config is the one LoadConfig makes of acceptable options.
ConfigInv == /\ cfg # None => Loads(opts) /\ cfg = LoadConfig(opts)
             /\ pc \in Connected \cup {"connect"} => Loads(opts) /\ cfg = LoadConfig(opts)

\* What main.go's pointers lead to at each point.
PointerInv == /\ runtime <=> pc \in Exposed
              /\ nats = "open" <=> pc \in Connected
              /\ pc \in Connected => natsConn
              /\ nats = "closed" => pc \in {"failed", "done"}

\* The publisher opens once and is sealed before the connection goes; until
\* callbacks find a runtime it is empty, and afterwards it empties unless Drain
\* gave up.
PublisherInv ==
  /\ pc \in {"load", "connect", "publisher"} => phase = "new"
  /\ pc \in Built => phase = "open"
  /\ pc \in {"buildFailed", "registerFailed", "disconnect", "failed", "done"} => phase # "open"
  /\ pc \in InitPoints \cup {"failed"} => Queue!Backlog = {}
  /\ pc \in {"disconnect", "done"} => drained = "false" \/ Queue!Backlog = {}
  /\ late # {} => pc \in {"failed", "done"} /\ drained = "false"
  /\ cause \notin {"publisher", "authClient"}
  /\ crash = "makechan" => cfg = LoadConfig(opts) /\ cfg.BufferSize > MaxChannel
  /\ phase # "new" => cfg = LoadConfig(opts) /\ cfg.BufferSize <= MaxChannel

\* Pebble is open wherever the store is in use; a failed init leaves it open
\* after a failure of MinIO or of the registration.
StoreInv ==
  /\ pc \in Cached => db = "open" /\ pebbleDB
  /\ pc \notin Closing /\ db = "open" => pebbleDB
  /\ pc \notin Closing => db # "closed"
  /\ pc \in {"load", "connect", "publisher", "authClient", "pebble"} => db = "none"
  /\ pc \in {"registerDrain", "registerFailed"} => cause = "register"
  /\ pc \in {"buildDrain", "buildFailed", "failed"} /\ db = "open" => cause \in {"minio", "register"}

\* A handler runs, and the subscription is there, only while Pebble is open or
\* once cleanup has come to closing it.
HandlerInv ==
  /\ handler # "idle" \/ pending > 0 => sub # "none"
  /\ sub # "none" /\ pc \notin Closing => db = "open"
  /\ sub # "none" => pc \in Exposed \cup {"expose", "failed", "done"}
  /\ pc = "failed" => sub \in {"none", "closed"}
  /\ crash = "invalidate" => pc \in Closing

Inv == TypeOK /\ ConfigInv /\ PointerInv /\ PublisherInv /\ StoreInv /\ HandlerInv

-------------------------------------------------------------------------------
\* An integer option comes out positive, or as its default.
LEMMA IntOption ==
  ASSUME NEW v \in Int \cup {Blank, Text}, NEW default \in Int
  PROVE  /\ intOrDefault(v, default) \in Int
         /\ default > 0 => intOrDefault(v, default) > 0
  BY ConfigAssumption DEF intOrDefault

\* A product that fits is not wrapped, and every product wraps to an integer.
LEMMA DurationFits ==
  ASSUME NEW n \in Nat, NEW unit \in Nat
  PROVE  /\ Duration(n, unit) \in Int
         /\ n * unit <= MaxInt => Duration(n, unit) = n * unit
  <1> DEFINE x == n * unit
             w == 2 * (MaxInt + 1)
  <1>1. x \in Nat /\ w \in Nat \ {0} /\ MaxInt \in Nat /\ w > MaxInt
    BY ConfigAssumption
  <1>2. Duration(n, unit) = IF x % w > MaxInt THEN (x % w) - w ELSE x % w
    BY DEF Duration
  <1> HIDE DEF x, w
  <1>3. x % w \in Int
    BY <1>1
  <1>4. x <= MaxInt => x % w = x
    BY <1>1
  <1>5. Duration(n, unit) \in Int
    BY <1>1, <1>2, <1>3
  <1>6. x <= MaxInt => Duration(n, unit) = x
    BY <1>1, <1>2, <1>4
  <1> QED BY <1>5, <1>6 DEF x

\* A duration option is an integer.
LEMMA DurationType ==
  ASSUME NEW v \in Int \cup {Blank, Text}, NEW unit \in Nat, NEW default \in Int
  PROVE  DurationOption(v, unit, default) \in Int
  <1>1. intOrDefault(v, 0) \in Int
    BY IntOption
  <1> QED BY <1>1, DurationFits DEF DurationOption

\* What LoadConfig makes of acceptable options satisfies every constructor.
LEMMA ConfigAccepted ==
  ASSUME NEW o \in OptionSets, Loads(o)
  PROVE  /\ LoadConfig(o) \in Configs
         /\ PublisherAccepts(LoadConfig(o)) /\ AuthClientAccepts(LoadConfig(o))
         /\ LoadConfig(o).CacheL1Path # Blank
  <1>1. /\ \A n \in Numbers : o[n] \in Int \cup {Blank, Text}
        /\ \A n \in Strings : o[n] \in {Blank, Text}
    BY LifecycleAssumption
  <1>2. \A n \in Required : o[n] = Text
    BY <1>1 DEF Loads, Strings
  <1>3. /\ intOrDefault(o["worker_pool_size"], DefaultWorkerPoolSize) \in Int
        /\ intOrDefault(o["worker_pool_size"], DefaultWorkerPoolSize) > 0
    <2>1. o["worker_pool_size"] \in Int \cup {Blank, Text}
      BY <1>1 DEF Numbers
    <2>2. DefaultWorkerPoolSize \in Int /\ DefaultWorkerPoolSize > 0
      BY DEF DefaultWorkerPoolSize
    <2> QED BY <2>1, <2>2, IntOption
  <1>4. /\ intOrDefault(o["buffer_size"], DefaultBufferSize) \in Int
        /\ intOrDefault(o["buffer_size"], DefaultBufferSize) > 0
    <2>1. o["buffer_size"] \in Int \cup {Blank, Text}
      BY <1>1 DEF Numbers
    <2>2. DefaultBufferSize \in Int /\ DefaultBufferSize > 0
      BY DEF DefaultBufferSize
    <2> QED BY <2>1, <2>2, IntOption
  <1>5. /\ DurationOption(o["auth_timeout_seconds"], Second, DefaultAuthTimeout) \in Int
        /\ DurationOption(o["cache_l1_ttl_minutes"], Minute, DefaultCacheL1TTL) \in Int
    <2>1. /\ o["auth_timeout_seconds"] \in Int \cup {Blank, Text}
          /\ o["cache_l1_ttl_minutes"] \in Int \cup {Blank, Text}
      BY <1>1 DEF Numbers
    <2>2. Second \in Nat /\ Minute \in Nat /\ DefaultAuthTimeout \in Int /\ DefaultCacheL1TTL \in Int
      BY ConfigAssumption DEF DefaultAuthTimeout, DefaultCacheL1TTL
    <2> QED BY <2>1, <2>2, DurationType
  <1>6. /\ stringOrDefault(o["cache_l1_path"], DefaultCacheL1Path) \in {Text, DefaultCacheL1Path}
        /\ stringOrDefault(o["cache_l1_path"], DefaultCacheL1Path) # Blank
        /\ o["cache_l2_endpoint"] \in {Blank, Text}
    BY <1>1, ConfigAssumption DEF stringOrDefault, Strings
  <1>7. LoadConfig(o) \in Configs
    BY <1>2, <1>3, <1>4, <1>5, <1>6 DEF LoadConfig, Configs, Required
  <1>8. PublisherAccepts(LoadConfig(o)) /\ AuthClientAccepts(LoadConfig(o))
    BY <1>2, <1>3, <1>4, ConfigAssumption DEF LoadConfig, PublisherAccepts, AuthClientAccepts, Required
  <1> QED BY <1>6, <1>7, <1>8 DEF LoadConfig

\* Before init runs there is nothing.
LEMMA InitInv == Init => Inv
  <1> SUFFICES ASSUME Init PROVE Inv
    OBVIOUS
  <1> USE LifecycleAssumption DEF Init, Queue!Init
  <1>1. TypeOK
    <2>1. 0 \in 0 .. Len(Callbacks)
      BY DEF Callbacks
    <2>2. fate \in [Jobs -> {"new", "refused", "queued", "published", "failed"}] /\ phase = "new"
      OBVIOUS
    <2>3. pc \in InitPoints /\ opts \in OptionSets /\ cfg = None /\ pending \in 0 .. MaxPending
      BY DEF InitPoints
    <2> QED BY <2>1, <2>2, <2>3 DEF TypeOK
  <1>2. ConfigInv /\ PointerInv /\ StoreInv /\ HandlerInv
    BY DEF ConfigInv, PointerInv, StoreInv, HandlerInv, Connected, Built, Exposed, CleanupPoints,
           Cached, Closing
  <1>3. PublisherInv
    BY DEF PublisherInv, Built, Queue!Backlog
  <1> QED BY <1>1, <1>2, <1>3 DEF Inv

-------------------------------------------------------------------------------
\* LoadConfig, or a refusal of the options.
LEMMA LoadStep == Inv /\ InitLoadConfig => Inv'
  <1> SUFFICES ASSUME Inv, InitLoadConfig PROVE Inv'
    OBVIOUS
  <1> USE DEF Inv, InitLoadConfig, Go, pointers, store, fan, queue
  <1>1. TypeOK'
    BY ConfigAccepted DEF TypeOK, InitPoints
  <1>2. ConfigInv'
    BY DEF ConfigInv, Connected, Built
  <1>3. PointerInv' /\ StoreInv' /\ HandlerInv'
    BY DEF PointerInv, StoreInv, HandlerInv, Connected, Built, Exposed, CleanupPoints, Cached, Closing
  <1>4. PublisherInv'
    BY DEF PublisherInv, Built, InitPoints, Queue!Backlog
  <1> QED BY <1>1, <1>2, <1>3, <1>4

\* The initial dial.
LEMMA ConnectStep == Inv /\ InitConnectNATS => Inv'
  <1> SUFFICES ASSUME Inv, InitConnectNATS PROVE Inv'
    OBVIOUS
  <1> USE DEF Inv, InitConnectNATS, Go, config, store, fan, queue
  <1>1. TypeOK'
    <2>1. /\ nats' \in {"none", "open", "closed"} /\ natsConn' \in BOOLEAN
          /\ cause' \in {"none", "options", "nats", "publisher", "authClient", "pebble", "minio", "register"}
      BY DEF TypeOK
    <2>2. pc' \in InitPoints \cup {"failed"}
      BY DEF InitPoints
    <2>3. UNCHANGED <<config, runtime, registered, store, fan, queue, drained, late, crash>>
      OBVIOUS
    <2> QED BY <2>1, <2>2, <2>3 DEF TypeOK
  <1>2. ConfigInv'
    BY DEF ConfigInv, Connected, Built
  <1>3. PointerInv'
    BY DEF PointerInv, Connected, Built, Exposed, CleanupPoints
  <1>4. StoreInv'
    BY DEF StoreInv, Cached, Closing
  <1>5. HandlerInv'
    BY DEF HandlerInv, StoreInv, Cached, Closing, Exposed, CleanupPoints
  <1>6. PublisherInv'
    BY DEF PublisherInv, Built, InitPoints, Queue!Backlog
  <1> QED BY <1>1, <1>2, <1>3, <1>4, <1>5, <1>6

\* The publisher is made and started, or make(chan) panics.
LEMMA PublisherStep == Inv /\ InitPublisher => Inv'
  <1> SUFFICES ASSUME Inv, InitPublisher PROVE Inv'
    OBVIOUS
  <1> USE DEF Inv, InitPublisher, Go, config, pointers, store, fan, queue, Queue!Open
  <1>1. TypeOK'
    BY DEF TypeOK, InitPoints, CleanupPoints
  <1>2. ConfigInv'
    BY DEF ConfigInv, Connected, Built
  <1>3. PointerInv'
    BY DEF PointerInv, Connected, Built, Exposed, CleanupPoints
  <1>4. StoreInv'
    BY DEF StoreInv, Cached, Closing
  <1>5. HandlerInv'
    BY DEF HandlerInv, StoreInv, Cached, Closing, Exposed, CleanupPoints
  <1>6. PublisherInv'
    <2>1. /\ pc = "publisher" /\ crash = "no" /\ phase = "new"
          /\ pc' \in {"authClient", "publisher"}
          /\ cfg = LoadConfig(opts) /\ PublisherAccepts(cfg) /\ UNCHANGED config
      BY ConfigAccepted DEF PublisherInv, ConfigInv, Connected, TypeOK
    <2>2. /\ crash' = "makechan" => cfg'.BufferSize > MaxChannel
          /\ phase' # "new" => cfg'.BufferSize <= MaxChannel
      BY <2>1
    <2>3. /\ cause' \notin {"publisher", "authClient"} /\ late' = {}
          /\ Queue!Backlog = {} /\ fate' = fate
          /\ pc' = "authClient" => phase' = "open"
          /\ pc' = "publisher" => phase' = "new"
      BY <2>1 DEF PublisherInv, InitPoints
    <2>4. Queue!Backlog' = {}
      BY <2>3 DEF Queue!Backlog
    <2> QED BY <2>1, <2>2, <2>3, <2>4 DEF PublisherInv, Built, InitPoints
  <1> QED BY <1>1, <1>2, <1>3, <1>4, <1>5, <1>6

\* The HTTP client is made.
LEMMA AuthClientStep == Inv /\ InitAuthClient => Inv'
  <1> SUFFICES ASSUME Inv, InitAuthClient PROVE Inv'
    OBVIOUS
  <1> USE DEF Inv, InitAuthClient, Go, config, pointers, store, fan, queue
  <1>1. TypeOK'
    BY DEF TypeOK, InitPoints, CleanupPoints
  <1>2. ConfigInv'
    BY DEF ConfigInv, Connected, Built
  <1>3. PointerInv'
    BY DEF PointerInv, Connected, Built, Exposed, CleanupPoints
  <1>4. StoreInv'
    BY DEF StoreInv, Cached, Closing
  <1>5. HandlerInv'
    BY DEF HandlerInv, StoreInv, Cached, Closing, Exposed, CleanupPoints
  <1>6. PublisherInv'
    BY ConfigAccepted DEF PublisherInv, Built, InitPoints, ConfigInv, Connected, TypeOK, Queue!Backlog
  <1> QED BY <1>1, <1>2, <1>3, <1>4, <1>5, <1>6

\* Pebble is opened.
LEMMA PebbleStep == Inv /\ InitPebble => Inv'
  <1> SUFFICES ASSUME Inv, InitPebble PROVE Inv'
    OBVIOUS
  <1> USE DEF Inv, InitPebble, Go, config, pointers, store, fan, queue
  <1>1. TypeOK'
    <2>1. /\ db' \in {"none", "open", "closed"} /\ pebbleDB' \in BOOLEAN
          /\ cause' \in {"none", "options", "nats", "publisher", "authClient", "pebble", "minio", "register"}
      BY DEF TypeOK
    <2>2. pc' \in InitPoints \cup {"failed"}
      BY DEF InitPoints
    <2>3. UNCHANGED <<config, nats, pointers, fan, queue, drained, late, crash>>
      OBVIOUS
    <2> QED BY <2>1, <2>2, <2>3 DEF TypeOK
  <1>2. ConfigInv'
    BY DEF ConfigInv, Connected, Built
  <1>3. PointerInv'
    BY DEF PointerInv, Connected, Built, Exposed, CleanupPoints
  <1>4. StoreInv'
    BY ConfigAccepted DEF StoreInv, ConfigInv, Connected, Built, TypeOK, Cached, Closing
  <1>5. HandlerInv'
    BY DEF HandlerInv, StoreInv, Cached, Closing, Exposed, CleanupPoints
  <1>6. PublisherInv'
    BY DEF PublisherInv, Built, InitPoints, Queue!Backlog
  <1> QED BY <1>1, <1>2, <1>3, <1>4, <1>5, <1>6

\* The MinIO client is made.
LEMMA MinioStep == Inv /\ InitMinio => Inv'
  <1> SUFFICES ASSUME Inv, InitMinio PROVE Inv'
    OBVIOUS
  <1> USE DEF Inv, InitMinio, Go, config, pointers, store, fan, queue
  <1>1. TypeOK'
    BY DEF TypeOK, InitPoints, CleanupPoints
  <1>2. ConfigInv'
    BY DEF ConfigInv, Connected, Built
  <1>3. PointerInv'
    BY DEF PointerInv, Connected, Built, Exposed, CleanupPoints
  <1>4. StoreInv'
    BY DEF StoreInv, Cached, Closing
  <1>5. HandlerInv'
    BY DEF HandlerInv, StoreInv, Cached, Closing, Exposed, CleanupPoints
  <1>6. PublisherInv'
    BY DEF PublisherInv, Built, InitPoints, Queue!Backlog
  <1> QED BY <1>1, <1>2, <1>3, <1>4, <1>5, <1>6

\* The subscription is made, or init goes on without.
LEMMA FanoutStart == Inv /\ InitFanout => Inv'
  <1> SUFFICES ASSUME Inv, InitFanout PROVE Inv'
    OBVIOUS
  <1> USE DEF Inv, InitFanout, Go, config, pointers, store, queue, history
  <1>1. TypeOK'
    BY DEF TypeOK, InitPoints, CleanupPoints
  <1>2. ConfigInv'
    BY DEF ConfigInv, Connected, Built
  <1>3. PointerInv'
    BY DEF PointerInv, Connected, Built, Exposed, CleanupPoints
  <1>4. StoreInv'
    BY DEF StoreInv, Cached, Closing
  <1>5. HandlerInv'
    BY DEF HandlerInv, StoreInv, Cached, Closing, Exposed, CleanupPoints
  <1>6. PublisherInv'
    BY DEF PublisherInv, Built, InitPoints, Queue!Backlog
  <1> QED BY <1>1, <1>2, <1>3, <1>4, <1>5, <1>6

\* The runtime becomes visible to callbacks.
LEMMA ExposeStep == Inv /\ InitStoreRuntime => Inv'
  <1> SUFFICES ASSUME Inv, InitStoreRuntime PROVE Inv'
    OBVIOUS
  <1> USE DEF Inv, InitStoreRuntime, Go, config, store, fan, queue, history
  <1>1. TypeOK'
    BY DEF TypeOK, InitPoints, CleanupPoints
  <1>2. ConfigInv'
    BY DEF ConfigInv, Connected, Built
  <1>3. PointerInv'
    BY DEF PointerInv, Connected, Built, Exposed, CleanupPoints
  <1>4. StoreInv'
    BY DEF StoreInv, Cached, Closing
  <1>5. HandlerInv'
    BY DEF HandlerInv, StoreInv, Cached, Closing, Exposed, CleanupPoints
  <1>6. PublisherInv'
    BY DEF PublisherInv, Built, InitPoints, Queue!Backlog
  <1> QED BY <1>1, <1>2, <1>3, <1>4, <1>5, <1>6

\* One callback is registered, or refused.
LEMMA RegisterStep == Inv /\ Register => Inv'
  <1> SUFFICES ASSUME Inv, Register PROVE Inv'
    OBVIOUS
  <1> USE DEF Inv, Register, Go, config, store, fan, queue
  <1>1. TypeOK'
    BY DEF TypeOK, InitPoints, CleanupPoints, Callbacks
  <1>2. ConfigInv'
    BY DEF ConfigInv, Connected, Built
  <1>3. PointerInv'
    BY DEF PointerInv, Connected, Built, Exposed, CleanupPoints
  <1>4. StoreInv'
    BY DEF StoreInv, Cached, Closing
  <1>5. HandlerInv'
    BY DEF HandlerInv, StoreInv, Cached, Closing, Exposed, CleanupPoints
  <1>6. PublisherInv'
    BY DEF PublisherInv, Built, InitPoints, Queue!Backlog
  <1> QED BY <1>1, <1>2, <1>3, <1>4, <1>5, <1>6

\* BuildRuntime gives up and drains the publisher.
LEMMA BuildDrainStep == Inv /\ Drain("buildDrain", "buildFailed") => Inv'
  <1> SUFFICES ASSUME Inv, Drain("buildDrain", "buildFailed") PROVE Inv'
    OBVIOUS
  <1> USE DEF Inv, Drain, Go, config, pointers, store, fan, queue, Queue!Seal
  <1>1. TypeOK'
    BY DEF TypeOK, InitPoints, CleanupPoints
  <1>2. ConfigInv'
    BY DEF ConfigInv, Connected, Built
  <1>3. PointerInv'
    BY DEF PointerInv, Connected, Built, Exposed, CleanupPoints
  <1>4. StoreInv'
    BY DEF StoreInv, Cached, Closing
  <1>5. HandlerInv'
    BY DEF HandlerInv, StoreInv, Cached, Closing, Exposed, CleanupPoints
  <1>6. PublisherInv'
    BY DEF PublisherInv, Built, InitPoints, Queue!Backlog
  <1> QED BY <1>1, <1>2, <1>3, <1>4, <1>5, <1>6

\* The registration failed and the publisher is drained.
LEMMA RegisterDrainStep == Inv /\ Drain("registerDrain", "registerFailed") => Inv'
  <1> SUFFICES ASSUME Inv, Drain("registerDrain", "registerFailed") PROVE Inv'
    OBVIOUS
  <1> USE DEF Inv, Drain, Go, config, pointers, store, fan, queue, Queue!Seal
  <1>1. TypeOK'
    BY DEF TypeOK, InitPoints, CleanupPoints
  <1>2. ConfigInv'
    BY DEF ConfigInv, Connected, Built
  <1>3. PointerInv'
    BY DEF PointerInv, Connected, Built, Exposed, CleanupPoints
  <1>4. StoreInv'
    BY DEF StoreInv, Cached, Closing
  <1>5. HandlerInv'
    BY DEF HandlerInv, StoreInv, Cached, Closing, Exposed, CleanupPoints
  <1>6. PublisherInv'
    BY DEF PublisherInv, Built, InitPoints, Queue!Backlog
  <1> QED BY <1>1, <1>2, <1>3, <1>4, <1>5, <1>6

\* Cleanup drains the publisher, or gives up waiting.
LEMMA CleanupDrainStep == Inv /\ Drain("drain", "disconnect") => Inv'
  <1> SUFFICES ASSUME Inv, Drain("drain", "disconnect") PROVE Inv'
    OBVIOUS
  <1> USE DEF Inv, Drain, Go, config, pointers, store, fan, queue, Queue!Seal
  <1>1. TypeOK'
    BY DEF TypeOK, InitPoints, CleanupPoints
  <1>2. ConfigInv'
    BY DEF ConfigInv, Connected, Built
  <1>3. PointerInv'
    BY DEF PointerInv, Connected, Built, Exposed, CleanupPoints
  <1>4. StoreInv'
    BY DEF StoreInv, Cached, Closing
  <1>5. HandlerInv'
    BY DEF HandlerInv, StoreInv, Cached, Closing, Exposed, CleanupPoints
  <1>6. PublisherInv'
    BY DEF PublisherInv, Built, InitPoints, Queue!Backlog
  <1> QED BY <1>1, <1>2, <1>3, <1>4, <1>5, <1>6

\* The connection of a failed build is closed.
LEMMA BuildFailedStep == Inv /\ InitBuildFailed => Inv'
  <1> SUFFICES ASSUME Inv, InitBuildFailed PROVE Inv'
    OBVIOUS
  <1> USE DEF Inv, InitBuildFailed, CloseNATS, Go, config, pointers, store, queue, history
  <1>1. TypeOK'
    BY LifecycleAssumption DEF TypeOK, InitPoints, CleanupPoints
  <1>2. ConfigInv'
    BY DEF ConfigInv, Connected, Built
  <1>3. PointerInv'
    BY DEF PointerInv, Connected, Built, Exposed, CleanupPoints
  <1>4. StoreInv'
    BY DEF StoreInv, Cached, Closing
  <1>5. HandlerInv'
    BY DEF HandlerInv, StoreInv, Cached, Closing, Exposed, CleanupPoints
  <1>6. PublisherInv'
    BY DEF PublisherInv, Built, InitPoints, Queue!Backlog
  <1> QED BY <1>1, <1>2, <1>3, <1>4, <1>5, <1>6

\* The connection of a failed registration is closed.
LEMMA RegisterFailedStep == Inv /\ InitRegisterFailed => Inv'
  <1> SUFFICES ASSUME Inv, InitRegisterFailed PROVE Inv'
    OBVIOUS
  <1> USE DEF Inv, InitRegisterFailed, CloseNATS, Go, config, store, queue, history
  <1>1. TypeOK'
    <2>1. /\ nats' \in {"none", "open", "closed"} /\ runtime' \in BOOLEAN /\ natsConn' \in BOOLEAN
      BY DEF TypeOK
    <2>2. pending' \in 0 .. MaxPending /\ UNCHANGED handler
      BY LifecycleAssumption DEF TypeOK
    <2>3. sub' \in {"none", "active", "draining", "closed"}
      BY DEF TypeOK
    <2>4. pc' = "failed"
      OBVIOUS
    <2>5. UNCHANGED <<config, registered, store, queue, history, crash>>
      OBVIOUS
    <2> QED BY <2>1, <2>2, <2>3, <2>4, <2>5 DEF TypeOK
  <1>2. ConfigInv'
    BY DEF ConfigInv, Connected, Built
  <1>3. PointerInv'
    BY DEF PointerInv, Connected, Built, Exposed, CleanupPoints
  <1>4. StoreInv'
    BY DEF StoreInv, Cached, Closing
  <1>5. HandlerInv'
    BY DEF HandlerInv, StoreInv, Cached, Closing, Exposed, CleanupPoints
  <1>6. PublisherInv'
    BY DEF PublisherInv, Built, InitPoints, Queue!Backlog
  <1> QED BY <1>1, <1>2, <1>3, <1>4, <1>5, <1>6

\* The last step of cleanup.
LEMMA CleanupEndStep == Inv /\ CleanupEnd => Inv'
  <1> SUFFICES ASSUME Inv, CleanupEnd PROVE Inv'
    OBVIOUS
  <1> USE DEF Inv, CleanupEnd, CloseNATS, Go, config, store, fan, queue, history
  <1>1. TypeOK'
    <2>1. /\ nats' \in {"none", "open", "closed"} /\ runtime' \in BOOLEAN /\ natsConn' \in BOOLEAN
      BY DEF TypeOK
    <2>2. pending' \in 0 .. MaxPending /\ UNCHANGED handler
      BY LifecycleAssumption DEF TypeOK
    <2>3. sub' \in {"none", "active", "draining", "closed"}
      BY DEF TypeOK
    <2>4. pc' = "done"
      OBVIOUS
    <2>5. UNCHANGED <<config, registered, store, queue, history, crash>>
      OBVIOUS
    <2> QED BY <2>1, <2>2, <2>3, <2>4, <2>5 DEF TypeOK
  <1>2. ConfigInv'
    BY DEF ConfigInv, Connected, Built
  <1>3. PointerInv'
    BY DEF PointerInv, Connected, Built, Exposed, CleanupPoints
  <1>4. StoreInv'
    BY DEF StoreInv, Cached, Closing
  <1>5. HandlerInv'
    BY DEF HandlerInv, StoreInv, Cached, Closing, Exposed, CleanupPoints
  <1>6. PublisherInv'
    BY DEF PublisherInv, Built, InitPoints, PointerInv, Connected, Queue!Backlog
  <1> QED BY <1>1, <1>2, <1>3, <1>4, <1>5, <1>6

\* Cleanup is called.
LEMMA CleanupCallStep == Inv /\ Cleanup => Inv'
  <1> SUFFICES ASSUME Inv, Cleanup PROVE Inv'
    OBVIOUS
  <1> USE DEF Inv, Cleanup, Serving, Go, config, store, fan, queue, history
  <1>1. TypeOK'
    BY DEF TypeOK, InitPoints, CleanupPoints, Callbacks
  <1>2. ConfigInv'
    BY DEF ConfigInv, PointerInv, Connected, Built, Exposed, CleanupPoints
  <1>3. PointerInv'
    BY DEF PointerInv, Connected, Built, Exposed, CleanupPoints
  <1>4. StoreInv'
    BY DEF StoreInv, PointerInv, Exposed, CleanupPoints, Cached, Closing
  <1>5. HandlerInv'
    BY DEF HandlerInv, StoreInv, PointerInv, Cached, Closing, Exposed, CleanupPoints
  <1>6. PublisherInv'
    BY DEF PublisherInv, Built, InitPoints, PointerInv, Exposed, CleanupPoints, Queue!Backlog
  <1> QED BY <1>1, <1>2, <1>3, <1>4, <1>5, <1>6

\* The fanout consumer is told to stop.
LEMMA StopStep == Inv /\ CleanupStop => Inv'
  <1> SUFFICES ASSUME Inv, CleanupStop PROVE Inv'
    OBVIOUS
  <1> USE DEF Inv, CleanupStop, Go, config, pointers, store, queue, history
  <1>1. TypeOK'
    BY DEF TypeOK, InitPoints, CleanupPoints
  <1>2. ConfigInv'
    BY DEF ConfigInv, Connected, Built
  <1>3. PointerInv'
    BY DEF PointerInv, Connected, Built, Exposed, CleanupPoints
  <1>4. StoreInv'
    BY DEF StoreInv, Cached, Closing
  <1>5. HandlerInv'
    BY DEF HandlerInv, StoreInv, Cached, Closing, Exposed, CleanupPoints
  <1>6. PublisherInv'
    BY DEF PublisherInv, Built, InitPoints, Queue!Backlog
  <1> QED BY <1>1, <1>2, <1>3, <1>4, <1>5, <1>6

\* Pebble is closed.
LEMMA CloseStep == Inv /\ CleanupClose => Inv'
  <1> SUFFICES ASSUME Inv, CleanupClose PROVE Inv'
    OBVIOUS
  <1> USE DEF Inv, CleanupClose, Go, config, pointers, store, fan, queue, history
  <1>1. TypeOK'
    BY DEF TypeOK, InitPoints, CleanupPoints
  <1>2. ConfigInv'
    BY DEF ConfigInv, Connected, Built
  <1>3. PointerInv'
    BY DEF PointerInv, Connected, Built, Exposed, CleanupPoints
  <1>4. StoreInv'
    BY DEF StoreInv, Cached, Closing
  <1>5. HandlerInv'
    BY DEF HandlerInv, StoreInv, Cached, Closing, Exposed, CleanupPoints
  <1>6. PublisherInv'
    BY DEF PublisherInv, Built, InitPoints, Queue!Backlog
  <1> QED BY <1>1, <1>2, <1>3, <1>4, <1>5, <1>6

\* The store forgets Pebble.
LEMMA ForgetStep == Inv /\ CleanupForget => Inv'
  <1> SUFFICES ASSUME Inv, CleanupForget PROVE Inv'
    OBVIOUS
  <1> USE DEF Inv, CleanupForget, Go, config, pointers, fan, queue, history
  <1>1. TypeOK'
    <2>1. pebbleDB' \in BOOLEAN
      BY LifecycleAssumption DEF TypeOK
    <2>2. pc' \in CleanupPoints
      BY DEF CleanupPoints
    <2>3. UNCHANGED <<config, nats, pointers, db, fan, queue, history, crash>>
      OBVIOUS
    <2> QED BY <2>1, <2>2, <2>3 DEF TypeOK
  <1>2. ConfigInv'
    BY DEF ConfigInv, Connected, Built
  <1>3. PointerInv'
    BY DEF PointerInv, Connected, Built, Exposed, CleanupPoints
  <1>4. StoreInv'
    BY DEF StoreInv, Cached, Closing
  <1>5. HandlerInv'
    BY DEF HandlerInv, StoreInv, Cached, Closing, Exposed, CleanupPoints
  <1>6. PublisherInv'
    BY DEF PublisherInv, Built, InitPoints, Queue!Backlog
  <1> QED BY <1>1, <1>2, <1>3, <1>4, <1>5, <1>6

\* A callback offers an event.
LEMMA CallbackStep == Inv /\ Callback => Inv'
  <1> SUFFICES ASSUME Inv, Callback PROVE Inv'
    OBVIOUS
  <1> USE DEF Inv, Callback, Serving, Queue!Accept, Queue!Refuse, config, pointers, store, fan, history
  <1>1. TypeOK'
    BY DEF TypeOK
  <1>2. ConfigInv' /\ PointerInv'
    BY DEF ConfigInv, PointerInv
  <1>3. StoreInv'
    BY DEF StoreInv
  <1>4. HandlerInv'
    BY DEF HandlerInv
  <1>5. PublisherInv'
    BY DEF PublisherInv, PointerInv, Exposed, CleanupPoints, Built, InitPoints, Queue!Backlog
  <1> QED BY <1>1, <1>2, <1>3, <1>4, <1>5

\* A worker settles an event.
LEMMA SettleStep == Inv /\ (\E j \in Jobs : Settle(j)) => Inv'
  <1> SUFFICES ASSUME Inv, (\E j \in Jobs : Settle(j)) PROVE Inv'
    OBVIOUS
  <1> USE DEF Inv, Settle, Queue!Settle, config, pointers, store, fan
  <1>1. TypeOK'
    BY DEF TypeOK
  <1>2. ConfigInv' /\ PointerInv'
    BY DEF ConfigInv, PointerInv
  <1>3. StoreInv'
    BY DEF StoreInv
  <1>4. HandlerInv'
    BY DEF HandlerInv
  <1>5. PublisherInv'
    BY DEF PublisherInv, PointerInv, Queue!Backlog
  <1> QED BY <1>1, <1>2, <1>3, <1>4, <1>5

\* A message arrives.
LEMMA DeliverStep == Inv /\ Deliver => Inv'
  <1> SUFFICES ASSUME Inv, Deliver PROVE Inv'
    OBVIOUS
  <1> USE DEF Inv, Deliver, config, pointers, store, queue, history
  <1>1. TypeOK'
    BY LifecycleAssumption DEF TypeOK
  <1>2. ConfigInv' /\ PointerInv'
    BY DEF ConfigInv, PointerInv
  <1>3. StoreInv'
    BY DEF StoreInv
  <1>4. HandlerInv'
    BY DEF HandlerInv
  <1>5. PublisherInv'
    BY DEF PublisherInv, Queue!Backlog
  <1> QED BY <1>1, <1>2, <1>3, <1>4, <1>5

\* The handler takes a message.
LEMMA HandleStep == Inv /\ Handle => Inv'
  <1> SUFFICES ASSUME Inv, Handle PROVE Inv'
    OBVIOUS
  <1> USE DEF Inv, Handle, config, pointers, store, queue, history
  <1>1. TypeOK'
    BY LifecycleAssumption DEF TypeOK
  <1>2. ConfigInv' /\ PointerInv'
    BY DEF ConfigInv, PointerInv
  <1>3. StoreInv'
    BY DEF StoreInv
  <1>4. HandlerInv'
    BY LifecycleAssumption DEF HandlerInv, TypeOK
  <1>5. PublisherInv'
    BY DEF PublisherInv, Queue!Backlog
  <1> QED BY <1>1, <1>2, <1>3, <1>4, <1>5

\* Invalidate looks at the pointer.
LEMMA CheckStep == Inv /\ InvalidateCheck => Inv'
  <1> SUFFICES ASSUME Inv, InvalidateCheck PROVE Inv'
    OBVIOUS
  <1> USE DEF Inv, InvalidateCheck, config, pointers, store, queue, history
  <1>1. TypeOK'
    BY DEF TypeOK
  <1>2. ConfigInv' /\ PointerInv'
    BY DEF ConfigInv, PointerInv
  <1>3. StoreInv'
    BY DEF StoreInv
  <1>4. HandlerInv'
    BY DEF HandlerInv
  <1>5. PublisherInv'
    BY DEF PublisherInv, Queue!Backlog
  <1> QED BY <1>1, <1>2, <1>3, <1>4, <1>5

\* Invalidate calls Delete.
LEMMA CallStep == Inv /\ InvalidateCall => Inv'
  <1> SUFFICES ASSUME Inv, InvalidateCall PROVE Inv'
    OBVIOUS
  <1> USE DEF Inv, InvalidateCall, config, pointers, store, queue, history
  <1>1. TypeOK'
    BY DEF TypeOK
  <1>2. ConfigInv' /\ PointerInv'
    BY DEF ConfigInv, PointerInv
  <1>3. StoreInv'
    BY DEF StoreInv
  <1>4. HandlerInv'
    BY DEF HandlerInv, StoreInv
  <1>5. PublisherInv'
    BY DEF PublisherInv, Queue!Backlog
  <1> QED BY <1>1, <1>2, <1>3, <1>4, <1>5

\* Delete returns.
LEMMA ReturnStep == Inv /\ InvalidateReturn => Inv'
  <1> SUFFICES ASSUME Inv, InvalidateReturn PROVE Inv'
    OBVIOUS
  <1> USE DEF Inv, InvalidateReturn, config, pointers, store, queue, history
  <1>1. TypeOK'
    BY DEF TypeOK
  <1>2. ConfigInv' /\ PointerInv'
    BY DEF ConfigInv, PointerInv
  <1>3. StoreInv'
    BY DEF StoreInv
  <1>4. HandlerInv'
    BY DEF HandlerInv, StoreInv
  <1>5. PublisherInv'
    BY DEF PublisherInv, Queue!Backlog
  <1> QED BY <1>1, <1>2, <1>3, <1>4, <1>5

\* The draining ends.
LEMMA DrainedStep == Inv /\ SubscriptionDrained => Inv'
  <1> SUFFICES ASSUME Inv, SubscriptionDrained PROVE Inv'
    OBVIOUS
  <1> USE DEF Inv, SubscriptionDrained, config, pointers, store, queue, history
  <1>1. TypeOK'
    BY DEF TypeOK
  <1>2. ConfigInv' /\ PointerInv'
    BY DEF ConfigInv, PointerInv
  <1>3. StoreInv'
    BY DEF StoreInv
  <1>4. HandlerInv'
    BY DEF HandlerInv
  <1>5. PublisherInv'
    BY DEF PublisherInv, Queue!Backlog
  <1> QED BY <1>1, <1>2, <1>3, <1>4, <1>5

-------------------------------------------------------------------------------
\* The inductive invariant holds of every behaviour of the plugin.
THEOREM LifecycleInvariant == Spec => []Inv
  <1>1. Inv /\ UNCHANGED vars => Inv'
    <2> SUFFICES ASSUME Inv, UNCHANGED vars PROVE Inv'
      OBVIOUS
    <2> USE DEF Inv, vars, config, pointers, store, fan, queue, history
    <2>1. TypeOK'
      BY DEF TypeOK
    <2>2. ConfigInv' /\ PointerInv'
      BY DEF ConfigInv, PointerInv
    <2>3. StoreInv' /\ HandlerInv'
      BY DEF StoreInv, HandlerInv
    <2>4. PublisherInv'
      BY DEF PublisherInv, Queue!Backlog
    <2> QED BY <2>1, <2>2, <2>3, <2>4
  <1>2. Inv /\ InitStep => Inv'
    BY LoadStep, ConnectStep, PublisherStep, AuthClientStep, PebbleStep, MinioStep, FanoutStart,
       ExposeStep, RegisterStep, BuildDrainStep, BuildFailedStep, RegisterDrainStep,
       RegisterFailedStep DEF InitStep
  <1>3. Inv /\ CleanupStep => Inv'
    BY StopStep, CloseStep, ForgetStep, CleanupDrainStep, CleanupEndStep DEF CleanupStep
  <1>4. Inv /\ FanoutStep => Inv'
    BY HandleStep, CheckStep, CallStep, ReturnStep, DrainedStep DEF FanoutStep
  <1>5. Inv /\ [Next]_vars => Inv'
    BY <1>1, <1>2, <1>3, <1>4, CallbackStep, CleanupCallStep, SettleStep, DeliverStep DEF Next
  <1> QED BY InitInv, <1>5, PTL DEF Spec

\* The plugin's variables keep their types (plugin/main.go, runtime_init.go).
THEOREM TypeCorrect == Spec => []TypeOK
  <1>1. Inv => TypeOK
    BY DEF Inv
  <1> QED BY LifecycleInvariant, <1>1, PTL

\* A callback of main.go that loads a runtime can use every part of it.
THEOREM RuntimeWhole == Spec => []CallbackSeesWholeRuntime
  <1>1. Inv => CallbackSeesWholeRuntime
    BY DEF Inv, CallbackSeesWholeRuntime, Serving, PointerInv, PublisherInv, StoreInv, Exposed,
           CleanupPoints, Connected, Built, Cached
  <1> QED BY LifecycleInvariant, <1>1, PTL

\* A failed mosquitto_plugin_init leaves nothing at work, and Pebble open only
\* after a failure of MinIO or of the registration.
THEOREM FailureInert == Spec => []FailedInitIsInert
  <1>1. Inv => FailedInitIsInert
    BY DEF Inv, FailedInitIsInert, PointerInv, PublisherInv, StoreInv, HandlerInv, Exposed,
           CleanupPoints, Connected, Built
  <1> QED BY LifecycleInvariant, <1>1, PTL

\* Invalidate meets a closed or forgotten Pebble only after cleanup closed it.
THEOREM CrashConfined == Spec => []CrashOnlyAfterClose
  <1>1. Inv => CrashOnlyAfterClose
    BY DEF Inv, CrashOnlyAfterClose, HandlerInv, Closing
  <1> QED BY LifecycleInvariant, <1>1, PTL

\* mosquitto_plugin_cleanup loses an accepted event only if Drain timed out.
THEOREM OrderlyShutdown == Spec => []LateOnlyAfterTimeout
  <1>1. Inv => LateOnlyAfterTimeout
    BY DEF Inv, LateOnlyAfterTimeout, PublisherInv
  <1> QED BY LifecycleInvariant, <1>1, PTL

\* LoadConfig's defaults satisfy NewAsyncPublisher and NewAuthClient whatever
\* the integer options say, and a buffer_size brings the process down exactly
\* when make(chan) cannot allocate it: a publisher exists only of one it can.
THEOREM OptionsAccepted == Spec => []OnlyBufferSizeStopsBoot
  <1> DEFINE buffer == Asked("buffer_size", 1, DefaultBufferSize)
  <1>1. ASSUME Inv, cfg = LoadConfig(opts) PROVE cfg.BufferSize = buffer
    <2>1. opts \in OptionSets /\ cfg = LoadConfig(opts)
      BY <1>1 DEF Inv, TypeOK
    <2>2. opts["buffer_size"] \in Int \cup {Blank, Text}
      BY <2>1, LifecycleAssumption DEF Numbers
    <2>3. cfg.BufferSize = intOrDefault(opts["buffer_size"], DefaultBufferSize)
      BY <2>1 DEF LoadConfig
    <2> QED BY <2>2, <2>3, ConfigAssumption DEF Asked, intOrDefault
  <1> HIDE DEF buffer
  <1>2. Inv => /\ cause \notin {"publisher", "authClient"}
               /\ crash = "makechan" => buffer > MaxChannel
               /\ phase # "new" => buffer <= MaxChannel
    BY <1>1 DEF Inv, PublisherInv
  <1>3. Inv => OnlyBufferSizeStopsBoot
    BY <1>2 DEF OnlyBufferSizeStopsBoot, buffer
  <1> QED BY LifecycleInvariant, <1>3, PTL

\* What the value v of an option asks for, as Asked reads it from opts.
AskedBy(v, unit, default) ==
  IF v \in {Blank, Text} THEN default
  ELSE IF v \in 1 .. MaxInt THEN v * unit ELSE default

\* An option's duration that fits its width is taken as written.
LEMMA DurationAsked ==
  ASSUME NEW v \in Int \cup {Blank, Text}, NEW unit \in Nat \ {0},
         NEW default \in Nat \ {0}
  PROVE  AskedBy(v, unit, default) <= MaxInt =>
            /\ AskedBy(v, unit, default) > 0
            /\ DurationOption(v, unit, default) = AskedBy(v, unit, default)
  <1>1. CASE v \notin {Blank, Text} /\ v \in 1 .. MaxInt
    <2>1. v \in Nat /\ v > 0 /\ MaxInt \in Nat
      BY <1>1, ConfigAssumption
    <2>2. v * unit > 0 /\ v * unit \in Nat
      BY <2>1
    <2>3. DurationOption(v, unit, default) = Duration(v, unit)
      BY <1>1, <2>1 DEF DurationOption, intOrDefault
    <2>4. AskedBy(v, unit, default) = v * unit
      BY <1>1 DEF AskedBy
    <2> QED BY <2>1, <2>2, <2>3, <2>4, DurationFits
  <1>2. CASE ~(v \notin {Blank, Text} /\ v \in 1 .. MaxInt)
    BY <1>2, ConfigAssumption DEF AskedBy, DurationOption, intOrDefault
  <1> QED BY <1>1, <1>2

\* The timeouts NewAuthClient, NewTieredAuthStore and contextWithTimeout end up
\* with are the ones LoadConfig was asked for, or, after a wrap, still sane.
THEOREM DurationsSound == Spec => []DurationsAsWritten
  <1>1. ASSUME Inv, cfg # None PROVE DurationsAsWritten
    <2> DEFINE timeout == AskedBy(opts["auth_timeout_seconds"], Second, DefaultAuthTimeout)
               ttl == AskedBy(opts["cache_l1_ttl_minutes"], Minute, DefaultCacheL1TTL)
    <2>1. opts \in OptionSets /\ Loads(opts) /\ cfg = LoadConfig(opts)
      BY <1>1 DEF Inv, TypeOK, ConfigInv
    <2>2. cfg.AuthTimeout \in Int /\ cfg.CacheL1TTL \in Int
      BY <2>1, ConfigAccepted DEF Configs
    <2>3. HTTPTimeout(cfg) > 0 /\ L1Expiry(cfg) > 0
      BY <2>2, ConfigAssumption DEF HTTPTimeout, L1Expiry
    <2>4. /\ opts["auth_timeout_seconds"] \in Int \cup {Blank, Text}
          /\ opts["cache_l1_ttl_minutes"] \in Int \cup {Blank, Text}
      BY <2>1, LifecycleAssumption DEF Numbers
    <2>5. /\ cfg.AuthTimeout = DurationOption(opts["auth_timeout_seconds"], Second, DefaultAuthTimeout)
          /\ cfg.CacheL1TTL = DurationOption(opts["cache_l1_ttl_minutes"], Minute, DefaultCacheL1TTL)
      BY <2>1 DEF LoadConfig
    <2>6. /\ Second \in Nat \ {0} /\ DefaultAuthTimeout \in Nat \ {0}
          /\ Minute \in Nat \ {0} /\ DefaultCacheL1TTL \in Nat \ {0}
      BY ConfigAssumption DEF DefaultAuthTimeout, DefaultCacheL1TTL
    <2>7. timeout <= MaxInt => timeout > 0 /\ cfg.AuthTimeout = timeout
      BY <2>4, <2>5, <2>6, DurationAsked
    <2>8. ttl <= MaxInt => ttl > 0 /\ cfg.CacheL1TTL = ttl
      BY <2>4, <2>5, <2>6, DurationAsked
    <2>9. /\ timeout = Asked("auth_timeout_seconds", Second, DefaultAuthTimeout)
          /\ ttl = Asked("cache_l1_ttl_minutes", Minute, DefaultCacheL1TTL)
      BY DEF Asked, AskedBy
    <2> HIDE DEF timeout, ttl
    <2>10. timeout <= MaxInt => HasDeadline(cfg) /\ HTTPTimeout(cfg) = timeout
      BY <2>2, <2>7 DEF HasDeadline, HTTPTimeout
    <2>11. ttl <= MaxInt => L1Expiry(cfg) = ttl
      BY <2>2, <2>8 DEF L1Expiry
    <2> QED BY <2>3, <2>9, <2>10, <2>11 DEF DurationsAsWritten
  <1>2. Inv => DurationsAsWritten
    BY <1>1 DEF DurationsAsWritten
  <1> QED BY LifecycleInvariant, <1>2, PTL
===============================================================================
