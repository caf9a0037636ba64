-------------------------------- MODULE Config --------------------------------
(***************************************************************************)
(* The plugin's options (config.go): mosquitto.conf's plugin_opt_ lines    *)
(* parsed into a Config, and what the constructors make of its durations.  *)
(* An option's text, trimmed, is Blank, Text (anything that is no number), *)
(* or an integer.  Go's int and time.Duration are both 64 bits wide; the   *)
(* width and the units are parameters so that TLC can check a narrow one.  *)
(***************************************************************************)
EXTENDS Integers

CONSTANTS MaxInt,         \* 2^63 - 1
          Second, Minute, \* in nanoseconds
          Blank, Text

Required == {"nats_url", "auth_url", "auth_api_key"}
Strings == Required \cup {"cache_l1_path", "cache_l2_endpoint"}
Numbers == {"auth_timeout_seconds", "cache_l1_ttl_minutes", "worker_pool_size", "buffer_size"}

DefaultAuthTimeout == 5 * Second
DefaultCacheL1TTL == 30 * Minute
DefaultWorkerPoolSize == 4
DefaultBufferSize == 10000
DefaultCacheL1Path == "/var/cache/mqtt"

ASSUME ConfigAssumption ==
  /\ MaxInt \in Nat /\ Second \in Nat \ {0} /\ Minute \in Nat \ {0}
  /\ 5 * Second <= MaxInt /\ 30 * Minute <= MaxInt
  /\ Blank \notin Int /\ Text \notin Int /\ Blank # Text
  /\ Blank # DefaultCacheL1Path

stringOrDefault(v, fallback) == IF v = Blank THEN fallback ELSE v

\* mutant: zero and negative numbers are taken as they are
MutIntOrDefault(v, fallback) ==
  IF v \in {Blank, Text} THEN fallback ELSE IF v <= MaxInt THEN v ELSE fallback

\* Atoi fails on what is no number and on what no int holds.
intOrDefault(v, fallback) ==
  IF v \in {Blank, Text} THEN fallback ELSE IF v \in 1 .. MaxInt THEN v ELSE fallback

\* time.Duration(n) * unit, in two's complement.
Duration(n, unit) ==
  LET p == (n * unit) % (2 * (MaxInt + 1))
  IN IF p > MaxInt THEN p - 2 * (MaxInt + 1) ELSE p

DurationOption(v, unit, default) ==
  LET n == intOrDefault(v, 0) IN IF n > 0 THEN Duration(n, unit) ELSE default

\* LoadConfig refuses the options (no Config) when a required one is blank.
Loads(opts) == \A o \in Required : opts[o] # Blank

LoadConfig(opts) ==
  [NatsURL |-> opts["nats_url"], AuthURL |-> opts["auth_url"],
   AuthAPIKey |-> opts["auth_api_key"],
   AuthTimeout |-> DurationOption(opts["auth_timeout_seconds"], Second, DefaultAuthTimeout),
   WorkerPoolSize |-> intOrDefault(opts["worker_pool_size"], DefaultWorkerPoolSize),
   BufferSize |-> intOrDefault(opts["buffer_size"], DefaultBufferSize),
   CacheL1Path |-> stringOrDefault(opts["cache_l1_path"], DefaultCacheL1Path),
   CacheL1TTL |-> DurationOption(opts["cache_l1_ttl_minutes"], Minute, DefaultCacheL1TTL),
   CacheL2Endpoint |-> opts["cache_l2_endpoint"]]

-------------------------------------------------------------------------------
\* What the constructors, given the Config, demand of it or make of it.
PublisherAccepts(cfg) == cfg.BufferSize > 0 /\ cfg.WorkerPoolSize > 0
AuthClientAccepts(cfg) == cfg.AuthURL # Blank /\ cfg.AuthAPIKey # Blank

\* mutant: the timeout goes to http.Client unchanged
MutHTTPTimeout(cfg) == cfg.AuthTimeout
HTTPTimeout(cfg) == IF cfg.AuthTimeout <= 0 THEN 5 * Second ELSE cfg.AuthTimeout
L1Expiry(cfg) == IF cfg.CacheL1TTL <= 0 THEN 30 * Minute ELSE cfg.CacheL1TTL
\* contextWithTimeout: a CONNECT's context ends only if the timeout is positive.
HasDeadline(cfg) == cfg.AuthTimeout > 0
===============================================================================
