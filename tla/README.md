# mapexMQTTBroker in TLA+

The repository is a plugin that Mosquitto loads into its own process. It decides
which devices may connect and what they may publish, and turns connects,
disconnects and published messages into NATS events. This directory holds its
specification: modules that TLC checks on small instances, and proofs, checked
by TLAPS, of properties for every instance.

## The system

```
            broker thread (Mosquitto, one callback at a time)
  CONNECT ──► goOnBasicAuth ─► Authenticate ─► AuthStore.Get ─► L1 Pebble
                   │                                  │         L2 MinIO
  DISCONNECT ► goOnDisconnect     session map         │         L3 assets service
  PUBLISH ──► goOnAclCheck, goOnMessage               ▲
                   │                                  │ Invalidate
                   ▼                           FanoutConsumer (NATS goroutine)
             AsyncPublisher.Enqueue ─► channel ─► worker goroutines ─► NATS
```

| part | source | module | modelled |
|---|---|---|---|
| publisher | `nats_publisher.go` | `AsyncPublisher`, `BestEffortQueue` | fully |
| auth store | `auth_store.go`, `http_auth.go` | `TieredAuthStore`; construction and `Close` in `PluginLifecycle` | all but the hit counters |
| invalidation | `fanout_consumer.go` | `handle` in `TieredAuthStore`; `Start`, `Stop` and a handler's steps in `PluginLifecycle` | all but two log-only counters |
| runtime | `plugin.go`, `auth_entry.go` | `PluginRuntime` | fully |
| ACL | `acl.go` | `PluginRuntime` | `CheckACL` on parsed usernames and topics |
| callbacks | `plugin/main.go`, `plugin/trampolines.c` | the four callbacks in `PluginRuntime`, init, registration and cleanup in `PluginLifecycle`, advisories in `Presence` | fully |
| assembly | `runtime_init.go` | `PluginLifecycle`, `PluginContract` | fully |
| configuration | `config.go` | `Config`, `PluginLifecycle` | required options, defaults, integers and durations |
| NATS connection | `connect.go` | `PluginLifecycle` | the first dial and `Close`; see "Not modelled" |
| envelopes, format | `payloads.go`, `format.go` | `PluginRuntime`, `Presence` | what an event names and the order of its timestamp |
| logging, version | `log.go`, `plugin/plugin_version.c` | – | output only, a constant |

External to the repository, and modelled only as far as the code relies on them:
Mosquitto (one thread; a CONNECT is authenticated before it displaces an older
connection with the same client id; whether the end of a refused CONNECT is reported
to the plugin is a parameter), NATS, MinIO, the assets service, Pebble's
durability (a synced write makes all earlier ones durable).

## Modules

**`AsyncPublisher`** has one process per caller of `Enqueue` (Producers), caller
of `Drain` (Drainers) and goroutine of the pool (Workers). A step is what another
goroutine can observe: an atomic load or add, a transition of `closeMu`, a channel
operation, a call into NATS. `closeMu` is `readers` and `writer`; a writer that has
called `Lock` already keeps new readers out, as Go's `RWMutex` does. A publish ends
in `ok`, `err` or `panic`. `told`, `sent` and `tried` are history. Jobs are distinct
and each is offered once. `Discard` is the runtime's part in the counters: an event
that `PublishIngress` finds unroutable or too large, or that `publish` cannot marshal,
is added to `dropped` without a call to `Enqueue`; `discarded` counts these as history. `CallDrain` waits for `Start` to have spawned its workers:
`BuildRuntime` runs `Start` to its end before anyone else has the publisher.

**`BestEffortQueue`** is what callers are promised: a job is accepted or refused
(before `Start`, after `Drain`, or for want of room), and an accepted one is handed
over once, with a final outcome. The publisher implements it under the mapping at
the end of `AsyncPublisher`. "Full" is not one number there: a refusal needs at
least `BufferSize` unsettled jobs, and there are never more than `BufferSize` plus
one per worker.

**`TieredAuthStore`** has one `Get` on the broker thread, in the steps at which
others can intervene (L1 read; L2 answer or failure; L3 answer or failure; L1
write), and `handle`/`Invalidate` on the NATS goroutine. An entry is its version.
Ages replace timestamps; both the age and the history component `stale` saturate
just above every bound they are compared with. `images` holds, per key, what a
crash could leave on disk: an unsynced write adds to it, a synced delete collapses
it. `get.elapsed` is the time used of the CONNECT's context; `Tick` is disabled when
a `Get` has reached its deadline, so local steps take no time. The assets service
writes L2 before it sends the invalidation (the order most favourable to the
plugin), and its L3 handler writes through to L2, or fails to. L1 or L2 not configured behaves as
a layer that always misses and is not a separate case.
`ClockBack` sets the wall clock back under the timestamps Pebble keeps; a clock set
forward only makes entries expire sooner, as if time had passed. A missing L2 object and a
corrupt or oversized one are `ReadL2` and `ReadL2Error`. `seen` and `misread` are
history: the version each asset's last answered `Get` went by, be it an entry or the
service's "not found", and the assets of which Pebble
failed to read an entry it had.

**`PluginRuntime`** has Mosquitto's connections, the session map, and one action per
callback outcome. The store's answer and the publisher's acceptance are free, so
the module does not depend on the other two. Passwords and serials are members of
`Secrets`, a username is an asset id, empty or one with a colon, a topic its first
two levels. Serial comparison ignores case in the code and is equality here. A
payload is its size; its event's is what base64 makes of it plus the envelope's other
fields, whose size is any of `EnvelopeSizes`. `out` is the last event offered to the
publisher, or `Discarded` for one that was dropped before.
`kick` is the older connection a takeover is ending: until its `OnDisconnect` the
broker thread runs nothing else. Mosquitto assigns a client id to a client that
sends none, so ids are never empty. `goOnDisconnect` knows a connection by its client
id alone, so it is two actions: `OnDisconnect` for an accepted connection, and
`OnStrayDisconnect` for one that was refused, with an id of `StrayIDs` and a live
connection's session under it. Which refused connections Mosquitto reports depends on
its version; with `StrayIDs` empty none is, and the proofs hold for any. The CN of a certificate is issued elsewhere; the comments describe
it in two ways (`main.go:112` bare, `main.go:302` with the organisation), so both occur.

**`Presence`** composes the connect and disconnect callbacks of `PluginRuntime` with
the publisher, as a `BestEffortQueue` that may refuse, lose and reorder, and asks
what a consumer that keeps the newest advisory of each device believes. Advisories
are numbered in the order of their timestamps, taken one after the other on the
broker thread (a clock set back between two of them is left out). Devices are
admitted by password, which fixes nothing about the session; refused CONNECTs and
messages are left out, as they change no session: messages only fill the queue, so
an advisory may be refused, or fail to marshal, at any time. The reported end of a
refused CONNECT is `StrayDisconnect`. `eclipsed` and `orphaned` are history.

**`Config`** turns the options into a `Config`. An option is blank, text or a number;
`int` and `time.Duration` have the width `MaxInt` gives them, and a product of a
number and a unit wraps as it does in Go.

**`PluginLifecycle`** is one run of the plugin in the broker: `pc` walks the broker
thread through `mosquitto_plugin_init` (`LoadConfig`, `ConnectNATS`, `BuildRuntime`
with each constructor, the two pointers, one registration at a time), serving, and
`mosquitto_plugin_cleanup` (`Stop`, `Close` in its two steps, `Drain`, `nc.Close`).
Every library call that returns an error may fail, and what the code then takes
back is the failure's own steps; `Stop`'s failure to drain the subscription is only
logged, and the subscription then lives until `nc.Close`. Beside it run the NATS goroutine, with
`Invalidate`'s two reads of the `pebbleDB` pointer apart, and the workers. The
publisher is again the abstract queue, which `AsyncPublisher` is proved to
implement. `crash` records a panic nothing recovers.

**`PluginContract`** is what the broker may rely on, with no parts or pointers: the
plugin comes up whole or is refused; it takes events only while it serves, and turns
one away only when its queue is full (an event is what is offered to `Enqueue`: what
the callbacks discard before, `PluginRuntime` has); an event it took is published or fails at most
once, and is published only before the plugin has stopped; the process does not go
down while it serves, nor after it was refused. `PluginLifecycle` implements it, with
`Status` read off the broker thread's `pc`.

`MC*` modules instantiate these for TLC and define the symmetry sets; `*Proofs`
modules hold the theorems.

## What the runs show

| run | instance | shows |
|---|---|---|
| `publisher` | 2 producers, 2 drainers, 2 workers, 3 jobs, 2 slots, 1 discard | no send on the closed channel; counters account for every job at every moment and agree with the answers `Enqueue` gave and the events discarded before it; a `Drain` that waited and returned true left nothing; the pool reorders by less than its size; implements `BestEffortQueue` |
| `publisher_liveness` | 2, 2, 1 worker, 2 jobs, 1 slot, 1 discard | `Enqueue` and `Drain` return though NATS hangs; accepted jobs are tried while it does not |
| `auth_store` | 1 asset, 1 change, TTL 1, timeout 1, clock set back by 1 | a decision is never staler than the TTL plus one timeout plus the set-back; an outdated L1 entry always has one of the listed causes; a synced delete survives crashes; a change or deletion a `Get` has acted on is not forgotten by a later one, crashes included, unless L2 is behind, the clock was set back or Pebble failed a read; the TTL alone restores coherence |
| `runtime` | 2 connections, 2 client ids, 2 assets (one not routable), 2 secrets, payloads at and above the cap, refused connections reported | sessions belong to live connections; ingress carries its sender's identity and topic; a connected device loses its session only to the end of another connection with its client id, taken over or refused; what the ACL lets a device write is exactly the topic of the asset it was admitted as (or nothing, if only its certificate named it); admissions are by the right credential |
| `lifecycle` | 2 events, 2 invalidations, every kind of value for every option | a callback that finds a runtime finds all of it working; a failed init leaves nothing at work (Pebble may stay open); an invalidation brings the process down only after cleanup closed Pebble; the connection is closed on accepted events only if `Drain` timed out; no integer option makes the publisher's or the auth client's constructor refuse, and only a `buffer_size` beyond what `make(chan)` allocates brings init down; durations are as written unless they overflow; init and cleanup end; implements `PluginContract` |
| `presence` | 3 connections, 2 client ids, 2 assets, 4 advisories | a connected device is believed offline, and a departed one online, only if a newer advisory was lost or is under way, or for a takeover, second connection or refused connection of the listed kinds; an asset never has more disconnects announced than connects, lost ones included on both sides |

Runs that contradict a comment or document (each names one property):

| run | code | stated |
|---|---|---|
| `auth_store_race` | an invalidation between the L2 read and the L1 write is undone by the write (`auth_store.go:193`) | "this TTL is just a safety net for the case where a FANOUT message is missed" (`:90`) |
| `auth_store_l2_hang` | L2 and L3 share a deadline (`auth_store.go:190`, `:204`) | "falls through to L3 (HTTP); slower but functional" (`docs/architecture.md:234`) |
| `runtime_takeover` | the old connection's disconnect forgets the new one's session (`main.go:379`) | "Populated on AuthAllow, drained on Disconnect", per connected client (`plugin.go:31`) |
| `runtime_cert_acl` | the ACL sees the empty MQTT username (`main.go:350`) | devices "can CONNECT with an empty username field" (`trampolines.c:114`) |
| `runtime_payload` | 900 KiB become 1200 KiB of base64 (`plugin.go:157`) | headroom "for [...] base64 inflation" in 1 MiB (`plugin.go:12`) |
| `lifecycle_stop` | `Stop` only starts the draining of the subscription (`fanout_consumer.go:116`), and a handler still in `Invalidate` meets a closed Pebble | "unsubscribe + drain in-flight handlers" (`:45`), "waits for in-flight handlers to drain" (`:104`) |

Further disagreements met while modelling, which no run is about:

- An empty `cache_l1_path` does not disable L1 (`config.go:61` says it does):
  `LoadConfig` puts the default path in its place, so `pebbleDB` is never nil in a
  runtime. `InitPebble`'s branch without a path is `NewTieredAuthStore`'s and is not
  reached through `LoadConfig`.
- A second `Drain` returns true at once (`nats_publisher.go:168`), though `:152` says
  "Returns true when all queued jobs drained". The plugin calls it once;
  `DrainedMeansSettled` speaks of the call that waited.
- A `buffer_size` that an `int` holds and `make(chan)` does not panics in
  `NewAsyncPublisher` (`nats_publisher.go:97`) and ends the broker: `OnlyBufferSizeStopsBoot`
  says that nothing else among the integers does. `config.go:124` says "the plugin should
  always boot, and operator misconfiguration is surfaced via the broker log instead of a
  crash".
- `DroppedCount` also counts what the callbacks discard before `Enqueue`
  (`plugin.go:154`, `:161`, `:305`), though it is called the "sum of buffer-full drops AND
  pre-Start drops" (`nats_publisher.go:204`, `docs/architecture.md:263`) and a sign that
  NATS is slow.
- The two auth modes exclude each other in one direction only. An asset in password
  mode is denied when a certificate is presented, but one in certificate mode is
  admitted by its serial whatever password is beside it: the password is not looked
  at (`plugin.go:237`). `plugin.go:231` ("rejects any CONNECT that presents the wrong
  shape"), `docs/config.md:231` ("and vice versa") and `docs/architecture.md:72` ("A
  cert-mode asset presenting a password is denied") say it is refused, and
  `docker/entrypoint.sh:168` ("our plugin still validates username+pwd") that it is checked.
- The end of the old connection of a takeover, or of a refused one, is announced with
  the time of its own callback, which comes after the new connection's connect. So the
  check `disconnectAt > lastConnectAt` that `docs/architecture.md:110` counts on "to ignore
  stale duplicates after a fast reconnect" lets it through; these are the causes
  `eclipsed` collects.
- `Enqueue` after `Drain` returns false without counting it as dropped
  (`nats_publisher.go:138`), though a false return is called the overflow signal and
  the counter its metric (`:120`); so `AnswersAreCounted` has an equation up to `Drain`
  and an inequality after it.
- After a failed `BuildRuntime` `natsConn` still points at the closed connection;
  nothing uses it, since cleanup returns at once without a runtime. After a failed
  MinIO client or registration Pebble stays open.
- Invalidations handled between `Close` and the end of the connection find no
  Pebble and are dropped, yet counted as processed.

### Bounds

Publisher: two slots for three jobs make full and empty buffers, and `Enqueue` before
`Start` and after `Drain`, all happen; two of each process make every pair of
operations race; `MaxDiscards` bounds the discarded events, of which one is enough to
tell a counter that has it from one that has not. Store: one change is enough for every cause of an outdated entry
(the race run has two, for an invalidation overtaking another's); a TTL,
a timeout and a set-back of one tick let an entry expire, become fresh again and lie
in the future; `MaxVersion` and `MaxSkew` bound changes and set-backs, time is bounded
by saturation only. Keys interact only through the disk (a sync of one makes the
others durable), so one asset suffices. Runtime: two connections make a takeover or
two clients side by side; `StrayIDs` has both client ids, so that refused connections
end under a session's id and under none. `EnvelopeSizes` has one size, two where sizes
are the question. Presence: the third connection is the bystander of a
takeover, and four advisories are two connects and two disconnects in any order.
Lifecycle: with 16-bit integers, a second of 12 and a minute of 720 units, some option
wraps to a negative, to zero and to a positive duration, and 32768 fits no `int`;
options do not interact, so one at a time differs from a plain file. `MaxChannel` is
the largest buffer that can be allocated, `MaxPending` bounds undelivered messages.
The proofs hold for all values of these constants.

Deadlock checking is off where the system really stops: the publisher after `Drain`,
the process after cleanup or a crash, and `Presence` once `MaxEvents` advisories are
out.

### Fairness

`AsyncPublisher!FairSpec`: weak fairness of each step of `Enqueue` and `Drain` (the
Go scheduler runs runnable goroutines, the drain timer fires), none for workers.
`AcceptedIsTried` assumes, in the property, that the workers run and Publish
returns. `TieredAuthStore!FairSpec`: time passes and a `Get` in progress proceeds
(its reads are bounded by the context); no message need be delivered, no client
need connect. `PluginLifecycle!FairSpec`: the broker thread keeps taking the steps of
init and of cleanup (`Drain` has a timer, so one of its steps is always possible);
neither the workers nor the handler need ever move, and cleanup need not be called.
It is assumed that the library calls the broker thread makes itself return: the first
dial of NATS, which has a timeout, and Pebble's `Open` and `Close`.

## What is proved

`AsyncPublisherProofs`, for any finite sets of producers and workers, any drainers
and jobs and any positive buffer size (`PublisherAssumption`, what
`NewAsyncPublisher` enforces):

- `TypeCorrect`: `Spec => []TypeOK`, including the buffer's capacity.
- `ChannelSafe`: `Spec => []NoSendOnClosedChannel`. Not inductive: it needs `LockInv`
  (who is between `RLock` and `RUnlock` is in `readers`; only the `writer` is at
  the close) and `OpenInv` (past the check means still open).
- `JobsConserved`: `Spec => []Conservation`, by counting: each action moves one job
  between two of the four terms, with the cardinalities of lemma `CountedSets`.
- `DrainSound`: `Spec => []DrainedMeansSettled`, from `ExitInv` (a worker exits only on
  a closed, empty channel, and nothing is sent to it after that) and the two above.

`PluginRuntimeProofs`, for any connections, client ids, assets, organisations,
secrets, payload and envelope sizes, and any `StrayIDs` (`RuntimeAssumption`: the special usernames are no asset
ids; `NoneAssumption`: a missing value is none of the values):

- `TypeCorrect`: `Spec => []TypeOK`.
- `SessionsSound`: `Spec => []SessionHasConnection`. A takeover in progress breaks the
  bare statement, so the induction carries `SessionInv`, which excepts the client id
  being taken over, and `OnePerId` (two connections share a client id only while one
  of them is being ended, and the other is marked `took`).
- `IngressSound`: `Spec => []IngressIsTheSenders`. The ACL sees the username and the
  envelope the session; `UserIsAsset` (a device's username is empty or its asset's)
  with the two invariants above makes them agree.
- `SessionLoss`: `Spec => []SessionLostToSameClientID`, inductive beside `OnePerId`.
- `AdmissionSound`: `Spec => []AdmittedByTheRightCredential`, by cases on the auth type.
  It says which credential admits, not that no other was presented beside it.
- `ReachSound`: `Spec => []DevicesReachTheirOwnTopic`, in both directions: the ACL grants
  the topic and no other. From `UserIsAsset`.

`AsyncPublisherOrderProofs`, same assumptions:

- `OvertakingBounded`: `Spec => []BoundedOvertaking`. The invariant `OrderInv` says where
  every sent job is: still in the buffer, which is the tail of `sent`, held by exactly
  one worker, or tried once. The jobs a job overtakes are then held by other workers,
  one each, and an injection counts them.
- `PublisherRefines`: `Spec => ImplementsBestEffortQueue`. `OfferInv` (a job is offered by
  one producer at a time) makes each answer the first; a full channel is part of the
  abstract backlog, and backlog beyond it is in the workers' hands (`BacklogBounds`).
- `AnswersCounted`: `Spec => []AnswersAreCounted`. `OfferInv` makes
  each answer a job's only one, so it adds one to one of two finite sets (`CountInv`,
  `AnswerGrows`), and `Uncounted` bridges the moment between sending and counting;
  `Discard` adds one to `dropped` and to the history that stands for it.

`TieredAuthStoreProofs`, for any assets, TTL, timeout, number of changes and set-back
of the clock (`StoreAssumption`):

- `TypeCorrect`, `StalenessSound`, `OutdatedSound`, `InvalidationDurable`: the four safety
  properties of the run. None is inductive: what they say of the entry in L1 must be
  known of every image a crash could restore (`DiskSound`) and of the copy a `Get` is
  about to write (`GetSound`). The bound on staleness compares an entry's age with its
  staleness, up to set-backs still to come (`Aged`).
- `ChangesKept`: `Spec => ChangesAreNotForgotten`, an action property. `ReadInv` carries
  it: as long as the clock was not set back, nothing a crash could restore is younger
  than what L1 holds (`Youngest`); unless Pebble failed to read it, what is fresh on
  disk is what the last `Get` saw, and nothing is fresh while a `Get` is past L1
  (`Current`); and what a `Get` is about to write is what it saw (`WarmSeen`). So an
  unsynced write only ever replaces an entry that is missing or too old to be served,
  and a crash that takes it back restores nothing that is served.
  `NoneIsNoCopy` keeps a missing entry apart from the entries.

`PluginLifecycleProofs`, for any configuration files, width of integers, units, events
and messages (`ConfigAssumption`: the defaults fit the width; `LifecycleAssumption`):

- `TypeCorrect`, `RuntimeWhole`, `FailureInert`, `CrashConfined`, `OrderlyShutdown`,
  `OptionsAccepted`, `DurationsSound`: the seven safety properties of the run. The
  invariant lists, for each point of the broker thread, which parts exist and in what
  state (`ConfigInv`, `PointerInv`, `PublisherInv`, `StoreInv`), and ties the handler to
  Pebble (`HandlerInv`). A publisher is opened only of a buffer that can be allocated
  (`PublisherInv`), which with `ConfigAccepted`, that `LoadConfig` satisfies the
  constructors, is `OptionsAccepted`. Lemma `DurationFits` is the arithmetic of the wrap.

`PresenceProofs`, for any connections, client ids, assets and advisories:

- `OfflineSound`, `OnlineSound`: every step of `Presence` is one of `PluginRuntime`
  (`PresenceIsRuntime`), so its session invariants carry over; `PresenceInv` relates the
  newest advisory said of a device to its connections, sessions and the two histories,
  and `BeliefIsLast` reduces what the consumer believes to that advisory.

- `DisconnectsPaidFor`: `PSpec => []DisconnectsAnswerConnects`. `LedgerInv` is the balance:
  the disconnects said of an asset and its sessions together are at most the connects
  said of it, so a disconnect always uses up a session. Both sides count advisories
  that reached NATS and that did not (`HeardAndMissed`): of those that did alone it
  does not hold, since a connect can be lost and its disconnect not.

`PluginContractProofs`, assumptions of `PluginLifecycleProofs`:

- `LifecycleRefines`: `Spec => ImplementsPluginContract`, one lemma for each kind of step
  (`ThreadMaps`, `CallbackMaps`, `SettleMaps`, `CrashMaps`; the handler's steps are hidden,
  `HiddenMaps`). Beside the lifecycle's invariant it needs `UnconnectedInv`: nothing
  is queued while there is no NATS connection, so a worker has an event to settle only
  while the plugin serves, stops, or has stopped; in the last case the connection is
  closed and the event fails.

Only model-checked: liveness (`EnqueueReturns`, `DrainReturns`, `AcceptedIsTried`,
`EventuallyCoherent`, `BrokerThreadReturns`), which needs fairness and is outside what
the provers handle. Every other property of a passing run is proved.

## Not modelled

- The reconnecting inside the NATS client (`connect.go`'s options and log hooks). Its
  effect is in the models: a publish may fail, hang or panic, a message may be lost.
  A job is settled when `Publish` returned, that is, when the client has it. What the
  client still holds for a server it has lost (`connect.go:25`) goes with `nc.Close`,
  after an orderly `Drain` too.
- Counters that are only logged (the store's hits, the HTTP client's, the fanout
  consumer's). The fanout consumer's two are read by `Stop` while `handle` may write
  them; nothing else depends on them.
- HTTP headers, the JSON envelopes, MinIO's object layout, log and reason texts.
- A second init in the same process: Mosquitto loads a plugin once.
- Two disconnect callbacks for one connection: Mosquitto is taken to run one for each.
- A `worker_pool_size` of more goroutines than there is memory for.
- The plugin's version export and the logger.
