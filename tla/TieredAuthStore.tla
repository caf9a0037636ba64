---------------------------- MODULE TieredAuthStore ----------------------------
(***************************************************************************)
(* The auth read path (auth_store.go, http_auth.go) and the invalidation   *)
(* consumer (fanout_consumer.go): Get on the broker thread walks L1 Pebble,*)
(* L2 MinIO and L3 HTTP and warms L1, while handle() deletes L1 entries on *)
(* the NATS goroutine, the assets service changes the assets, messages get *)
(* lost, layers go down, time passes and the process crashes.  An entry is *)
(* abstracted to its version; time advances in ticks, and ages are kept    *)
(* instead of timestamps, saturating where no comparison can tell.         *)
(***************************************************************************)
EXTENDS Integers

CONSTANTS Assets,
          L1TTL,       \* ticks an L1 entry stays valid
          AuthTimeout, \* ticks the CONNECT's context lives, L2 and L3 together
          MaxVersion,  \* bound on the changes made to an asset
          MaxSkew,     \* bound on the ticks the wall clock is set back, in all
          None

ASSUME StoreAssumption == /\ L1TTL \in Nat /\ AuthTimeout \in Nat \ {0}
                          /\ MaxVersion \in Nat /\ MaxSkew \in Nat

VARIABLES
  db, l2,          \* per asset [ver, live]: in the assets service, in MinIO
  projecting,      \* assets changed in db and not yet written to L2
  fanout,          \* per asset, invalidate messages on their way
  l2Up,            \* MinIO answers
  up,              \* the plugin process runs
  l1,              \* per asset, the cached copy or None
  images,          \* per asset, what a crash now could leave in l1
  get,             \* the Get on the broker thread [pc, asset, elapsed, copy]
  skew,            \* ticks the wall clock has been set back so far
  last,            \* history: how the last Get ended [kind, stale], until the next
  missed, rewarmed,\* history: assets with an invalidation that came to nothing
                   \* since the last that took effect; assets whose L1 entry a
                   \* Get has written since then
  seen, misread    \* history: per asset, the version the last Get to be answered
                   \* was answered from, an entry or "not found"; assets whose
                   \* L1 entry, still fresh, Pebble could not read, since the
                   \* last invalidation of theirs

service == <<db, projecting, l2Up>>
pebble == <<l1, images>>
reads == <<seen, misread>>
history == <<missed, rewarmed, reads>>
vars == <<service, l2, fanout, up, pebble, get, skew, last, history>>

StaleBound == L1TTL + AuthTimeout + MaxSkew
AgeBound == L1TTL + 1 + MaxSkew

\* A copy of an entry: its version, how long ago it was cached, and, as
\* history, for how long L2 has held a newer one and whether an invalidation
\* overtook it between its read and its write to L1.
Copies == [ver : 0 .. MaxVersion, age : -MaxSkew .. AgeBound,
           stale : 0 .. StaleBound + 1, raced : BOOLEAN]
ASSUME NoneIsNoCopy == None \notin Copies
Snapshots == [ver : 0 .. MaxVersion, live : BOOLEAN]
CopyOf(s) == [ver |-> s.ver, age |-> 0, stale |-> 0, raced |-> FALSE]
Idle == [pc |-> "idle", asset |-> None, elapsed |-> 0, copy |-> None]
NoResult == [kind |-> "none", stale |-> 0]

Init == /\ db \in [Assets -> [ver : {0}, live : BOOLEAN]] /\ l2 = db
        /\ projecting = {} /\ fanout = [a \in Assets |-> 0]
        /\ l2Up = TRUE /\ up = TRUE
        /\ l1 = [a \in Assets |-> None] /\ images = [a \in Assets |-> {None}]
        /\ get = Idle /\ skew = 0 /\ last = NoResult
        /\ missed = {} /\ rewarmed = {}
        /\ seen = [a \in Assets |-> 0] /\ misread = {}

-------------------------------------------------------------------------------
\* The assets service: a CRUD commits, then its projection reaches L2 and the
\* invalidation goes out.
Crud(a) == /\ a \notin projecting /\ db[a].ver < MaxVersion
           /\ \E alive \in BOOLEAN :
                db' = [db EXCEPT ![a] = [ver |-> db[a].ver + 1, live |-> alive]]
           /\ projecting' = projecting \cup {a}
           /\ UNCHANGED <<l2, fanout, l2Up, up, pebble, get, skew, last, history>>

Project(a) == /\ a \in projecting /\ l2Up
              /\ l2' = [l2 EXCEPT ![a] = db[a]]
              /\ projecting' = projecting \ {a}
              /\ fanout' = [fanout EXCEPT ![a] = @ + 1]
              /\ UNCHANGED <<db, l2Up, up, pebble, get, skew, last, history>>

Outage == /\ l2Up' = ~l2Up
          /\ UNCHANGED <<db, projecting, l2, fanout, up, pebble, get, skew, last, history>>

-------------------------------------------------------------------------------
\* mutant: entries never expire
MutFresh(c) == c.age <= AgeBound
\* readL1's expiry test.
Fresh(c) == c.age <= L1TTL

GetL1Hit(a) ==
  /\ up /\ get.pc = "idle" /\ l1[a] # None /\ Fresh(l1[a])
  /\ last' = [kind |-> "entry", stale |-> l1[a].stale]
  /\ seen' = [seen EXCEPT ![a] = l1[a].ver]
  /\ UNCHANGED <<service, l2, fanout, up, pebble, get, skew, missed, rewarmed, misread>>

\* No entry, an expired one, or one Pebble cannot read or decode.
GetL1Miss(a) ==
  /\ up /\ get.pc = "idle"
  /\ get' = [Idle EXCEPT !.pc = "l2", !.asset = a] /\ last' = NoResult
  /\ misread' = IF l1[a] # None /\ Fresh(l1[a]) THEN misread \cup {a} ELSE misread
  /\ UNCHANGED <<service, l2, fanout, up, pebble, skew, missed, rewarmed, seen>>

\* MinIO answers; the answer may take the rest of the timeout to arrive.
ReadL2 ==
  /\ get.pc = "l2" /\ l2Up
  /\ \/ /\ l2[get.asset].live
        /\ get' = [get EXCEPT !.pc = "warm", !.copy = CopyOf(l2[get.asset])]
        /\ seen' = [seen EXCEPT ![get.asset] = l2[get.asset].ver]
     \/ ~l2[get.asset].live /\ get' = [get EXCEPT !.pc = "l3"] /\ UNCHANGED seen
  /\ UNCHANGED <<service, l2, fanout, up, pebble, skew, last, missed, rewarmed, misread>>

\* MinIO fails at once, or is silent (or retried by its client) until the
\* context's deadline.
ReadL2Error ==
  /\ get.pc = "l2" /\ (~l2Up \/ get.elapsed = AuthTimeout)
  /\ get' = [get EXCEPT !.pc = "l3"]
  /\ UNCHANGED <<service, l2, fanout, up, pebble, skew, last, history>>

\* LookupEntry gets a 200; the service's handler writes through to L2, which
\* may fail and, while MinIO is down, does.
ReadL3Hit ==
  /\ get.pc = "l3" /\ get.elapsed < AuthTimeout /\ db[get.asset].live
  /\ get' = [get EXCEPT !.pc = "warm", !.copy = CopyOf(db[get.asset])]
  /\ seen' = [seen EXCEPT ![get.asset] = db[get.asset].ver]
  /\ UNCHANGED l2 \/ (l2Up /\ l2' = [l2 EXCEPT ![get.asset] = db[get.asset]])
  /\ UNCHANGED <<service, fanout, up, pebble, skew, last, missed, rewarmed, misread>>

ReadL3NotFound ==
  /\ get.pc = "l3" /\ get.elapsed < AuthTimeout /\ ~db[get.asset].live
  /\ get' = Idle /\ last' = [kind |-> "notfound", stale |-> 0]
  /\ seen' = [seen EXCEPT ![get.asset] = db[get.asset].ver]
  /\ UNCHANGED <<service, l2, fanout, up, pebble, skew, missed, rewarmed, misread>>

\* No usable answer: no connection, no time left, another status, a bad body.
ReadL3Error ==
  /\ get.pc = "l3"
  /\ get' = Idle /\ last' = [kind |-> "unavailable", stale |-> 0]
  /\ UNCHANGED <<service, l2, fanout, up, pebble, skew, history>>

\* writeL1 without a sync: a crash may still restore what was there before.
WriteL1 ==
  /\ get.pc = "warm"
  /\ l1' = [l1 EXCEPT ![get.asset] = get.copy]
  /\ images' = [images EXCEPT ![get.asset] = @ \cup {get.copy}]
  /\ rewarmed' = rewarmed \cup {get.asset}
  /\ get' = Idle /\ last' = [kind |-> "entry", stale |-> get.copy.stale]
  /\ UNCHANGED <<service, l2, fanout, up, skew, missed, reads>>

\* writeL1 is best effort: the entry is returned all the same.
WriteL1Fails ==
  /\ get.pc = "warm"
  /\ get' = Idle /\ last' = [kind |-> "entry", stale |-> get.copy.stale]
  /\ UNCHANGED <<service, l2, fanout, up, pebble, skew, history>>

GetStep == \/ ReadL2 \/ ReadL2Error \/ ReadL3Hit \/ ReadL3NotFound \/ ReadL3Error
           \/ WriteL1 \/ WriteL1Fails

-------------------------------------------------------------------------------
Overtaken(a) == IF get.pc = "warm" /\ get.asset = a
                  THEN [get EXCEPT !.copy.raced = TRUE] ELSE get

\* mutant: the delete is not synced to disk
MutInvalidate(a) ==
  /\ up /\ fanout[a] > 0
  /\ l1' = [l1 EXCEPT ![a] = None]
  /\ images' = [images EXCEPT ![a] = @ \cup {None}]
  /\ fanout' = [fanout EXCEPT ![a] = @ - 1]
  /\ get' = Overtaken(a) /\ missed' = missed \ {a} /\ rewarmed' = rewarmed \ {a}
  /\ misread' = misread \ {a}
  /\ UNCHANGED <<service, l2, up, skew, last, seen>>

\* mutant: the handler counts the message and deletes nothing
MutHandle(a) ==
  /\ up /\ fanout[a] > 0
  /\ fanout' = [fanout EXCEPT ![a] = @ - 1]
  /\ get' = Overtaken(a) /\ missed' = missed \ {a}
  /\ UNCHANGED <<service, l2, up, pebble, skew, last, rewarmed, reads>>

\* handle(): Invalidate deletes with a sync, which also makes every earlier
\* write durable.
Invalidate(a) ==
  /\ up /\ fanout[a] > 0
  /\ l1' = [l1 EXCEPT ![a] = None]
  /\ images' = [b \in Assets |-> {l1'[b]}]
  /\ fanout' = [fanout EXCEPT ![a] = @ - 1]
  /\ get' = Overtaken(a) /\ missed' = missed \ {a} /\ rewarmed' = rewarmed \ {a}
  /\ misread' = misread \ {a}
  /\ UNCHANGED <<service, l2, up, skew, last, seen>>

\* Core NATS loses the message, it finds the process down, or handle() drops
\* it: malformed, no asset, or Invalidate failed.
MissInvalidation(a) ==
  /\ fanout[a] > 0 /\ fanout' = [fanout EXCEPT ![a] = @ - 1]
  /\ missed' = missed \cup {a}
  /\ UNCHANGED <<service, l2, up, pebble, get, skew, last, rewarmed, reads>>

-------------------------------------------------------------------------------
\* A crash keeps, for each asset, something the disk may hold.
Crash == /\ up /\ up' = FALSE /\ get' = Idle /\ last' = NoResult
         /\ l1' \in [Assets -> UNION {images[a] : a \in Assets}]
         /\ \A a \in Assets : l1'[a] \in images[a]
         /\ images' = [a \in Assets |-> {l1'[a]}]
         /\ UNCHANGED <<service, l2, fanout, skew, history>>

Restart == /\ ~up /\ up' = TRUE
           /\ UNCHANGED <<service, l2, fanout, pebble, get, skew, last, history>>

Sat(n, bound) == IF n < bound THEN n + 1 ELSE n

Older(c, a) ==
  IF c = None THEN None
  ELSE [c EXCEPT !.age = Sat(@, AgeBound),
                 !.stale = IF c.ver < l2[a].ver THEN Sat(@, StaleBound + 1) ELSE @]

Younger(c) == IF c = None THEN None ELSE [c EXCEPT !.age = @ - 1]

\* mutant: Get runs without a deadline
MutTick ==
  /\ l1' = [a \in Assets |-> Older(l1[a], a)]
  /\ images' = [a \in Assets |-> {Older(c, a) : c \in images[a]}]
  /\ get' = IF get.pc = "idle" THEN get
            ELSE [get EXCEPT !.elapsed = @ + 1, !.copy = Older(@, get.asset)]
  /\ UNCHANGED <<service, l2, fanout, up, skew, last, history>>

\* Time passes, but a Get in progress outlives its context by no tick.
Tick ==
  /\ get.pc # "idle" => get.elapsed < AuthTimeout
  /\ l1' = [a \in Assets |-> Older(l1[a], a)]
  /\ images' = [a \in Assets |-> {Older(c, a) : c \in images[a]}]
  /\ get' = IF get.pc = "idle" THEN get
            ELSE [get EXCEPT !.elapsed = @ + 1,
                             !.copy = IF @ = None THEN None
                                      ELSE [Older(@, get.asset) EXCEPT !.age = 0]]
  /\ UNCHANGED <<service, l2, fanout, up, skew, last, history>>

\* The wall clock is set back: to readL1, which compares it with the timestamp
\* on disk, every entry is younger, or even from the future.
ClockBack ==
  /\ skew < MaxSkew /\ skew' = skew + 1
  /\ l1' = [a \in Assets |-> Younger(l1[a])]
  /\ images' = [a \in Assets |-> {Younger(c) : c \in images[a]}]
  /\ UNCHANGED <<service, l2, fanout, up, get, last, history>>

Next == \/ \E a \in Assets : \/ Crud(a) \/ Project(a) \/ GetL1Hit(a) \/ GetL1Miss(a)
                             \/ Invalidate(a) \/ MissInvalidation(a)
        \/ GetStep \/ Outage \/ Crash \/ Restart \/ Tick \/ ClockBack

Spec == Init /\ [][Next]_vars

\* Time goes on and a Get in progress is carried through; nothing else need
\* ever happen.
FairSpec == Spec /\ WF_vars(Tick) /\ WF_vars(GetStep)

-------------------------------------------------------------------------------
TypeOK ==
  /\ db \in [Assets -> Snapshots] /\ l2 \in [Assets -> Snapshots]
  /\ projecting \subseteq Assets /\ fanout \in [Assets -> 0 .. MaxVersion]
  /\ l2Up \in BOOLEAN /\ up \in BOOLEAN
  /\ l1 \in [Assets -> Copies \cup {None}]
  /\ images \in [Assets -> SUBSET (Copies \cup {None})]
  /\ get \in [pc : {"idle", "l2", "l3", "warm"}, asset : Assets \cup {None},
              elapsed : 0 .. AuthTimeout, copy : Copies \cup {None}]
  /\ skew \in 0 .. MaxSkew
  /\ last \in [kind : {"none", "entry", "notfound", "unavailable"}, stale : 0 .. StaleBound + 1]
  /\ missed \subseteq Assets /\ rewarmed \subseteq Assets
  /\ seen \in [Assets -> 0 .. MaxVersion] /\ misread \subseteq Assets

\* Whatever is lost, raced or restored by a crash, a CONNECT is never decided
\* on an entry that L2 replaced more than L1TTL plus one Get timeout ago, plus
\* what the wall clock has been set back under the timestamps on disk.
StalenessBounded == last.kind = "entry" => last.stale <= L1TTL + AuthTimeout + skew

Servable(a) == l1[a] # None /\ Fresh(l1[a])
Outdated(a) == l1[a].ver < l2[a].ver

\* L1 serves an outdated entry only while its invalidation is still coming, or
\* because one came to nothing, or because one was overtaken by the very Get
\* that wrote the entry.
OutdatedNeedsACause ==
  \A a \in Assets : Servable(a) /\ Outdated(a) =>
     a \in projecting \/ fanout[a] > 0 \/ a \in missed \/ l1[a].raced

\* What Invalidate deleted stays deleted, across a crash and a restart: L1 only
\* holds what a Get has written since.
InvalidatedStaysGone == \A a \in Assets : l1[a] # None => a \in rewarmed

\* Once a CONNECT has met a change, the deletion of the asset included, no later
\* one is decided on what was there before, not even after a crash, unless L2 itself is behind the change, or the
\* wall clock was set back, or Pebble failed to read an entry it had.
ChangesAreNotForgotten ==
  [][\A a \in Assets : seen'[a] < seen[a] =>
       l2[a].ver < seen[a] \/ skew > 0 \/ a \in misread]_vars

\* Once the assets stop changing in L2, L1 stops serving outdated entries,
\* even if no invalidation is ever delivered and no Get refreshes them.
EventuallyCoherent ==
  <>(\A a \in Assets : l2[a].ver = MaxVersion)
     => <>[](\A a \in Assets : Servable(a) => ~Outdated(a))

\* auth_store.go:90: "The FANOUT path keeps L1 coherent with Mongo at write
\* time; this TTL is just a safety net for the case where a FANOUT message is
\* missed".
CoherentUnlessMissed ==
  \A a \in Assets : Servable(a) /\ Outdated(a) =>
     a \in projecting \/ fanout[a] > 0 \/ a \in missed

\* architecture.md:234: "L2 (MinIO) down | L1 miss falls through to L3 (HTTP);
\* slower but functional": L3 is asked with time left to answer.
L2DownFallsThrough ==
  [][get.pc = "l2" /\ ~l2Up /\ get'.pc = "l3" => get'.elapsed < AuthTimeout]_vars
===============================================================================
