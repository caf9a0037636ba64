------------------------- MODULE TieredAuthStoreProofs -------------------------
(***************************************************************************)
(* The safety of the auth store for any set of assets, any TTL, timeout,   *)
(* number of changes and set-back of the clock.  None of the properties is *)
(* inductive: what they say of the entry in L1 has to be known of every    *)
(* image a crash could restore and of the copy a Get is about to write.    *)
(***************************************************************************)
EXTENDS TieredAuthStore, TLAPS

\* Why a copy of a's entry may be older than L2's.
Caused(c, a) == c.ver < l2[a].ver =>
                  a \in projecting \/ fanout[a] > 0 \/ a \in missed \/ c.raced

\* A copy is no staler than its age, the Get that wrote it and the set-backs
\* account for, or it is too old for the set-backs left to make it fresh again.
Aged(c) == \/ c.stale <= c.age + AuthTimeout + skew
           \/ c.age > L1TTL + MaxSkew - skew

Sound(c, a) == c # None => /\ c.age >= -skew /\ Aged(c)
                           /\ Caused(c, a) /\ a \in rewarmed

\* What the disk holds, or may hold after a crash.
DiskSound == \A a \in Assets : l1[a] \in images[a] /\ \A c \in images[a] : Sound(c, a)

\* What a Get has read is as fresh as the Get is young.
GetSound == /\ get.pc # "idle" => get.asset \in Assets
            /\ get.pc = "warm" => /\ get.copy \in Copies /\ get.copy.age = 0
                                  /\ get.copy.stale <= get.elapsed
                                  /\ Caused(get.copy, get.asset)

\* L2 lags behind the service, and messages are under way, only after a change.
Lagging == \A a \in Assets :
             /\ l2[a].ver <= db[a].ver /\ (a \notin projecting => l2[a].ver = db[a].ver)
             /\ fanout[a] + (IF a \in projecting THEN 1 ELSE 0) <= db[a].ver

Inv == TypeOK /\ DiskSound /\ GetSound /\ Lagging /\ StalenessBounded

-------------------------------------------------------------------------------
\* A fresh copy of what L2 or the service holds is a copy.
LEMMA CopyOfType == ASSUME NEW s \in Snapshots PROVE CopyOf(s) \in Copies
  BY StoreAssumption DEF CopyOf, Copies, Snapshots, AgeBound, StaleBound

\* A tick keeps a copy a copy, its version and its race, and ages it by one
\* tick, up to the cap, and makes it staler by one at most.
LEMMA OlderFacts ==
  ASSUME TypeOK, NEW a \in Assets, NEW c \in Copies
  PROVE  LET o == Older(c, a) IN
         c # None => /\ o \in Copies /\ o.ver = c.ver /\ o.raced = c.raced
                     /\ o.age = (IF c.age < AgeBound THEN c.age + 1 ELSE c.age)
                     /\ o.stale \in c.stale .. c.stale + 1
  <1> SUFFICES ASSUME c # None
               PROVE LET o == Older(c, a) IN
                     /\ o \in Copies /\ o.ver = c.ver /\ o.raced = c.raced
                     /\ o.age = (IF c.age < AgeBound THEN c.age + 1 ELSE c.age)
                     /\ o.stale \in c.stale .. c.stale + 1
    OBVIOUS
  <1> DEFINE age == IF c.age < AgeBound THEN c.age + 1 ELSE c.age
             stale == IF c.ver < l2[a].ver THEN Sat(c.stale, StaleBound + 1) ELSE c.stale
  <1>1. age \in -MaxSkew .. AgeBound
    BY StoreAssumption DEF Copies, AgeBound
  <1>2. stale \in 0 .. StaleBound + 1 /\ stale \in c.stale .. c.stale + 1
    BY StoreAssumption DEF Copies, StaleBound, Sat
  <1>3. Older(c, a) = [c EXCEPT !.age = age, !.stale = stale]
    BY DEF Older, Sat
  <1> HIDE DEF age, stale
  <1>4. /\ [c EXCEPT !.age = age, !.stale = stale] \in Copies
        /\ [c EXCEPT !.age = age, !.stale = stale].ver = c.ver
        /\ [c EXCEPT !.age = age, !.stale = stale].raced = c.raced
        /\ [c EXCEPT !.age = age, !.stale = stale].age = age
        /\ [c EXCEPT !.age = age, !.stale = stale].stale = stale
    BY <1>1, <1>2 DEF Copies
  <1> QED BY <1>2, <1>3, <1>4 DEF age

\* Set back, the clock takes one tick off a copy's age and nothing else.
LEMMA YoungerFacts ==
  ASSUME TypeOK, skew < MaxSkew, NEW c \in Copies, c # None, c.age >= -skew
  PROVE  LET y == Younger(c) IN
         /\ y \in Copies /\ y.ver = c.ver /\ y.raced = c.raced
         /\ y.age = c.age - 1 /\ y.stale = c.stale
  <1>1. c.age - 1 \in -MaxSkew .. AgeBound
    BY StoreAssumption DEF TypeOK, Copies, AgeBound
  <1>2. Younger(c) = [c EXCEPT !.age = c.age - 1]
    BY DEF Younger
  <1> QED BY <1>1, <1>2 DEF Copies

-------------------------------------------------------------------------------
\* The initial state is sound: nothing is cached, nothing is being read.
LEMMA InitInv == Init => Inv
  <1> SUFFICES ASSUME Init PROVE Inv
    OBVIOUS
  <1> USE StoreAssumption DEF Init
  <1>1. TypeOK
    <2>1. [ver : {0}, live : BOOLEAN] \subseteq Snapshots
      BY DEF Snapshots
    <2>2. get \in [pc : {"idle", "l2", "l3", "warm"}, asset : Assets \cup {None},
                   elapsed : 0 .. AuthTimeout, copy : Copies \cup {None}]
      BY DEF Idle
    <2>3. last \in [kind : {"none", "entry", "notfound", "unavailable"},
                    stale : 0 .. StaleBound + 1]
      BY DEF NoResult, StaleBound
    <2>4. db \in [Assets -> Snapshots] /\ l2 \in [Assets -> Snapshots]
      BY <2>1
    <2>5. /\ projecting \subseteq Assets /\ missed \subseteq Assets /\ rewarmed \subseteq Assets
          /\ fanout \in [Assets -> 0 .. MaxVersion] /\ skew \in 0 .. MaxSkew
          /\ seen \in [Assets -> 0 .. MaxVersion] /\ misread \subseteq Assets
      OBVIOUS
    <2>6. /\ l1 \in [Assets -> Copies \cup {None}]
          /\ images \in [Assets -> SUBSET (Copies \cup {None})]
      OBVIOUS
    <2> QED BY <2>2, <2>3, <2>4, <2>5, <2>6 DEF TypeOK
  <1>2. DiskSound
    BY DEF DiskSound, Sound
  <1>3. GetSound /\ StalenessBounded
    BY DEF GetSound, Idle, StalenessBounded, NoResult
  <1>4. Lagging
    <2>1. \A a \in Assets : db[a] \in [ver : {0}, live : BOOLEAN]
      OBVIOUS
    <2>2. \A a \in Assets : db[a].ver = 0
      BY <2>1
    <2>3. \A a \in Assets : fanout[a] = 0 /\ l2[a].ver = db[a].ver /\ a \notin projecting
      OBVIOUS
    <2> HIDE DEF Init
    <2>4. ASSUME NEW a \in Assets
          PROVE fanout[a] + (IF a \in projecting THEN 1 ELSE 0) <= db[a].ver
      BY <2>2, <2>3
    <2>5. ASSUME NEW a \in Assets PROVE l2[a].ver <= db[a].ver
      <3>1. l2[a].ver = 0 /\ db[a].ver = 0
        BY <2>2, <2>3
      <3> QED BY <3>1
    <2> QED BY <2>3, <2>4, <2>5 DEF Lagging
  <1> QED BY <1>1, <1>2, <1>3, <1>4 DEF Inv

\* L2 and the messages keep up with the service, whatever happens.
LEMMA LagStep == Inv /\ [Next]_vars => Lagging'
  <1> SUFFICES ASSUME Inv, [Next]_vars PROVE Lagging'
    OBVIOUS
  <1> USE StoreAssumption DEF Inv, TypeOK, Lagging, Snapshots
  <1>1. ASSUME NEW a \in Assets, Crud(a) PROVE Lagging'
    BY <1>1 DEF Crud
  <1>2. ASSUME NEW a \in Assets, Project(a) PROVE Lagging'
    BY <1>2 DEF Project
  <1>3. ASSUME NEW a \in Assets, Invalidate(a) \/ MissInvalidation(a) PROVE Lagging'
    <2>1. CASE Invalidate(a)
      BY <2>1 DEF Invalidate, service
    <2>2. CASE MissInvalidation(a)
      BY <2>2 DEF MissInvalidation, service
    <2> QED BY <1>3, <2>1, <2>2
  <1>4. CASE ReadL3Hit
    BY <1>4 DEF ReadL3Hit, service, GetSound
  <1>5. ASSUME UNCHANGED <<db, l2, projecting, fanout>> PROVE Lagging'
    BY <1>5
  <1>6. ASSUME NEW a \in Assets, GetL1Hit(a) \/ GetL1Miss(a) PROVE Lagging'
    BY <1>5, <1>6 DEF GetL1Hit, GetL1Miss, service
  <1>7. CASE GetStep
    BY <1>4, <1>5, <1>7 DEF GetStep, ReadL2, ReadL2Error, ReadL3NotFound, ReadL3Error,
       WriteL1, WriteL1Fails, service
  <1>8. CASE Outage \/ Crash \/ Restart \/ Tick \/ ClockBack
    BY <1>5, <1>8 DEF Outage, Crash, Restart, Tick, ClockBack, service
  <1>9. CASE UNCHANGED vars
    BY <1>5, <1>9 DEF vars, service
  <1> QED BY <1>1, <1>2, <1>3, <1>6, <1>7, <1>8, <1>9 DEF Next
\* Only a's own invalidation takes away what excuses an outdated copy of a.
LEMMA CauseKept ==
  ASSUME TypeOK, GetSound, Lagging, NEW a \in Assets, NEW c, Caused(c, a),
         \/ \E b \in Assets : Crud(b) \/ Project(b) \/ MissInvalidation(b)
         \/ \E b \in Assets \ {a} : Invalidate(b)
         \/ ReadL3Hit
         \/ UNCHANGED <<db, l2, projecting, fanout, missed>>
  PROVE  c.ver < l2'[a].ver =>
           a \in projecting' \/ fanout'[a] > 0 \/ a \in missed' \/ c.raced
  <1> DEFINE Goal == c.ver < l2'[a].ver =>
                       a \in projecting' \/ fanout'[a] > 0 \/ a \in missed' \/ c.raced
  <1> USE DEF Caused
  <1>0. /\ fanout \in [Assets -> 0 .. MaxVersion] /\ l2 \in [Assets -> Snapshots]
    BY DEF TypeOK
  <1>1. ASSUME NEW b \in Assets, Crud(b) PROVE Goal
    BY <1>1 DEF Crud, history
  <1>2. ASSUME NEW b \in Assets, Project(b) PROVE Goal
    <2>1. CASE a = b
      BY <1>0, <1>2, <2>1, StoreAssumption DEF Project
    <2>2. CASE a # b
      BY <1>0, <1>2, <2>2 DEF Project, history
    <2> QED BY <2>1, <2>2
  <1>3. ASSUME NEW b \in Assets, MissInvalidation(b) PROVE Goal
    BY <1>0, <1>3 DEF MissInvalidation, service
  <1>4. ASSUME NEW b \in Assets \ {a}, Invalidate(b) PROVE Goal
    BY <1>0, <1>4 DEF Invalidate, service
  <1>5. CASE ReadL3Hit
    <2>1. CASE get.asset = a
      BY <1>0, <1>5, <2>1 DEF ReadL3Hit, Lagging, service, history
    <2>2. CASE get.asset # a
      BY <1>0, <1>5, <2>2 DEF ReadL3Hit, service, history
    <2> QED BY <2>1, <2>2
  <1>6. CASE UNCHANGED <<db, l2, projecting, fanout, missed>>
    BY <1>6
  <1> QED BY <1>1, <1>2, <1>3, <1>4, <1>5, <1>6

\* What a Get holds stays as fresh as the Get is young.
LEMMA ReadStep == Inv /\ [Next]_vars => GetSound'
  <1> SUFFICES ASSUME Inv, [Next]_vars PROVE GetSound'
    OBVIOUS
  <1> DEFINE Excused(c, a) == c.ver < l2'[a].ver =>
                a \in projecting' \/ fanout'[a] > 0 \/ a \in missed' \/ c.raced
  <1>0. TypeOK /\ GetSound /\ Lagging
    BY DEF Inv
  <1>1. ASSUME UNCHANGED get, get.pc = "warm" => Excused(get.copy, get.asset)
        PROVE GetSound'
    BY <1>0, <1>1 DEF GetSound, Caused
  <1>2. ASSUME NEW a \in Assets, Crud(a) \/ Project(a) \/ MissInvalidation(a)
        PROVE GetSound'
    <2>1. UNCHANGED get
      BY <1>2 DEF Crud, Project, MissInvalidation
    <2>2. get.pc = "warm" => Excused(get.copy, get.asset)
      BY <1>0, <1>2, CauseKept DEF GetSound
    <2> QED BY <1>1, <2>1, <2>2
  <1>3. ASSUME NEW a \in Assets, Invalidate(a) PROVE GetSound'
    <2>1. CASE get.pc = "warm" /\ get.asset = a
      <3>1. get' = [get EXCEPT !.copy.raced = TRUE]
        BY <1>3, <2>1 DEF Invalidate, Overtaken
      <3>2. /\ get'.pc = get.pc /\ get'.asset = get.asset /\ get'.elapsed = get.elapsed
            /\ get'.copy = [get.copy EXCEPT !.raced = TRUE]
        BY <3>1, <1>0 DEF TypeOK
      <3>3. /\ get'.copy \in Copies /\ get'.copy.age = get.copy.age
            /\ get'.copy.stale = get.copy.stale /\ get'.copy.raced
        BY <3>2, <2>1, <1>0 DEF GetSound, Copies
      <3> QED BY <3>2, <3>3, <2>1, <1>0 DEF GetSound, Caused
    <2>2. CASE ~(get.pc = "warm" /\ get.asset = a)
      <3>1. UNCHANGED get
        BY <1>3, <2>2 DEF Invalidate, Overtaken
      <3>2. get.pc = "warm" => Excused(get.copy, get.asset)
        BY <1>0, <1>3, <2>2, CauseKept DEF GetSound
      <3> QED BY <1>1, <3>1, <3>2
    <2> QED BY <2>1, <2>2
  <1>4. ASSUME UNCHANGED <<service, l2, fanout, get, missed>> PROVE GetSound'
    <2>1. get.pc = "warm" => Excused(get.copy, get.asset)
      BY <1>0, <1>4, CauseKept DEF GetSound, service
    <2> QED BY <1>1, <1>4, <2>1
  <1>5. ASSUME NEW a \in Assets, GetL1Hit(a) PROVE GetSound'
    BY <1>4, <1>5 DEF GetL1Hit, history
  <1>6. ASSUME NEW a \in Assets, GetL1Miss(a) PROVE GetSound'
    BY <1>6 DEF GetL1Miss, Idle, GetSound
  <1>7. ASSUME NEW s \in Snapshots, get' = [get EXCEPT !.pc = "warm", !.copy = CopyOf(s)],
               get.asset \in Assets, l2'[get.asset].ver = s.ver \/ get.asset \in projecting'
        PROVE GetSound'
    <2>1. /\ get'.asset = get.asset /\ get'.elapsed = get.elapsed
          /\ get'.copy = CopyOf(s) /\ get.elapsed \in Nat
      BY <1>0, <1>7, StoreAssumption DEF TypeOK
    <2>2. ~(CopyOf(s).ver < l2'[get.asset].ver) \/ get.asset \in projecting'
      BY <1>7 DEF CopyOf, Snapshots
    <2> QED BY <1>7, <2>1, <2>2, CopyOfType DEF GetSound, Caused, CopyOf
  <1>8. CASE ReadL2
    <2>1. get.asset \in Assets /\ l2[get.asset] \in Snapshots /\ UNCHANGED l2
      BY <1>0, <1>8 DEF ReadL2, GetSound, TypeOK
    <2>2. CASE l2[get.asset].live
      BY <1>7, <1>8, <2>1, <2>2 DEF ReadL2
    <2>3. CASE ~l2[get.asset].live
      BY <1>0, <1>8, <2>1, <2>3 DEF ReadL2, GetSound, TypeOK
    <2> QED BY <2>2, <2>3
  <1>9. CASE ReadL3Hit
    <2>1. get.asset \in Assets /\ db[get.asset] \in Snapshots /\ UNCHANGED projecting
      BY <1>0, <1>9 DEF ReadL3Hit, GetSound, TypeOK, service
    <2>2. l2'[get.asset] \in {l2[get.asset], db[get.asset]}
      BY <1>0, <1>9, <2>1 DEF ReadL3Hit, TypeOK
    <2>3. l2'[get.asset].ver = db[get.asset].ver \/ get.asset \in projecting'
      BY <1>0, <2>1, <2>2 DEF Lagging
    <2> QED BY <1>7, <1>9, <2>1, <2>3 DEF ReadL3Hit
  <1>10. CASE ReadL2Error
    BY <1>0, <1>10 DEF ReadL2Error, GetSound, TypeOK
  <1>11. CASE ReadL3NotFound \/ ReadL3Error \/ WriteL1 \/ WriteL1Fails \/ Crash
    BY <1>11 DEF ReadL3NotFound, ReadL3Error, WriteL1, WriteL1Fails, Crash, Idle, GetSound
  <1>12. CASE Tick
    <2>1. CASE get.pc = "idle"
      BY <1>0, <1>12, <2>1 DEF Tick, GetSound
    <2>2. CASE get.pc # "idle"
      <3> DEFINE copy == IF get.copy = None THEN None
                         ELSE [Older(get.copy, get.asset) EXCEPT !.age = 0]
      <3>1. get' = [get EXCEPT !.elapsed = get.elapsed + 1, !.copy = copy]
        BY <1>12, <2>2 DEF Tick
      <3>2. /\ get'.pc = get.pc /\ get'.asset = get.asset
            /\ get'.elapsed = get.elapsed + 1 /\ get'.copy = copy /\ get.elapsed \in Nat
        BY <3>1, <1>0, StoreAssumption DEF TypeOK
      <3>3. get.pc # "warm" => GetSound'
        BY <3>2, <1>0, <2>2 DEF GetSound
      <3>4. ASSUME get.pc = "warm"
            PROVE /\ copy \in Copies /\ copy.age = 0 /\ copy.ver = get.copy.ver
                  /\ copy.raced = get.copy.raced /\ copy.stale <= get.elapsed + 1
        <4>1. /\ get.copy \in Copies /\ get.asset \in Assets /\ get.copy.age = 0
              /\ get.copy.stale <= get.elapsed
          BY <1>0, <3>4 DEF GetSound
        <4>2. CASE get.copy = None
          BY <4>1, <4>2, <3>2 DEF Copies
        <4>3. CASE get.copy # None
          <5>1. PICK o \in Copies : /\ o = Older(get.copy, get.asset)
                     /\ o.ver = get.copy.ver /\ o.raced = get.copy.raced
                     /\ o.stale \in get.copy.stale .. get.copy.stale + 1
            BY <4>1, <4>3, <1>0, OlderFacts
          <5>2. /\ [o EXCEPT !.age = 0] \in Copies /\ [o EXCEPT !.age = 0].age = 0
                /\ [o EXCEPT !.age = 0].ver = o.ver /\ [o EXCEPT !.age = 0].raced = o.raced
                /\ [o EXCEPT !.age = 0].stale = o.stale
            BY StoreAssumption DEF Copies, AgeBound
          <5>3. copy = [o EXCEPT !.age = 0]
            BY <4>3, <5>1
          <5>4. o.stale <= get.elapsed + 1
            BY <4>1, <5>1, <3>2 DEF Copies
          <5> HIDE DEF copy
          <5> QED BY <5>1, <5>2, <5>3, <5>4
        <4> QED BY <4>2, <4>3
      <3>5. ASSUME get.pc = "warm" PROVE Excused(get.copy, get.asset)
        BY <1>0, <1>12, <3>5, CauseKept DEF GetSound, Tick, service, history
      <3> HIDE DEF copy
      <3>6. get.pc = "warm" => GetSound'
        BY <3>2, <3>4, <3>5, <1>0 DEF GetSound, Caused
      <3> QED BY <3>3, <3>6
    <2> QED BY <2>1, <2>2
  <1>13. CASE Outage \/ Restart \/ ClockBack
    <2>1. UNCHANGED <<db, projecting, l2, fanout, missed, get>>
      BY <1>13 DEF Outage, Restart, ClockBack, service, history
    <2>2. get.pc = "warm" => Excused(get.copy, get.asset)
      BY <1>0, <2>1, CauseKept DEF GetSound
    <2> QED BY <1>1, <2>1, <2>2
  <1>14. CASE UNCHANGED vars
    BY <1>4, <1>14 DEF vars, history
  <1> QED BY <1>2, <1>3, <1>5, <1>6, <1>8, <1>9, <1>10, <1>11, <1>12,
             <1>13, <1>14 DEF Next, GetStep
\* What the disk holds stays sound.
LEMMA DiskStep == Inv /\ [Next]_vars => DiskSound'
  <1> SUFFICES ASSUME Inv, [Next]_vars PROVE DiskSound'
    OBVIOUS
  <1> DEFINE Excused(c, a) == c.ver < l2'[a].ver =>
                a \in projecting' \/ fanout'[a] > 0 \/ a \in missed' \/ c.raced
  <1>0. TypeOK /\ GetSound /\ Lagging /\ DiskSound
    BY DEF Inv
  <1>1. ASSUME UNCHANGED <<l1, images, skew, rewarmed>>,
               \A a \in Assets : \A c \in images[a] : c # None => Excused(c, a)
        PROVE DiskSound'
    BY <1>0, <1>1 DEF DiskSound, Sound, Aged, Caused
  <1>2. ASSUME NEW a \in Assets, Crud(a) \/ Project(a) \/ MissInvalidation(a)
        PROVE DiskSound'
    <2>1. UNCHANGED <<l1, images, skew, rewarmed>>
      BY <1>2 DEF Crud, Project, MissInvalidation, pebble, history
    <2>2. \A b \in Assets : \A c \in images[b] : c # None => Excused(c, b)
      BY <1>0, <1>2, CauseKept DEF DiskSound, Sound
    <2> QED BY <1>1, <2>1, <2>2
  <1>3. ASSUME UNCHANGED <<db, projecting, l2, fanout, l1, images, skew, missed, rewarmed>>
        PROVE DiskSound'
    <2>1. \A b \in Assets : \A c \in images[b] : c # None => Excused(c, b)
      BY <1>0, <1>3, CauseKept DEF DiskSound, Sound
    <2> QED BY <1>1, <1>3, <2>1
  <1>4. ASSUME NEW a \in Assets, Invalidate(a) PROVE DiskSound'
    <2>1. /\ l1' = [l1 EXCEPT ![a] = None] /\ images' = [b \in Assets |-> {l1'[b]}]
          /\ rewarmed' = rewarmed \ {a} /\ UNCHANGED skew
      BY <1>4 DEF Invalidate
    <2>2. l1'[a] = None /\ \A b \in Assets \ {a} : l1'[b] = l1[b]
      BY <1>0, <2>1 DEF TypeOK
    <2>3. ASSUME NEW b \in Assets \ {a}, l1[b] # None PROVE Excused(l1[b], b)
      BY <1>0, <1>4, <2>3, CauseKept DEF DiskSound, Sound
    <2>4. ASSUME NEW b \in Assets \ {a} PROVE Sound(l1[b], b)'
      BY <1>0, <2>1, <2>2, <2>3 DEF DiskSound, Sound, Aged, Caused
    <2> QED BY <2>1, <2>2, <2>4 DEF DiskSound, Sound
  <1>5. CASE ReadL3Hit
    <2>1. UNCHANGED <<l1, images, skew, rewarmed>>
      BY <1>5 DEF ReadL3Hit, pebble, history
    <2>2. \A b \in Assets : \A c \in images[b] : c # None => Excused(c, b)
      BY <1>0, <1>5, CauseKept DEF DiskSound, Sound
    <2> QED BY <1>1, <2>1, <2>2
  <1>6. CASE WriteL1
    <2>1. /\ l1' = [l1 EXCEPT ![get.asset] = get.copy] /\ rewarmed' = rewarmed \cup {get.asset}
          /\ images' = [images EXCEPT ![get.asset] = images[get.asset] \cup {get.copy}]
          /\ UNCHANGED <<db, projecting, l2, fanout, missed, skew>>
      BY <1>6 DEF WriteL1, service
    <2>2. /\ get.asset \in Assets /\ get.copy \in Copies /\ get.copy.age = 0
          /\ get.copy.stale <= get.elapsed /\ Caused(get.copy, get.asset)
      BY <1>0, <1>6 DEF WriteL1, GetSound
    <2>3. Aged(get.copy) /\ get.copy.age >= -skew
      BY <1>0, <2>2, StoreAssumption DEF Aged, TypeOK, Copies
    <2>4. ASSUME NEW b \in Assets, NEW c \in images'[b]
          PROVE  /\ c \in images[b] \/ (b = get.asset /\ c = get.copy)
                 /\ l1'[b] \in images'[b]
      BY <1>0, <2>1, <2>2 DEF DiskSound, TypeOK
    <2>5. ASSUME NEW b \in Assets, NEW c \in images'[b], c # None
          PROVE  /\ c.age >= -skew' /\ b \in rewarmed' /\ Excused(c, b)
                 /\ \/ c.stale <= c.age + AuthTimeout + skew'
                    \/ c.age > L1TTL + MaxSkew - skew'
      BY <1>0, <2>1, <2>2, <2>3, <2>4, <2>5 DEF DiskSound, Sound, Aged, Caused
    <2>6. \A b \in Assets : l1'[b] \in images'[b]
      BY <1>0, <2>1, <2>2 DEF DiskSound, TypeOK
    <2> QED BY <2>5, <2>6 DEF DiskSound, Sound, Aged, Caused
  <1>7. CASE Crash
    <2>1. /\ \A a \in Assets : l1'[a] \in images[a] /\ images'[a] = {l1'[a]}
          /\ UNCHANGED <<db, projecting, l2, fanout, missed, rewarmed, skew>>
      BY <1>7 DEF Crash, service, history
    <2> QED BY <1>0, <2>1 DEF DiskSound, Sound, Aged, Caused
  <1>8. CASE Tick
    <2>1. /\ \A a \in Assets : /\ l1'[a] = Older(l1[a], a)
                              /\ images'[a] = {Older(c, a) : c \in images[a]}
          /\ UNCHANGED <<db, projecting, l2, fanout, missed, rewarmed, skew>>
      BY <1>8 DEF Tick, service, history
    <2>2. ASSUME NEW a \in Assets, NEW n \in images'[a], n # None
          PROVE  /\ n.age >= -skew' /\ a \in rewarmed' /\ Excused(n, a)
                 /\ \/ n.stale <= n.age + AuthTimeout + skew'
                    \/ n.age > L1TTL + MaxSkew - skew'
      <3>1. PICK c \in images[a] : n = Older(c, a)
        BY <2>1, <2>2
      <3>2. c # None /\ c \in Copies
        BY <1>0, <2>2, <3>1 DEF Older, TypeOK
      <3>3. /\ n \in Copies /\ n.ver = c.ver /\ n.raced = c.raced
            /\ n.age = (IF c.age < AgeBound THEN c.age + 1 ELSE c.age)
            /\ n.stale \in c.stale .. c.stale + 1
        BY <1>0, <3>1, <3>2, OlderFacts
      <3>4. Sound(c, a)
        BY <1>0 DEF DiskSound
      <3>5. c.age \in Int /\ c.stale \in Int /\ skew \in Nat /\ skew <= MaxSkew
        BY <1>0, <3>2, StoreAssumption DEF Copies, TypeOK, AgeBound, StaleBound
      <3>6. n.age >= -skew /\ n.age >= c.age
        BY <3>2, <3>3, <3>4, <3>5 DEF Sound
      <3>7. Aged(n)
        <4>1. Aged(c)
          BY <3>2, <3>4 DEF Sound
        <4>2. CASE c.age < AgeBound
          BY <3>3, <3>5, <4>1, <4>2, StoreAssumption DEF Aged
        <4>3. CASE c.age >= AgeBound
          BY <3>3, <3>5, <4>3, StoreAssumption DEF Aged, AgeBound
        <4>4. AgeBound \in Int
          BY StoreAssumption DEF AgeBound
        <4> QED BY <3>5, <4>2, <4>3, <4>4
      <3> QED BY <2>1, <3>2, <3>3, <3>4, <3>6, <3>7 DEF Sound, Aged, Caused
    <2>3. \A a \in Assets : l1'[a] \in images'[a]
      BY <1>0, <2>1 DEF DiskSound
    <2> QED BY <2>2, <2>3 DEF DiskSound, Sound, Aged, Caused
  <1>9. CASE ClockBack
    <2>1. /\ \A a \in Assets : /\ l1'[a] = Younger(l1[a])
                              /\ images'[a] = {Younger(c) : c \in images[a]}
          /\ UNCHANGED <<db, projecting, l2, fanout, missed, rewarmed>>
          /\ skew' = skew + 1 /\ skew < MaxSkew
      BY <1>9 DEF ClockBack, service, history
    <2>2. ASSUME NEW a \in Assets, NEW n \in images'[a], n # None
          PROVE  /\ n.age >= -skew' /\ a \in rewarmed' /\ Excused(n, a)
                 /\ \/ n.stale <= n.age + AuthTimeout + skew'
                    \/ n.age > L1TTL + MaxSkew - skew'
      <3>1. PICK c \in images[a] : n = Younger(c)
        BY <2>1, <2>2
      <3>2. c # None /\ c \in Copies
        BY <1>0, <2>2, <3>1 DEF Younger, TypeOK
      <3>3. Sound(c, a)
        BY <1>0 DEF DiskSound
      <3>4. /\ n.ver = c.ver /\ n.raced = c.raced
            /\ n.age = c.age - 1 /\ n.stale = c.stale
        BY <1>0, <2>1, <3>1, <3>2, <3>3, YoungerFacts DEF Sound
      <3>5. c.age \in Int /\ c.stale \in Int /\ skew \in Nat
        BY <1>0, <3>2, StoreAssumption DEF Copies, TypeOK, AgeBound, StaleBound
      <3>6. /\ n.age >= -skew'
            /\ n.stale <= n.age + AuthTimeout + skew' \/ n.age > L1TTL + MaxSkew - skew'
        <4>1. c.age >= -skew /\ Aged(c)
          BY <3>2, <3>3 DEF Sound
        <4>2. n.age >= -skew'
          BY <2>1, <3>4, <3>5, <4>1
        <4>3. n.stale <= n.age + AuthTimeout + skew' \/ n.age > L1TTL + MaxSkew - skew'
          BY <2>1, <3>4, <3>5, <4>1, StoreAssumption DEF Aged
        <4> QED BY <4>2, <4>3
      <3> QED BY <2>1, <3>2, <3>3, <3>4, <3>6 DEF Sound, Caused
    <2>3. \A a \in Assets : l1'[a] \in images'[a]
      BY <1>0, <2>1 DEF DiskSound
    <2> QED BY <2>2, <2>3 DEF DiskSound, Sound, Aged, Caused
  <1>10. ASSUME NEW a \in Assets, GetL1Hit(a) \/ GetL1Miss(a) PROVE DiskSound'
    BY <1>3, <1>10 DEF GetL1Hit, GetL1Miss, service, pebble, history
  <1>11. CASE ReadL2 \/ ReadL2Error \/ ReadL3NotFound \/ ReadL3Error \/ WriteL1Fails
    BY <1>3, <1>11 DEF ReadL2, ReadL2Error, ReadL3NotFound, ReadL3Error, WriteL1Fails,
       service, pebble, history
  <1>12. CASE Outage \/ Restart
    BY <1>3, <1>12 DEF Outage, Restart, service, pebble, history
  <1>13. CASE UNCHANGED vars
    BY <1>3, <1>13 DEF vars, service, pebble, history
  <1> QED BY <1>2, <1>4, <1>5, <1>6, <1>7, <1>8, <1>9, <1>10, <1>11, <1>12, <1>13
             DEF Next, GetStep

\* A Get never answers with an entry staler than the bound.
LEMMA AnswerStep == Inv /\ [Next]_vars => StalenessBounded'
  <1> SUFFICES ASSUME Inv, [Next]_vars PROVE StalenessBounded'
    OBVIOUS
  <1>0. TypeOK /\ GetSound /\ DiskSound /\ StalenessBounded
    BY DEF Inv
  <1>00. skew \in Nat /\ skew <= MaxSkew /\ get.elapsed \in Nat /\ get.elapsed <= AuthTimeout
         /\ last.stale \in Nat
    BY <1>0, StoreAssumption DEF TypeOK, StaleBound
  <1>1. ASSUME UNCHANGED last, skew' \in {skew, skew + 1} PROVE StalenessBounded'
    BY <1>0, <1>00, <1>1, StoreAssumption DEF StalenessBounded
  <1>2. ASSUME last'.kind # "entry" PROVE StalenessBounded'
    BY <1>2 DEF StalenessBounded
  <1>3. ASSUME NEW a \in Assets, GetL1Hit(a) PROVE StalenessBounded'
    <2>1. /\ l1[a] # None /\ l1[a].age <= L1TTL /\ last'.stale = l1[a].stale /\ skew' = skew
      BY <1>3 DEF GetL1Hit, Fresh
    <2>2. l1[a] \in Copies /\ Sound(l1[a], a)
      BY <1>0, <2>1 DEF TypeOK, DiskSound
    <2>3. l1[a].age \in Int /\ l1[a].stale \in Int
      BY <2>2, StoreAssumption DEF Copies, AgeBound, StaleBound
    <2> QED BY <1>00, <2>1, <2>2, <2>3, StoreAssumption DEF Sound, Aged, StalenessBounded
  <1>4. CASE WriteL1 \/ WriteL1Fails
    <2>1. /\ last'.stale = get.copy.stale /\ skew' = skew /\ get.pc = "warm"
      BY <1>4 DEF WriteL1, WriteL1Fails
    <2>2. get.copy.stale \in Int /\ get.copy.stale <= get.elapsed
      BY <1>0, <2>1, StoreAssumption DEF GetSound, Copies, StaleBound
    <2> QED BY <1>00, <2>1, <2>2, StoreAssumption DEF StalenessBounded
  <1>5. ASSUME NEW a \in Assets, GetL1Miss(a) PROVE StalenessBounded'
    BY <1>2, <1>5 DEF GetL1Miss, NoResult
  <1>6. CASE ReadL3NotFound \/ ReadL3Error \/ Crash
    BY <1>2, <1>6 DEF ReadL3NotFound, ReadL3Error, Crash, NoResult
  <1>7. ASSUME NEW a \in Assets, Crud(a) \/ Project(a) \/ Invalidate(a) \/ MissInvalidation(a)
        PROVE StalenessBounded'
    BY <1>1, <1>7 DEF Crud, Project, Invalidate, MissInvalidation
  <1>8. CASE ReadL2 \/ ReadL2Error \/ ReadL3Hit
    BY <1>1, <1>8 DEF ReadL2, ReadL2Error, ReadL3Hit
  <1>9. CASE Outage \/ Restart \/ Tick \/ ClockBack \/ UNCHANGED vars
    BY <1>1, <1>9 DEF Outage, Restart, Tick, ClockBack, vars
  <1> QED BY <1>3, <1>4, <1>5, <1>6, <1>7, <1>8, <1>9 DEF Next, GetStep
\* The types are kept.
LEMMA TypeStep == Inv /\ [Next]_vars => TypeOK'
  <1> SUFFICES ASSUME Inv, [Next]_vars PROVE TypeOK'
    OBVIOUS
  <1> DEFINE Gets == [pc : {"idle", "l2", "l3", "warm"}, asset : Assets \cup {None},
                      elapsed : 0 .. AuthTimeout, copy : Copies \cup {None}]
             Results == [kind : {"none", "entry", "notfound", "unavailable"},
                         stale : 0 .. StaleBound + 1]
  <1>0. TypeOK /\ GetSound /\ DiskSound /\ Lagging /\ get \in Gets /\ last \in Results
    BY DEF Inv, TypeOK
  <1>1. Idle \in Gets /\ NoResult \in Results
    BY StoreAssumption DEF Idle, NoResult, StaleBound
  <1>2. \A c \in Copies : c.stale \in 0 .. StaleBound + 1
    BY DEF Copies
  <1>3. \A n \in 0 .. StaleBound + 1 : [kind |-> "entry", stale |-> n] \in Results
    OBVIOUS
  <1>4. [kind |-> "notfound", stale |-> 0] \in Results /\ [kind |-> "unavailable", stale |-> 0] \in Results
    BY StoreAssumption DEF StaleBound
  <1> HIDE DEF Gets, Results
  <1>reads. ASSUME get' \in Gets, last' \in Results, seen' \in [Assets -> 0 .. MaxVersion],
                   misread' \subseteq Assets,
                   UNCHANGED <<service, l2, fanout, up, pebble, skew, missed, rewarmed>>
            PROVE TypeOK'
    BY <1>0, <1>reads DEF TypeOK, service, pebble, Gets, Results
  <1>5. ASSUME get' \in Gets, last' \in Results,
               UNCHANGED <<service, l2, fanout, up, pebble, skew, history>>
        PROVE TypeOK'
    <2>1. seen' \in [Assets -> 0 .. MaxVersion] /\ misread' \subseteq Assets
      BY <1>0, <1>5 DEF TypeOK, history, reads
    <2> QED BY <1>5, <1>reads, <2>1 DEF history
  <1>6. ASSUME NEW a \in Assets, Crud(a) PROVE TypeOK'
    <2>1. PICK alive \in BOOLEAN : db' = [db EXCEPT ![a] = [ver |-> db[a].ver + 1, live |-> alive]]
      BY <1>6 DEF Crud
    <2>2. [ver |-> db[a].ver + 1, live |-> alive] \in Snapshots
      BY <1>0, <1>6, StoreAssumption DEF Crud, TypeOK, Snapshots
    <2>3. db' \in [Assets -> Snapshots]
      BY <1>0, <2>1, <2>2 DEF TypeOK
    <2> QED BY <1>0, <1>6, <2>3 DEF Crud, TypeOK, pebble, history, reads
  <1>7. ASSUME NEW a \in Assets, Project(a) PROVE TypeOK'
    <2>1. l2' \in [Assets -> Snapshots] /\ projecting' \subseteq Assets
      BY <1>0, <1>7 DEF Project, TypeOK
    <2>2. fanout[a] + 1 <= db[a].ver /\ db[a].ver \in 0 .. MaxVersion /\ fanout[a] \in 0 .. MaxVersion
      BY <1>0, <1>7 DEF Project, TypeOK, Lagging, Snapshots
    <2>3. fanout' \in [Assets -> 0 .. MaxVersion]
      BY <1>0, <1>7, <2>2, StoreAssumption DEF Project, TypeOK
    <2> QED BY <1>0, <1>7, <2>1, <2>3 DEF Project, TypeOK, pebble, history, reads
  <1>8. ASSUME NEW a \in Assets, Invalidate(a) PROVE TypeOK'
    <2>1. fanout' \in [Assets -> 0 .. MaxVersion]
      BY <1>0, <1>8, StoreAssumption DEF Invalidate, TypeOK
    <2>2. l1' \in [Assets -> Copies \cup {None}]
      BY <1>0, <1>8 DEF Invalidate, TypeOK
    <2>3. images' \in [Assets -> SUBSET (Copies \cup {None})]
      BY <1>8, <2>2 DEF Invalidate
    <2>4. get' \in Gets
      <3>1. CASE get.pc = "warm" /\ get.asset = a
        <4>1. get' = [get EXCEPT !.copy = [get.copy EXCEPT !.raced = TRUE]]
          BY <1>8, <3>1 DEF Invalidate, Overtaken
        <4>2. [get.copy EXCEPT !.raced = TRUE] \in Copies
          BY <1>0, <3>1 DEF GetSound, Copies
        <4> QED BY <1>0, <4>1, <4>2 DEF Gets
      <3>2. CASE ~(get.pc = "warm" /\ get.asset = a)
        BY <1>0, <1>8, <3>2 DEF Invalidate, Overtaken
      <3> QED BY <3>1, <3>2
    <2> QED BY <1>0, <1>8, <2>1, <2>2, <2>3, <2>4 DEF Invalidate, TypeOK, service, Gets
  <1>9. ASSUME NEW a \in Assets, MissInvalidation(a) PROVE TypeOK'
    <2>1. fanout' \in [Assets -> 0 .. MaxVersion] /\ missed' \subseteq Assets
      BY <1>0, <1>9, StoreAssumption DEF MissInvalidation, TypeOK
    <2> QED BY <1>0, <1>9, <2>1 DEF MissInvalidation, TypeOK, service, pebble, reads
  <1>10. ASSUME NEW a \in Assets, GetL1Hit(a) PROVE TypeOK'
    <2>1. l1[a].stale \in 0 .. StaleBound + 1
      BY <1>0, <1>2, <1>10 DEF GetL1Hit, TypeOK
    <2>2. l1[a].ver \in 0 .. MaxVersion
      BY <1>0, <1>10 DEF GetL1Hit, TypeOK, Copies
    <2>3. seen' \in [Assets -> 0 .. MaxVersion] /\ misread' \subseteq Assets
      BY <1>0, <1>10, <2>2 DEF GetL1Hit, TypeOK
    <2> QED BY <1>0, <1>3, <1>reads, <1>10, <2>1, <2>3 DEF GetL1Hit
  <1>11. ASSUME NEW a \in Assets, GetL1Miss(a) PROVE TypeOK'
    <2>1. [Idle EXCEPT !.pc = "l2", !.asset = a] \in Gets
      BY <1>1 DEF Gets
    <2>2. seen' \in [Assets -> 0 .. MaxVersion] /\ misread' \subseteq Assets
      BY <1>0, <1>11 DEF GetL1Miss, TypeOK
    <2> QED BY <1>1, <1>reads, <1>11, <2>1, <2>2 DEF GetL1Miss
  <1>12. ASSUME NEW s \in Snapshots PROVE [get EXCEPT !.pc = "warm", !.copy = CopyOf(s)] \in Gets
    BY <1>0, CopyOfType DEF Gets
  <1>13. [get EXCEPT !.pc = "l3"] \in Gets
    BY <1>0 DEF Gets
  <1>14. CASE ReadL2
    <2>1. l2[get.asset] \in Snapshots
      BY <1>0, <1>14 DEF ReadL2, GetSound, TypeOK
    <2>2. get' \in Gets
      BY <1>12, <1>13, <1>14, <2>1 DEF ReadL2
    <2>3. l2[get.asset].ver \in 0 .. MaxVersion
      BY <2>1 DEF Snapshots
    <2>4. seen' \in [Assets -> 0 .. MaxVersion] /\ misread' \subseteq Assets
      BY <1>0, <1>14, <2>3 DEF ReadL2, TypeOK
    <2> QED BY <1>0, <1>reads, <1>14, <2>2, <2>4 DEF ReadL2
  <1>15. CASE ReadL2Error
    BY <1>0, <1>5, <1>13, <1>15 DEF ReadL2Error
  <1>16. CASE ReadL3Hit
    <2>1. db[get.asset] \in Snapshots /\ l2' \in [Assets -> Snapshots]
      BY <1>0, <1>16 DEF ReadL3Hit, GetSound, TypeOK
    <2>2. get' \in Gets
      BY <1>12, <1>16, <2>1 DEF ReadL3Hit
    <2>3. db[get.asset].ver \in 0 .. MaxVersion
      BY <2>1 DEF Snapshots
    <2>4. seen' \in [Assets -> 0 .. MaxVersion] /\ misread' \subseteq Assets
      BY <1>0, <1>16, <2>3 DEF ReadL3Hit, TypeOK
    <2> QED BY <1>0, <1>16, <2>1, <2>2, <2>4 DEF ReadL3Hit, TypeOK, service, pebble, Gets
  <1>17. CASE ReadL3Error
    BY <1>1, <1>4, <1>5, <1>17 DEF ReadL3Error
  <1>notfound. CASE ReadL3NotFound
    <2>1. db[get.asset].ver \in 0 .. MaxVersion
      BY <1>0, <1>notfound DEF ReadL3NotFound, GetSound, TypeOK, Snapshots
    <2>2. seen' \in [Assets -> 0 .. MaxVersion] /\ misread' \subseteq Assets
      BY <1>0, <1>notfound, <2>1 DEF ReadL3NotFound, TypeOK
    <2> QED BY <1>1, <1>4, <1>reads, <1>notfound, <2>2 DEF ReadL3NotFound
  <1>18. ASSUME get.pc = "warm" PROVE [kind |-> "entry", stale |-> get.copy.stale] \in Results
    BY <1>0, <1>2, <1>3, <1>18 DEF GetSound
  <1>19. CASE WriteL1Fails
    BY <1>1, <1>5, <1>18, <1>19 DEF WriteL1Fails
  <1>20. CASE WriteL1
    <2>1. get.asset \in Assets /\ get.copy \in Copies
      BY <1>0, <1>20 DEF WriteL1, GetSound
    <2>2. /\ l1' \in [Assets -> Copies \cup {None}] /\ rewarmed' \subseteq Assets
          /\ images' \in [Assets -> SUBSET (Copies \cup {None})]
      BY <1>0, <1>20, <2>1 DEF WriteL1, TypeOK
    <2>3. get' \in Gets /\ last' \in Results
      BY <1>1, <1>18, <1>20 DEF WriteL1
    <2> QED BY <1>0, <1>20, <2>2, <2>3 DEF WriteL1, TypeOK, service, reads, Gets, Results
  <1>21. CASE Crash
    <2>1. \A a \in Assets : l1'[a] \in Copies \cup {None}
      BY <1>0, <1>21 DEF Crash, TypeOK
    <2>2. l1' \in [Assets -> Copies \cup {None}]
      BY <1>21, <2>1 DEF Crash
    <2>3. images' \in [Assets -> SUBSET (Copies \cup {None})]
      BY <1>21, <2>1 DEF Crash
    <2>4. get' \in Gets /\ last' \in Results
      BY <1>1, <1>21 DEF Crash
    <2> QED BY <1>0, <1>21, <2>2, <2>3, <2>4 DEF Crash, TypeOK, service, history, reads, Gets, Results
  <1>22. CASE Tick
    <2>1. ASSUME NEW a \in Assets, NEW c \in Copies \cup {None} PROVE Older(c, a) \in Copies \cup {None}
      <3>1. CASE c = None
        BY <3>1 DEF Older
      <3>2. CASE c # None
        BY <1>0, <3>2, OlderFacts
      <3> QED BY <3>1, <3>2
    <2>2. l1' \in [Assets -> Copies \cup {None}]
      BY <1>0, <1>22, <2>1 DEF Tick, TypeOK
    <2>3. images' \in [Assets -> SUBSET (Copies \cup {None})]
      BY <1>0, <1>22, <2>1 DEF Tick, TypeOK
    <2>4. get' \in Gets
      <3>1. CASE get.pc = "idle"
        BY <1>0, <1>22, <3>1 DEF Tick
      <3>2. CASE get.pc # "idle"
        <4> DEFINE copy == IF get.copy = None THEN None
                           ELSE [Older(get.copy, get.asset) EXCEPT !.age = 0]
        <4>1. get' = [get EXCEPT !.elapsed = get.elapsed + 1, !.copy = copy]
          BY <1>22, <3>2 DEF Tick
        <4>2. copy \in Copies \cup {None}
          <5>1. CASE get.copy = None
            BY <5>1
          <5>2. CASE get.copy # None
            <6>1. get.copy \in Copies /\ get.asset \in Assets
              BY <1>0, <3>2, <5>2 DEF GetSound, Gets
            <6>2. Older(get.copy, get.asset) \in Copies
              BY <1>0, <5>2, <6>1, OlderFacts
            <6>3. \A o \in Copies : [o EXCEPT !.age = 0] \in Copies
              BY StoreAssumption DEF Copies, AgeBound
            <6> QED BY <5>2, <6>2, <6>3
          <5> QED BY <5>1, <5>2
        <4>3. get.elapsed + 1 \in 0 .. AuthTimeout
          BY <1>0, <1>22, <3>2, StoreAssumption DEF Tick, Gets
        <4> HIDE DEF copy
        <4> QED BY <1>0, <4>1, <4>2, <4>3 DEF Gets
      <3> QED BY <3>1, <3>2
    <2> QED BY <1>0, <1>22, <2>2, <2>3, <2>4 DEF Tick, TypeOK, service, history, reads, Gets
  <1>23. CASE ClockBack
    <2>1. ASSUME NEW a \in Assets, NEW c \in images[a] PROVE Younger(c) \in Copies \cup {None}
      <3>1. CASE c = None
        BY <3>1 DEF Younger
      <3>2. CASE c # None
        <4>1. c \in Copies /\ c.age >= -skew
          BY <1>0, <3>2 DEF TypeOK, DiskSound, Sound
        <4> QED BY <1>0, <1>23, <3>2, <4>1, YoungerFacts DEF ClockBack
      <3> QED BY <3>1, <3>2
    <2>2. l1' \in [Assets -> Copies \cup {None}]
      BY <1>0, <1>23, <2>1 DEF ClockBack, DiskSound
    <2>3. images' \in [Assets -> SUBSET (Copies \cup {None})]
      BY <1>23, <2>1 DEF ClockBack
    <2>4. skew' \in 0 .. MaxSkew
      BY <1>0, <1>23, StoreAssumption DEF ClockBack, TypeOK
    <2> QED BY <1>0, <1>23, <2>2, <2>3, <2>4 DEF ClockBack, TypeOK, service, history, reads
  <1>24. CASE Outage \/ Restart
    BY <1>0, <1>24 DEF Outage, Restart, TypeOK, service, pebble, history, reads
  <1>25. CASE UNCHANGED vars
    BY <1>0, <1>5, <1>25 DEF vars
  <1> QED BY <1>6, <1>7, <1>8, <1>9, <1>10, <1>11, <1>14, <1>15, <1>16, <1>17,
             <1>notfound, <1>19, <1>20, <1>21, <1>22, <1>23, <1>24, <1>25 DEF Next, GetStep

-------------------------------------------------------------------------------
\* The inductive invariant holds of every behaviour of the store.
THEOREM StoreInvariant == Spec => []Inv
  <1>1. Inv /\ [Next]_vars => Inv'
    BY TypeStep, DiskStep, ReadStep, LagStep, AnswerStep DEF Inv
  <1> QED BY InitInv, <1>1, PTL DEF Spec

\* The store's variables keep their types (auth_store.go, http_auth.go): ages
\* stay within what set-backs allow, and a Get within its context's timeout.
THEOREM TypeCorrect == Spec => []TypeOK
  <1>1. Inv => TypeOK
    BY DEF Inv
  <1> QED BY StoreInvariant, <1>1, PTL

\* readL1 and Get never decide a CONNECT on an entry that L2 replaced longer ago
\* than the TTL, one Get timeout and the set-backs of the clock add up to.
THEOREM StalenessSound == Spec => []StalenessBounded
  <1>1. Inv => StalenessBounded
    BY DEF Inv
  <1> QED BY StoreInvariant, <1>1, PTL

\* L1 is outdated only before its invalidation, after one that came to nothing,
\* or because Get's writeL1 overtook handle()'s Invalidate.
THEOREM OutdatedSound == Spec => []OutdatedNeedsACause
  <1>1. Inv => OutdatedNeedsACause
    BY DEF Inv, DiskSound, Sound, Caused, OutdatedNeedsACause, Servable, Outdated
  <1> QED BY StoreInvariant, <1>1, PTL

\* The synced Delete of Invalidate survives every crash: L1 holds only what a
\* Get wrote after it.
THEOREM InvalidationDurable == Spec => []InvalidatedStaysGone
  <1>1. Inv => InvalidatedStaysGone
    BY DEF Inv, DiskSound, Sound, InvalidatedStaysGone
  <1> QED BY StoreInvariant, <1>1, PTL

-------------------------------------------------------------------------------
\* Whatever the disk may hold of an asset is no younger than what L1 holds.
Youngest == \A a \in Assets : \A c \in images[a] :
              c # None => l1[a] # None /\ c.age >= l1[a].age

\* As long as Pebble could read a's entry, whatever is fresh on disk is what the
\* last Get saw, and nothing is fresh while a Get is on its way past L1.
Current(a) == \A c \in images[a] : c # None /\ Fresh(c) =>
                c.ver = seen[a] /\ (get.pc # "idle" => get.asset # a)

\* What a Get is about to write to L1 is what it saw.
WarmSeen == get.pc = "warm" => get.copy.ver = seen[get.asset]

ReadInv == /\ WarmSeen
           /\ skew = 0 => Youngest /\ \A a \in Assets \ misread : Current(a)

\* Nothing is cached, nothing is being read.
LEMMA ReadInit == Init => ReadInv
  BY DEF Init, ReadInv, WarmSeen, Youngest, Current, Idle

\* Neither the disk nor what was seen changes.
LEMMA ReadFrame ==
  ASSUME ReadInv, UNCHANGED <<l1, images, seen, misread, skew>>,
         UNCHANGED get \/ get'.pc = "idle" \/ (get.pc # "idle" /\ get'.pc = "l3" /\ get'.asset = get.asset)
  PROVE  ReadInv'
  BY DEF ReadInv, WarmSeen, Youngest, Current, Fresh

\* A hit in L1 shows what was seen before.
LEMMA ReadHit ==
  ASSUME Inv, ReadInv, NEW a \in Assets, GetL1Hit(a)
  PROVE  /\ ReadInv'
         /\ seen'[a] # seen[a] => skew > 0 \/ a \in misread
         /\ \A b \in Assets \ {a} : seen'[b] = seen[b]
  <1>1. /\ seen' = [seen EXCEPT ![a] = l1[a].ver] /\ l1[a] # None /\ Fresh(l1[a])
        /\ UNCHANGED <<l1, images, misread, skew, get>> /\ get.pc = "idle"
    BY DEF GetL1Hit, pebble
  <1>2. seen \in [Assets -> 0 .. MaxVersion] /\ l1[a] \in images[a] /\ skew \in Nat
    BY StoreAssumption DEF Inv, TypeOK, DiskSound
  <1>3. skew = 0 /\ a \notin misread => l1[a].ver = seen[a]
    BY <1>1, <1>2 DEF ReadInv, Current
  <1>4. skew = 0 /\ a \notin misread => seen' = seen
    BY <1>1, <1>2, <1>3
  <1>5. \A b \in Assets \ {a} : seen'[b] = seen[b]
    BY <1>1, <1>2
  <1>6. ReadInv'
    <2>1. WarmSeen'
      BY <1>1 DEF WarmSeen
    <2>2. ASSUME skew = 0 PROVE Youngest'
      BY <1>1, <2>2 DEF ReadInv, Youngest
    <2>3. ASSUME skew = 0, NEW b \in Assets \ misread PROVE Current(b)'
      <3>1. Current(b) /\ seen'[b] = seen[b]
        BY <1>4, <1>5, <2>3 DEF ReadInv
      <3> QED BY <1>1, <3>1 DEF Current, Fresh
    <2> QED BY <1>1, <2>1, <2>2, <2>3 DEF ReadInv
  <1>7. seen'[a] # seen[a] => skew > 0 \/ a \in misread
    BY <1>2, <1>4
  <1> QED BY <1>5, <1>6, <1>7

\* A Get that goes past L1 found nothing there, or something no longer fresh,
\* and then nothing else on disk is fresh either.
LEMMA ReadMiss ==
  ASSUME Inv, ReadInv, NEW a \in Assets, GetL1Miss(a)
  PROVE  ReadInv'
  <1>1. /\ get.pc = "idle" /\ get'.pc = "l2" /\ get'.asset = a
        /\ UNCHANGED <<l1, images, seen, skew>>
        /\ misread' = IF l1[a] # None /\ Fresh(l1[a]) THEN misread \cup {a} ELSE misread
    BY DEF GetL1Miss, pebble, Idle
  <1> SUFFICES ASSUME skew' = 0 PROVE Youngest' /\ \A b \in Assets \ misread' : Current(b)'
    BY <1>1 DEF ReadInv, WarmSeen
  <1>2. Youngest /\ \A b \in Assets \ misread : Current(b)
    BY <1>1 DEF ReadInv
  <1>3. Youngest'
    BY <1>1, <1>2 DEF Youngest
  <1>4. ASSUME NEW b \in Assets \ misread' PROVE Current(b)'
    <2>1. CASE b # a
      BY <1>1, <1>2, <1>4, <2>1 DEF Current, Fresh
    <2>2. CASE b = a
      <3>1. a \notin misread /\ (l1[a] = None \/ ~Fresh(l1[a]))
        BY <1>1, <1>4, <2>2
      <3>2. ASSUME NEW c \in images[a], c # None PROVE ~Fresh(c)
        <4>1. l1[a] # None /\ c.age >= l1[a].age
          BY <1>2, <3>2 DEF Youngest
        <4>2. c \in Copies /\ l1[a] \in Copies
          BY <3>2, <4>1 DEF Inv, TypeOK
        <4> QED BY <3>1, <4>1, <4>2, StoreAssumption DEF Fresh, Copies, AgeBound
      <3> QED BY <1>1, <2>2, <3>2 DEF Current, Fresh
    <2> QED BY <2>1, <2>2
  <1> QED BY <1>3, <1>4

\* What L2 or the service answered is what was seen, and goes back on what was
\* seen before only where L2 itself does.
LEMMA ReadAnswer ==
  ASSUME Inv, ReadInv, NEW s \in Snapshots, get.pc # "idle",
         get' = [get EXCEPT !.pc = "warm", !.copy = CopyOf(s)] \/ get' = Idle,
         seen' = [seen EXCEPT ![get.asset] = s.ver], s.ver >= l2[get.asset].ver,
         UNCHANGED <<l1, images, misread, skew>>
  PROVE  /\ ReadInv'
         /\ \A a \in Assets : seen'[a] < seen[a] => l2[a].ver < seen[a]
  <1> DEFINE g == get.asset
  <1>1. /\ g \in Assets
        /\ \/ get'.pc = "warm" /\ get'.asset = g /\ get'.copy.ver = s.ver
           \/ get'.pc = "idle"
    <2>1. CASE get' = [get EXCEPT !.pc = "warm", !.copy = CopyOf(s)]
      BY <2>1 DEF Inv, TypeOK, GetSound, CopyOf
    <2>2. CASE get' = Idle
      BY <2>2 DEF Inv, GetSound, Idle
    <2> QED BY <2>1, <2>2
  <1>2. seen \in [Assets -> 0 .. MaxVersion] /\ l2[g].ver \in 0 .. MaxVersion
    BY <1>1 DEF Inv, TypeOK, Snapshots
  <1>3. seen'[g] = s.ver /\ \A a \in Assets \ {g} : seen'[a] = seen[a]
    BY <1>1, <1>2
  <1>4. s.ver \in Int /\ MaxVersion \in Nat
    BY StoreAssumption DEF Snapshots
  <1>5. \A a \in Assets : seen'[a] < seen[a] => l2[a].ver < seen[a]
    <2> SUFFICES ASSUME NEW a \in Assets, seen'[a] < seen[a] PROVE l2[a].ver < seen[a]
      OBVIOUS
    <2>1. a = g
      BY <1>2, <1>3, <1>4
    <2> QED BY <1>1, <1>2, <1>3, <1>4, <2>1
  <1>6. ASSUME skew = 0 PROVE Youngest' /\ \A a \in Assets \ misread : Current(a)'
    <2>1. Youngest /\ \A a \in Assets \ misread : Current(a)
      BY <1>6 DEF ReadInv
    <2>2. ASSUME NEW a \in Assets \ misread PROVE Current(a)'
      <3>1. CASE a = g
        <4>1. \A c \in images[g] : ~(c # None /\ Fresh(c))
          BY <2>1, <2>2, <3>1 DEF Current
        <4> QED BY <1>1, <1>3, <3>1, <4>1 DEF Current, Fresh
      <3>2. CASE a # g
        BY <1>1, <1>3, <2>1, <2>2, <3>2 DEF Current, Fresh
      <3> QED BY <3>1, <3>2
    <2> QED BY <2>1, <2>2 DEF Youngest
  <1>7. WarmSeen'
    BY <1>1, <1>3 DEF WarmSeen
  <1> QED BY <1>5, <1>6, <1>7 DEF ReadInv

\* What goes to disk is what was seen, cached now and so younger than the rest.
LEMMA ReadWrite ==
  ASSUME Inv, ReadInv, WriteL1
  PROVE  ReadInv'
  <1> DEFINE g == get.asset
  <1>1. /\ g \in Assets /\ get.copy \in Copies /\ get.copy.age = 0 /\ get'.pc = "idle"
        /\ l1'[g] = get.copy /\ images'[g] = images[g] \cup {get.copy}
        /\ \A a \in Assets \ {g} : l1'[a] = l1[a] /\ images'[a] = images[a]
        /\ UNCHANGED <<seen, misread, skew>> /\ get.pc = "warm"
    BY DEF WriteL1, Idle, reads, Inv, TypeOK, GetSound
  <1> SUFFICES ASSUME skew = 0 PROVE Youngest' /\ \A a \in Assets \ misread : Current(a)'
    BY <1>1 DEF ReadInv, WarmSeen
  <1>2. Youngest /\ \A a \in Assets \ misread : Current(a)
    BY DEF ReadInv
  <1>3. ASSUME NEW a \in Assets, NEW c \in images'[a], c # None
        PROVE  l1'[a] # None /\ c.age >= l1'[a].age
    <2>1. CASE a # g
      BY <1>1, <1>2, <1>3, <2>1 DEF Youngest
    <2>2. CASE a = g /\ c = get.copy
      BY <1>1, <1>3, <2>2
    <2>3. CASE a = g /\ c \in images[g]
      <3>0. Sound(c, g)
        BY <1>1, <2>3 DEF Inv, DiskSound
      <3>a. c.age >= 0
        BY <1>3, <3>0 DEF Sound
      <3>1. c.age >= 0 /\ l1[g] # None
        BY <1>1, <1>2, <1>3, <2>3, <3>a DEF Youngest
      <3> QED BY <1>1, <2>3, <3>1, NoneIsNoCopy
    <2> QED BY <1>1, <1>3, <2>1, <2>2, <2>3
  <1>4. Youngest'
    BY <1>3 DEF Youngest
  <1>5. ASSUME NEW a \in Assets \ misread PROVE Current(a)'
    BY <1>1, <1>2, <1>5 DEF ReadInv, WarmSeen, Current, Fresh
  <1> QED BY <1>4, <1>5

\* An invalidation leaves one image of every entry, and none of a's.
LEMMA ReadInvalidate ==
  ASSUME Inv, ReadInv, NEW a \in Assets, Invalidate(a)
  PROVE  ReadInv'
  <1>1. /\ \A b \in Assets : images'[b] = {l1'[b]}
        /\ l1'[a] = None /\ \A b \in Assets \ {a} : l1'[b] = l1[b]
        /\ UNCHANGED <<seen, skew>> /\ misread' = misread \ {a}
    BY DEF Invalidate, Inv, TypeOK
  <1>2. /\ get'.pc = get.pc /\ get'.asset = get.asset
        /\ get.pc = "warm" => get'.copy.ver = get.copy.ver
    BY DEF Invalidate, Overtaken, Inv, TypeOK, GetSound, Copies
  <1>3. ASSUME skew = 0 PROVE Youngest' /\ \A b \in Assets \ misread' : Current(b)'
    <2>1. \A b \in Assets \ misread : Current(b)
      BY <1>3 DEF ReadInv
    <2>2. Youngest'
      <3> SUFFICES ASSUME NEW b \in Assets, l1'[b] # None PROVE l1'[b].age >= l1'[b].age
        BY <1>1 DEF Youngest
      <3>1. l1'[b] \in Copies
        BY <1>1 DEF Inv, TypeOK
      <3> QED BY <3>1, StoreAssumption DEF Copies, AgeBound
    <2>3. ASSUME NEW b \in Assets \ misread' PROVE Current(b)'
      <3>1. CASE b = a
        BY <1>1, <3>1 DEF Current
      <3>2. CASE b # a
        <4>1. Current(b) /\ l1[b] \in images[b]
          BY <1>1, <2>1, <2>3, <3>2 DEF Inv, DiskSound
        <4> QED BY <1>1, <1>2, <2>3, <3>2, <4>1 DEF Current, Fresh
      <3> QED BY <3>1, <3>2
    <2> QED BY <2>2, <2>3
  <1> QED BY <1>1, <1>2, <1>3 DEF ReadInv, WarmSeen

\* A crash leaves something the disk held.
LEMMA ReadCrash ==
  ASSUME Inv, ReadInv, Crash
  PROVE  ReadInv'
  <1>1. /\ \A b \in Assets : l1'[b] \in images[b] /\ images'[b] = {l1'[b]}
        /\ UNCHANGED <<seen, misread, skew>> /\ get'.pc = "idle"
    BY DEF Crash, history, reads, Idle
  <1>2. Youngest'
    <2> SUFFICES ASSUME NEW b \in Assets, l1'[b] # None PROVE l1'[b].age >= l1'[b].age
      BY <1>1 DEF Youngest
    <2>1. l1'[b] \in Copies
      BY <1>1 DEF Inv, TypeOK
    <2> QED BY <2>1, StoreAssumption DEF Copies, AgeBound
  <1> QED BY <1>1, <1>2 DEF ReadInv, WarmSeen, Current, Fresh

\* Time ages all images of an entry alike, and makes none fresh.
LEMMA ReadTick ==
  ASSUME Inv, ReadInv, Tick
  PROVE  ReadInv'
  <1>1. /\ \A b \in Assets : l1'[b] = Older(l1[b], b) /\ images'[b] = {Older(c, b) : c \in images[b]}
        /\ UNCHANGED <<seen, misread, skew>>
    BY DEF Tick, history, reads
  <1>2. ASSUME NEW b \in Assets, NEW c \in images[b] \cup {l1[b]}
        PROVE  /\ c = None <=> Older(c, b) = None
               /\ c # None => /\ c \in Copies /\ Older(c, b).ver = c.ver
                              /\ Older(c, b).age = (IF c.age < AgeBound THEN c.age + 1 ELSE c.age)
    <2>1. CASE c = None
      BY <2>1 DEF Older
    <2>2. CASE c # None
      <3>1. c \in Copies
        BY <2>2 DEF Inv, TypeOK
      <3>2. TypeOK
        BY DEF Inv
      <3> QED BY <2>2, <3>1, <3>2, OlderFacts, NoneIsNoCopy
    <2> QED BY <2>1, <2>2
  <1>3. get'.pc = get.pc /\ get'.asset = get.asset
    BY DEF Tick, Inv, TypeOK
  <1>4. get.pc = "warm" => get'.copy.ver = get.copy.ver
    <2> SUFFICES ASSUME get.pc = "warm" PROVE get'.copy.ver = get.copy.ver
      OBVIOUS
    <2>1. TypeOK /\ get.asset \in Assets /\ get.copy \in Copies /\ get.copy # None
      BY NoneIsNoCopy DEF Inv, GetSound
    <2> DEFINE o == Older(get.copy, get.asset)
    <2>2. o \in Copies /\ o.ver = get.copy.ver
      BY <2>1, OlderFacts
    <2>3. get'.copy = [o EXCEPT !.age = 0]
      BY <2>1 DEF Tick, TypeOK
    <2> HIDE DEF o
    <2> QED BY <2>2, <2>3 DEF Copies
  <1>5. ASSUME skew = 0 PROVE Youngest' /\ \A b \in Assets \ misread : Current(b)'
    <2>1. Youngest /\ \A b \in Assets \ misread : Current(b)
      BY <1>5 DEF ReadInv
    <2>2. ASSUME NEW b \in Assets, NEW d \in images'[b], d # None
          PROVE  l1'[b] # None /\ d.age >= l1'[b].age
      <3>1. PICK c \in images[b] : d = Older(c, b)
        BY <1>1
      <3>2. c # None /\ l1[b] # None /\ c.age >= l1[b].age
        BY <1>2, <2>1, <2>2, <3>1 DEF Youngest
      <3>3. c.age \in Int /\ l1[b].age \in Int /\ AgeBound \in Int
            /\ c.age <= AgeBound /\ l1[b].age <= AgeBound
        <4>1. AgeBound \in Int /\ -MaxSkew \in Int
          BY StoreAssumption DEF AgeBound
        <4>2. c \in Copies /\ l1[b] \in Copies
          BY <1>2, <3>2
        <4>3. \A x \in Copies : x.age \in -MaxSkew .. AgeBound
          BY DEF Copies
        <4> QED BY <4>1, <4>2, <4>3
      <3>4. /\ d.age = (IF c.age < AgeBound THEN c.age + 1 ELSE c.age)
            /\ l1'[b].age = (IF l1[b].age < AgeBound THEN l1[b].age + 1 ELSE l1[b].age)
            /\ l1'[b] # None
        <4>1. l1'[b] = Older(l1[b], b)
          BY <1>1
        <4>2. d.age = (IF c.age < AgeBound THEN c.age + 1 ELSE c.age)
          BY <1>2, <3>1, <3>2
        <4>3. /\ l1'[b].age = (IF l1[b].age < AgeBound THEN l1[b].age + 1 ELSE l1[b].age)
              /\ l1'[b] # None
          BY <1>2, <3>2, <4>1
        <4> QED BY <4>2, <4>3
      <3> QED BY <3>2, <3>3, <3>4
    <2>3. ASSUME NEW b \in Assets \ misread, NEW d \in images'[b], d # None, Fresh(d)
          PROVE  d.ver = seen[b] /\ (get.pc # "idle" => get.asset # b)
      <3>1. PICK c \in images[b] : d = Older(c, b)
        BY <1>1
      <3>2. c # None /\ c \in Copies /\ d.ver = c.ver
            /\ d.age = (IF c.age < AgeBound THEN c.age + 1 ELSE c.age)
        <4>1. c # None
          BY <1>2, <2>3, <3>1
        <4> QED BY <1>2, <3>1, <4>1
      <3>3. Fresh(c)
        BY <2>3, <3>2, StoreAssumption DEF Fresh, Copies, AgeBound
      <3> QED BY <2>1, <3>1, <3>2, <3>3 DEF Current
    <2>4. Youngest'
      BY <2>2 DEF Youngest
    <2>5. ASSUME NEW b \in Assets \ misread PROVE Current(b)'
      BY <1>1, <1>3, <2>3 DEF Current, Fresh
    <2> QED BY <2>4, <2>5
  <1> QED BY <1>1, <1>3, <1>4, <1>5 DEF ReadInv, WarmSeen

\* No step breaks the invariant of the reads, and none goes back on what was
\* seen without a cause.
LEMMA SeenStep ==
  ASSUME Inv, ReadInv, [Next]_vars
  PROVE  /\ ReadInv'
         /\ \A a \in Assets : seen'[a] < seen[a] =>
              l2[a].ver < seen[a] \/ skew > 0 \/ a \in misread
  <1> DEFINE Kept == \A a \in Assets : seen'[a] < seen[a] =>
                       l2[a].ver < seen[a] \/ skew > 0 \/ a \in misread
  <1>0. \A a \in Assets : seen[a] \in Int
    BY StoreAssumption DEF Inv, TypeOK
  <1>same. ASSUME seen' = seen PROVE Kept
    BY <1>0, <1>same
  <1>1. ASSUME NEW a \in Assets, GetL1Hit(a) PROVE ReadInv' /\ Kept
    <2>1. /\ ReadInv' /\ (seen'[a] # seen[a] => skew > 0 \/ a \in misread)
          /\ \A b \in Assets \ {a} : seen'[b] = seen[b]
      BY <1>1, ReadHit
    <2>2. Kept
      BY <1>0, <2>1
    <2> QED BY <2>1, <2>2
  <1>2. ASSUME NEW a \in Assets, GetL1Miss(a) PROVE ReadInv' /\ Kept
    <2>1. seen' = seen
      BY <1>2 DEF GetL1Miss
    <2> QED BY <1>2, <1>same, <2>1, ReadMiss
  <1>3. ASSUME NEW a \in Assets, Invalidate(a) PROVE ReadInv' /\ Kept
    <2>1. seen' = seen
      BY <1>3 DEF Invalidate
    <2> QED BY <1>3, <1>same, <2>1, ReadInvalidate
  <1>4. CASE ReadL2
    <2>0. get.pc = "l2" /\ get.asset \in Assets /\ UNCHANGED <<l1, images, misread, skew>>
      BY <1>4 DEF ReadL2, pebble, Inv, GetSound
    <2>1. CASE l2[get.asset].live
      <3>1. l2[get.asset] \in Snapshots /\ l2[get.asset].ver >= l2[get.asset].ver
        BY <2>0, StoreAssumption DEF Inv, TypeOK, Snapshots
      <3>2. /\ get' = [get EXCEPT !.pc = "warm", !.copy = CopyOf(l2[get.asset])]
            /\ seen' = [seen EXCEPT ![get.asset] = l2[get.asset].ver]
        BY <1>4, <2>1 DEF ReadL2
      <3>3. PICK s \in Snapshots : s = l2[get.asset]
        BY <3>1
      <3> QED BY <2>0, <3>1, <3>2, <3>3, ReadAnswer
    <2>2. CASE ~l2[get.asset].live
      <3>1. seen' = seen /\ get'.pc = "l3" /\ get'.asset = get.asset
        BY <1>4, <2>2 DEF ReadL2, Inv, TypeOK
      <3> QED BY <1>same, <2>0, <3>1, ReadFrame
    <2> QED BY <2>1, <2>2
  <1>5. CASE ReadL3Hit
    <2>1. /\ get.pc = "l3" /\ get.asset \in Assets /\ UNCHANGED <<l1, images, misread, skew>>
          /\ get' = [get EXCEPT !.pc = "warm", !.copy = CopyOf(db[get.asset])]
          /\ seen' = [seen EXCEPT ![get.asset] = db[get.asset].ver]
      BY <1>5 DEF ReadL3Hit, pebble, Inv, GetSound
    <2>2. db[get.asset] \in Snapshots /\ l2[get.asset] \in Snapshots
          /\ l2[get.asset].ver <= db[get.asset].ver
      BY <2>1 DEF Inv, TypeOK, Lagging
    <2>3. PICK s \in Snapshots : s = db[get.asset]
      BY <2>2
    <2>4. s.ver >= l2[get.asset].ver
      BY <2>2, <2>3, StoreAssumption DEF Snapshots
    <2> QED BY <2>1, <2>3, <2>4, ReadAnswer
  <1>notfound. CASE ReadL3NotFound
    <2>1. /\ get.pc = "l3" /\ get.asset \in Assets /\ UNCHANGED <<l1, images, misread, skew>>
          /\ get' = Idle /\ seen' = [seen EXCEPT ![get.asset] = db[get.asset].ver]
      BY <1>notfound DEF ReadL3NotFound, pebble, Inv, GetSound
    <2>2. db[get.asset] \in Snapshots /\ l2[get.asset] \in Snapshots
          /\ l2[get.asset].ver <= db[get.asset].ver
      BY <2>1 DEF Inv, TypeOK, Lagging
    <2>3. PICK s \in Snapshots : s = db[get.asset]
      BY <2>2
    <2>4. s.ver >= l2[get.asset].ver
      BY <2>2, <2>3, StoreAssumption DEF Snapshots
    <2> QED BY <2>1, <2>3, <2>4, ReadAnswer
  <1>6. CASE WriteL1
    <2>1. seen' = seen
      BY <1>6 DEF WriteL1, reads
    <2> QED BY <1>6, <1>same, <2>1, ReadWrite
  <1>7. CASE Crash
    <2>1. seen' = seen
      BY <1>7 DEF Crash, history, reads
    <2> QED BY <1>7, <1>same, <2>1, ReadCrash
  <1>8. CASE Tick
    <2>1. seen' = seen
      BY <1>8 DEF Tick, history, reads
    <2> QED BY <1>8, <1>same, <2>1, ReadTick
  <1>9. CASE ClockBack
    <2>1. seen' = seen /\ get' = get /\ skew' = skew + 1 /\ skew \in Nat
      BY <1>9, StoreAssumption DEF ClockBack, history, reads, Inv, TypeOK
    <2>2. ReadInv'
      BY <2>1 DEF ReadInv, WarmSeen
    <2> QED BY <1>same, <2>1, <2>2
  <1> DEFINE Frame == /\ UNCHANGED <<l1, images, seen, misread, skew>>
                      /\ \/ UNCHANGED get \/ get'.pc = "idle"
                         \/ get.pc # "idle" /\ get'.pc = "l3" /\ get'.asset = get.asset
  <1>10. ASSUME Frame PROVE ReadInv' /\ Kept
    BY <1>10, <1>same, ReadFrame
  <1>11. ASSUME NEW a \in Assets, Crud(a) \/ Project(a) \/ MissInvalidation(a) PROVE Frame
    BY <1>11 DEF Crud, Project, MissInvalidation, history, pebble, reads
  <1>12. ASSUME ReadL2Error \/ ReadL3Error \/ WriteL1Fails PROVE Frame
    BY <1>12 DEF ReadL2Error, ReadL3Error, WriteL1Fails, Idle,
                 history, pebble, reads, Inv, TypeOK
  <1>13. ASSUME Outage \/ Restart \/ UNCHANGED vars PROVE Frame
    BY <1>13 DEF Outage, Restart, vars, history, pebble, reads
  <1> QED
    BY <1>1, <1>2, <1>3, <1>4, <1>5, <1>notfound, <1>6, <1>7, <1>8, <1>9, <1>10, <1>11,
       <1>12, <1>13 DEF Next, GetStep

\* Once a CONNECT has met a change, no later one is decided on what was there
\* before: not even after a crash that loses writeL1's unsynced writes.
THEOREM ChangesKept == Spec => ChangesAreNotForgotten
  <1>1. Inv /\ ReadInv /\ [Next]_vars => ReadInv'
    BY SeenStep
  <1>2. Inv /\ ReadInv /\ [Next]_vars =>
          [\A a \in Assets : seen'[a] < seen[a] =>
             l2[a].ver < seen[a] \/ skew > 0 \/ a \in misread]_vars
    BY SeenStep
  <1> QED BY StoreInvariant, ReadInit, <1>1, <1>2, PTL DEF Spec, ChangesAreNotForgotten

===============================================================================
