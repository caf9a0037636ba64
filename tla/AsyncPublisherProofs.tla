------------------------ MODULE AsyncPublisherProofs ------------------------
(***************************************************************************)
(* Theorems about AsyncPublisher for any number of producers, drainers,    *)
(* workers and jobs and any buffer size: its type invariant, no send on a  *)
(* closed channel, conservation of jobs, and what a true Drain means.      *)
(***************************************************************************)
EXTENDS AsyncPublisher, FiniteSetTheorems, SequenceTheorems, TLAPS

\* closeMu's read side is held exactly by the producers between RLock and
\* RUnlock.
LockInv == readers = {p \in Producers : ppc[p] \in {"check", "send", "count", "runlock"}}

\* Once the channel is closed no send is under way or uncounted.
OpenInv == \A p \in Producers : ppc[p] \in {"send", "count"} => ~closed

\* Workers leave a closed and empty channel only, and Drain's true follows
\* the last of them.
ExitInv ==
  /\ \A w \in Workers : wpc[w] = "exited" => closed /\ queue = <<>>
  /\ \A d \in Drainers : dpc[d] # "idle" => \A w \in Workers : wpc[w] # "unborn"
  /\ \A d \in Drainers : dpc[d] = "true" => \A w \in Workers : wpc[w] = "exited"

-----------------------------------------------------------------------------
(* The type invariant.                                                     *)

\* Every counter the code bumps stays a natural number.
LEMMA BumpType ==
  ASSUME NEW C, stat \in [Counters -> Nat], Bump(C)
  PROVE  stat' \in [Counters -> Nat]
BY DEF Bump

\* The variables keep the types of the Go struct's fields, and the channel
\* never holds more jobs than its capacity.
THEOREM TypeCorrect == Spec => []TypeOK
<1>. USE PublisherAssumption
<1>1. Init => TypeOK
  <2>. SUFFICES ASSUME Init PROVE TypeOK
    OBVIOUS
  <2>1. queue \in Seq(Jobs) /\ Len(queue) <= BufferSize
    BY DEF Init
  <2>2. sent \in Seq(Jobs) /\ tried \in Seq([job : Jobs, out : Outcomes])
    BY DEF Init
  <2>3. stat \in [Counters -> Nat]
    BY DEF Init
  <2>. QED  BY <2>1, <2>2, <2>3 DEF Init, TypeOK
<1>2. TypeOK /\ [Next]_vars => TypeOK'
  <2>. SUFFICES ASSUME TypeOK, [Next]_vars PROVE TypeOK'
    OBVIOUS
  <2>. USE DEF TypeOK, lock, prod, work, Step
  <2>1. CASE StartCAS
    BY <2>1 DEF StartCAS
  <2>2. ASSUME NEW w \in Workers, Spawn(w) PROVE TypeOK'
    BY <2>2 DEF Spawn
  <2>3. ASSUME NEW w \in Workers, WorkerRecv(w) PROVE TypeOK'
    <3>1. Head(queue) \in Jobs /\ Tail(queue) \in Seq(Jobs) /\ Len(Tail(queue)) <= BufferSize
      BY <2>3, HeadTailProperties DEF WorkerRecv
    <3>. QED  BY <3>1, <2>3 DEF WorkerRecv
  <2>4. ASSUME NEW w \in Workers, WorkerExit(w) PROVE TypeOK'
    BY <2>4 DEF WorkerExit
  <2>5. ASSUME NEW w \in Workers, NEW o \in Outcomes, WorkerPublish(w, o) PROVE TypeOK'
    <3>1. stat' \in [Counters -> Nat]
      BY <2>5, BumpType DEF WorkerPublish
    <3>2. tried' \in Seq([job : Jobs, out : Outcomes])
      BY <2>5 DEF WorkerPublish
    <3>. QED  BY <3>1, <3>2, <2>5 DEF WorkerPublish
  <2>6. ASSUME NEW p \in Producers, NEW j \in Jobs, CallEnqueue(p, j) PROVE TypeOK'
    BY <2>6 DEF CallEnqueue
  <2>7. ASSUME NEW p \in Producers, EnqueueBeforeStart(p) PROVE TypeOK'
    <3>1. stat' \in [Counters -> Nat]
      BY <2>7, BumpType DEF EnqueueBeforeStart
    <3>. QED  BY <3>1, <2>7 DEF EnqueueBeforeStart
  <2>8. ASSUME NEW p \in Producers, EnqueueGate(p) PROVE TypeOK'
    BY <2>8 DEF EnqueueGate
  <2>9. ASSUME NEW p \in Producers, EnqueueRLock(p) PROVE TypeOK'
    BY <2>9 DEF EnqueueRLock
  <2>10. ASSUME NEW p \in Producers, EnqueueClosed(p) PROVE TypeOK'
    BY <2>10 DEF EnqueueClosed
  <2>11. ASSUME NEW p \in Producers, EnqueueOpen(p) PROVE TypeOK'
    BY <2>11 DEF EnqueueOpen
  <2>12. ASSUME NEW p \in Producers, EnqueueSend(p) PROVE TypeOK'
    <3>1. pjob[p] \in Jobs
      BY <2>12 DEF EnqueueSend
    <3>2. /\ queue' \in Seq(Jobs) /\ Len(queue') <= BufferSize
          /\ sent' \in Seq(Jobs)
      BY <3>1, <2>12, AppendProperties DEF EnqueueSend
    <3>. QED  BY <3>1, <3>2, <2>12 DEF EnqueueSend
  <2>13. ASSUME NEW p \in Producers, EnqueueFull(p) PROVE TypeOK'
    <3>1. stat' \in [Counters -> Nat]
      BY <2>13, BumpType DEF EnqueueFull
    <3>. QED  BY <3>1, <2>13 DEF EnqueueFull
  <2>14. ASSUME NEW p \in Producers, EnqueueCount(p) PROVE TypeOK'
    <3>1. stat' \in [Counters -> Nat]
      BY <2>14, BumpType DEF EnqueueCount
    <3>. QED  BY <3>1, <2>14 DEF EnqueueCount
  <2>15. ASSUME NEW p \in Producers, EnqueueRUnlock(p) PROVE TypeOK'
    BY <2>15 DEF EnqueueRUnlock
  <2>16. ASSUME NEW d \in Drainers, CallDrain(d) \/ DrainLock(d) PROVE TypeOK'
    BY <2>16 DEF CallDrain, DrainLock
  <2>17. ASSUME NEW d \in Drainers, DrainClose(d) \/ DrainAgain(d) PROVE TypeOK'
    BY <2>17 DEF DrainClose, DrainAgain
  <2>18. ASSUME NEW d \in Drainers, DrainDone(d) \/ DrainTimeout(d) PROVE TypeOK'
    BY <2>18 DEF DrainDone, DrainTimeout
  <2>19. CASE Discard
    <3>1. stat' \in [Counters -> Nat]
      BY <2>19, BumpType DEF Discard
    <3>. QED  BY <3>1, <2>19 DEF Discard
  <2>20. CASE UNCHANGED vars
    BY <2>20 DEF vars
  <2>. QED
    BY <2>1, <2>2, <2>3, <2>4, <2>5, <2>6, <2>7, <2>8, <2>9, <2>10, <2>11, <2>12,
       <2>13, <2>14, <2>15, <2>16, <2>17, <2>18, <2>19, <2>20
    DEF Next, WorkerStep, EnqueueStep, DrainStep
<1>. QED  BY <1>1, <1>2, PTL DEF Spec

-----------------------------------------------------------------------------
(* The lock and the channel.                                               *)

\* Only RLock and RUnlock move a producer into or out of the read-locked steps.
LEMMA LockStep == TypeOK /\ LockInv /\ [Next]_vars => LockInv'
<1>. SUFFICES ASSUME TypeOK, LockInv, [Next]_vars PROVE LockInv'
  OBVIOUS
<1>. USE DEF TypeOK, LockInv, lock, prod, Step
<1>1. ASSUME NEW p \in Producers, NEW j \in Jobs, CallEnqueue(p, j) PROVE LockInv'
  BY <1>1 DEF CallEnqueue
<1>2. ASSUME NEW p \in Producers, EnqueueBeforeStart(p) \/ EnqueueGate(p) PROVE LockInv'
  BY <1>2 DEF EnqueueBeforeStart, EnqueueGate
<1>3. ASSUME NEW p \in Producers, EnqueueRLock(p) PROVE LockInv'
  BY <1>3 DEF EnqueueRLock
<1>4. ASSUME NEW p \in Producers, EnqueueClosed(p) \/ EnqueueOpen(p) PROVE LockInv'
  BY <1>4 DEF EnqueueClosed, EnqueueOpen
<1>5. ASSUME NEW p \in Producers,
             EnqueueSend(p) \/ EnqueueFull(p) \/ EnqueueCount(p)
      PROVE  LockInv'
  BY <1>5 DEF EnqueueSend, EnqueueFull, EnqueueCount
<1>6. ASSUME NEW p \in Producers, EnqueueRUnlock(p) PROVE LockInv'
  BY <1>6 DEF EnqueueRUnlock
<1>7. CASE UNCHANGED <<readers, ppc>>
  BY <1>7
<1>8. ASSUME NEW w \in Workers, Spawn(w) \/ WorkerStep(w) PROVE UNCHANGED <<readers, ppc>>
  BY <1>8 DEF Spawn, WorkerStep, WorkerRecv, WorkerExit, WorkerPublish
<1>9. ASSUME NEW d \in Drainers, CallDrain(d) \/ DrainStep(d) PROVE UNCHANGED <<readers, ppc>>
  BY <1>9 DEF CallDrain, DrainStep, DrainLock, DrainClose, DrainAgain, DrainDone, DrainTimeout
<1>. QED
  BY <1>1, <1>2, <1>3, <1>4, <1>5, <1>6, <1>7, <1>8, <1>9
  DEF Next, EnqueueStep, StartCAS, Discard, vars

\* A producer enters "send" only while the channel is open, and the one step
\* that closes the channel needs every reader to have left.
LEMMA OpenStep == TypeOK /\ LockInv /\ OpenInv /\ [Next]_vars => OpenInv'
<1>. SUFFICES ASSUME TypeOK, LockInv, OpenInv, [Next]_vars PROVE OpenInv'
  OBVIOUS
<1>. USE DEF TypeOK, OpenInv, lock, prod, Step
<1>1. ASSUME NEW p \in Producers, NEW j \in Jobs, CallEnqueue(p, j) PROVE OpenInv'
  BY <1>1 DEF CallEnqueue
<1>2. ASSUME NEW p \in Producers, EnqueueBeforeStart(p) \/ EnqueueGate(p) PROVE OpenInv'
  BY <1>2 DEF EnqueueBeforeStart, EnqueueGate
<1>3. ASSUME NEW p \in Producers, EnqueueRLock(p) \/ EnqueueRUnlock(p) PROVE OpenInv'
  BY <1>3 DEF EnqueueRLock, EnqueueRUnlock
<1>4. ASSUME NEW p \in Producers, EnqueueClosed(p) \/ EnqueueOpen(p) PROVE OpenInv'
  BY <1>4 DEF EnqueueClosed, EnqueueOpen
<1>5. ASSUME NEW p \in Producers,
             EnqueueSend(p) \/ EnqueueFull(p) \/ EnqueueCount(p)
      PROVE  OpenInv'
  BY <1>5 DEF EnqueueSend, EnqueueFull, EnqueueCount
<1>6. ASSUME NEW d \in Drainers, DrainClose(d) PROVE OpenInv'
  BY <1>6 DEF DrainClose, LockInv
<1>7. CASE UNCHANGED <<closed, ppc>>
  BY <1>7
<1>8. ASSUME NEW w \in Workers, Spawn(w) \/ WorkerStep(w) PROVE UNCHANGED <<closed, ppc>>
  BY <1>8 DEF Spawn, WorkerStep, WorkerRecv, WorkerExit, WorkerPublish
<1>9. ASSUME NEW d \in Drainers,
             CallDrain(d) \/ DrainLock(d) \/ DrainAgain(d) \/ DrainDone(d) \/ DrainTimeout(d)
      PROVE  UNCHANGED <<closed, ppc>>
  BY <1>9 DEF CallDrain, DrainLock, DrainAgain, DrainDone, DrainTimeout
<1>. QED
  BY <1>1, <1>2, <1>3, <1>4, <1>5, <1>6, <1>7, <1>8, <1>9
  DEF Next, EnqueueStep, DrainStep, StartCAS, Discard, vars

\* The two invariants hold of every reachable state.
LEMMA LockAndOpen == Spec => [](LockInv /\ OpenInv)
<1>1. Init => LockInv /\ OpenInv
  BY DEF Init, LockInv, OpenInv
<1>. QED  BY <1>1, LockStep, OpenStep, TypeCorrect, PTL DEF Spec

\* Enqueue never sends on a closed channel, whatever Drain does meanwhile: the
\* guarantee closeMu is there for.
THEOREM ChannelSafe == Spec => []NoSendOnClosedChannel
<1>1. OpenInv => NoSendOnClosedChannel
  BY DEF OpenInv, NoSendOnClosedChannel
<1>. QED  BY <1>1, LockAndOpen, PTL

-----------------------------------------------------------------------------
(* Conservation of jobs.                                                   *)

\* The two sets Conservation counts are finite.
LEMMA CountedSets ==
  /\ IsFiniteSet(Uncounted) /\ Cardinality(Uncounted) \in Nat
  /\ IsFiniteSet(Publishing) /\ Cardinality(Publishing) \in Nat
<1>1. Uncounted \in SUBSET Producers /\ Publishing \in SUBSET Workers
  BY DEF Uncounted, Publishing
<1>. QED  BY <1>1, PublisherAssumption, FS_Subset, FS_CardinalityType

\* A step that touches none of the five quantities keeps their balance.
LEMMA ConservationFrame ==
  ASSUME Conservation,
         Uncounted' = Uncounted, Publishing' = Publishing, queue' = queue,
         stat'["enqueued"] = stat["enqueued"],
         stat'["published"] = stat["published"],
         stat'["publishErr"] = stat["publishErr"]
  PROVE  Conservation'
BY DEF Conservation

\* Each step that moves a job moves it between two neighbours: into the buffer
\* and the uncounted, from there into a worker, from there into a counter.
LEMMA ConservationStep == TypeOK /\ Conservation /\ [Next]_vars => Conservation'
<1>. SUFFICES ASSUME TypeOK, Conservation, [Next]_vars PROVE Conservation'
  OBVIOUS
<1>0. /\ stat["enqueued"] \in Nat /\ stat["published"] \in Nat /\ stat["publishErr"] \in Nat
      /\ Len(queue) \in Nat
      /\ Cardinality(Uncounted) \in Nat /\ Cardinality(Publishing) \in Nat
  BY LenProperties, CountedSets DEF TypeOK, Counters
<1>terms. PICK e \in Nat, u \in Nat, s \in Nat, f \in Nat, b \in Nat, q \in Nat :
         /\ e = stat["enqueued"] /\ u = Cardinality(Uncounted)
         /\ s = stat["published"] /\ f = stat["publishErr"]
         /\ b = Cardinality(Publishing) /\ q = Len(queue)
  BY <1>0, Zenon
<1>sum. e + u = s + f + b + q
  BY <1>terms DEF Conservation
<1>1. ASSUME NEW p \in Producers, EnqueueSend(p) PROVE Conservation'
  <2>1. Uncounted' = Uncounted \cup {p} /\ p \notin Uncounted
    BY <1>1 DEF EnqueueSend, Step, Uncounted, TypeOK
  <2>2. Cardinality(Uncounted') = Cardinality(Uncounted) + 1
    BY <2>1, CountedSets, FS_AddElement
  <2>3. Len(queue') = Len(queue) + 1
    BY <1>1, AppendProperties DEF EnqueueSend, Step, TypeOK
  <2>4. UNCHANGED <<stat, Publishing>>
    BY <1>1 DEF EnqueueSend, work, Publishing
  <2>5. e + (u + 1) = s + f + b + (q + 1)
    BY <1>sum
  <2>. QED  BY <1>terms, <2>2, <2>3, <2>4, <2>5 DEF Conservation
<1>2. ASSUME NEW p \in Producers, EnqueueCount(p) PROVE Conservation'
  <2>1. Uncounted' = Uncounted \ {p} /\ p \in Uncounted
    BY <1>2 DEF EnqueueCount, Step, Uncounted, TypeOK
  <2>2. Cardinality(Uncounted') = Cardinality(Uncounted) - 1
    BY <2>1, CountedSets, FS_RemoveElement
  <2>3. /\ stat'["enqueued"] = stat["enqueued"] + 1
        /\ stat'["published"] = stat["published"]
        /\ stat'["publishErr"] = stat["publishErr"]
    BY <1>2 DEF EnqueueCount, Bump, Counters
  <2>4. UNCHANGED <<queue, Publishing>>
    BY <1>2 DEF EnqueueCount, work, Publishing
  <2>5. (e + 1) + (u - 1) = s + f + b + q
    BY <1>sum
  <2>. QED  BY <1>terms, <2>2, <2>3, <2>4, <2>5 DEF Conservation
<1>3. ASSUME NEW w \in Workers, WorkerRecv(w) PROVE Conservation'
  <2>1. Publishing' = Publishing \cup {w} /\ w \notin Publishing
    BY <1>3 DEF WorkerRecv, Publishing, TypeOK
  <2>2. Cardinality(Publishing') = Cardinality(Publishing) + 1
    BY <2>1, CountedSets, FS_AddElement
  <2>3. Len(queue') = Len(queue) - 1
    BY <1>3, HeadTailProperties DEF WorkerRecv, TypeOK
  <2>4. UNCHANGED <<stat, Uncounted>>
    BY <1>3 DEF WorkerRecv, prod, Uncounted
  <2>5. e + u = s + f + (b + 1) + (q - 1)
    BY <1>sum
  <2>. QED  BY <1>terms, <2>2, <2>3, <2>4, <2>5 DEF Conservation
<1>4. ASSUME NEW w \in Workers, NEW o \in Outcomes, WorkerPublish(w, o) PROVE Conservation'
  <2>1. Publishing' = Publishing \ {w} /\ w \in Publishing
    BY <1>4 DEF WorkerPublish, Publishing, TypeOK
  <2>2. Cardinality(Publishing') = Cardinality(Publishing) - 1
    BY <2>1, CountedSets, FS_RemoveElement
  <2>3. /\ stat'["enqueued"] = stat["enqueued"]
        /\ stat'["published"] + stat'["publishErr"] = stat["published"] + stat["publishErr"] + 1
    BY <1>4 DEF WorkerPublish, Bump, Charge, Counters, Outcomes, TypeOK
  <2>4. UNCHANGED <<queue, Uncounted>>
    BY <1>4 DEF WorkerPublish, prod, Uncounted
  <2>5. e + u = (s + f + 1) + (b - 1) + q
    BY <1>sum
  <2>. QED  BY <1>terms, <2>2, <2>3, <2>4, <2>5 DEF Conservation
<1>5. ASSUME NEW w \in Workers, Spawn(w) \/ WorkerExit(w) PROVE Conservation'
  <2>1. Publishing' = Publishing
    BY <1>5 DEF Spawn, WorkerExit, Publishing, TypeOK
  <2>2. UNCHANGED <<queue, stat, Uncounted>>
    BY <1>5 DEF Spawn, WorkerExit, prod, Uncounted
  <2>. QED  BY <2>1, <2>2, ConservationFrame
<1>6. ASSUME NEW p \in Producers, EnqueueBeforeStart(p) \/ EnqueueFull(p) PROVE Conservation'
  <2>1. Uncounted' = Uncounted
    BY <1>6 DEF EnqueueBeforeStart, EnqueueFull, Step, Uncounted, TypeOK
  <2>2. UNCHANGED <<queue, Publishing>>
    BY <1>6 DEF EnqueueBeforeStart, EnqueueFull, work, Publishing
  <2>3. /\ stat'["enqueued"] = stat["enqueued"]
        /\ stat'["published"] = stat["published"]
        /\ stat'["publishErr"] = stat["publishErr"]
    BY <1>6 DEF EnqueueBeforeStart, EnqueueFull, Bump, Counters
  <2>. QED  BY <2>1, <2>2, <2>3, ConservationFrame
<1>7. ASSUME NEW p \in Producers,
             \/ EnqueueGate(p) \/ EnqueueRLock(p) \/ EnqueueClosed(p) \/ EnqueueOpen(p)
             \/ EnqueueRUnlock(p) \/ \E j \in Jobs : CallEnqueue(p, j)
      PROVE  Conservation'
  <2>1. Uncounted' = Uncounted
    BY <1>7 DEF EnqueueGate, EnqueueRLock, EnqueueClosed, EnqueueOpen, EnqueueRUnlock,
                CallEnqueue, Step, Uncounted, TypeOK
  <2>2. UNCHANGED <<queue, stat, Publishing>>
    BY <1>7 DEF EnqueueGate, EnqueueRLock, EnqueueClosed, EnqueueOpen, EnqueueRUnlock,
                CallEnqueue, work, Publishing
  <2>. QED  BY <2>1, <2>2, ConservationFrame
<1>8. ASSUME UNCHANGED <<queue, stat, ppc, wpc>> PROVE Conservation'
  BY <1>8, ConservationFrame DEF Uncounted, Publishing
<1>9. ASSUME NEW d \in Drainers, CallDrain(d) \/ DrainStep(d)
      PROVE  UNCHANGED <<queue, stat, ppc, wpc>>
  BY <1>9 DEF CallDrain, DrainStep, DrainLock, DrainClose, DrainAgain, DrainDone,
              DrainTimeout, prod, work
<1>10. ASSUME Discard PROVE Conservation'
  <2>1. UNCHANGED <<queue, Uncounted, Publishing>>
    BY <1>10 DEF Discard, prod, work, Uncounted, Publishing
  <2>2. /\ stat'["enqueued"] = stat["enqueued"]
        /\ stat'["published"] = stat["published"]
        /\ stat'["publishErr"] = stat["publishErr"]
    BY <1>10 DEF Discard, Bump, Counters
  <2>. QED  BY <2>1, <2>2, ConservationFrame
<1>. QED
  BY <1>1, <1>2, <1>3, <1>4, <1>5, <1>6, <1>7, <1>8, <1>9, <1>10
  DEF Next, EnqueueStep, WorkerStep, StartCAS, vars, prod, work

\* No job is lost or counted twice on its way from Enqueue to the counters.
THEOREM JobsConserved == Spec => []Conservation
<1>1. Init => Conservation
  <2>. SUFFICES ASSUME Init PROVE Conservation
    OBVIOUS
  <2>1. Uncounted = {} /\ Publishing = {}
    BY DEF Init, Uncounted, Publishing
  <2>2. Len(queue) = 0 /\ stat = [c \in Counters |-> 0]
    BY DEF Init
  <2>. QED  BY <2>1, <2>2, FS_EmptySet DEF Conservation, Counters
<1>. QED  BY <1>1, ConservationStep, TypeCorrect, PTL DEF Spec

-----------------------------------------------------------------------------
(* What Drain's true means.                                                *)

\* A worker's exit is final: nothing is sent once the channel is closed.
LEMMA ExitStep == TypeOK /\ OpenInv /\ ExitInv /\ [Next]_vars => ExitInv'
<1>. SUFFICES ASSUME TypeOK, OpenInv, ExitInv, [Next]_vars PROVE ExitInv'
  OBVIOUS
<1>. USE DEF TypeOK, ExitInv, lock, prod, work
<1>1. ASSUME NEW w \in Workers, Spawn(w) PROVE ExitInv'
  BY <1>1 DEF Spawn
<1>2. ASSUME NEW w \in Workers, WorkerRecv(w) PROVE ExitInv'
  BY <1>2 DEF WorkerRecv
<1>3. ASSUME NEW w \in Workers, WorkerExit(w) PROVE ExitInv'
  BY <1>3 DEF WorkerExit
<1>4. ASSUME NEW w \in Workers, NEW o \in Outcomes, WorkerPublish(w, o) PROVE ExitInv'
  BY <1>4 DEF WorkerPublish
<1>5. ASSUME NEW p \in Producers, EnqueueSend(p) PROVE ExitInv'
  BY <1>5 DEF EnqueueSend, Step, OpenInv
<1>6. ASSUME NEW d \in Drainers, CallDrain(d) \/ DrainLock(d) PROVE ExitInv'
  <2>1. CASE CallDrain(d)
    BY <2>1 DEF CallDrain
  <2>2. CASE DrainLock(d)
    BY <2>2 DEF DrainLock
  <2>. QED  BY <1>6, <2>1, <2>2
<1>7. ASSUME NEW d \in Drainers, DrainClose(d) \/ DrainAgain(d) PROVE ExitInv'
  <2>1. CASE DrainClose(d)
    BY <2>1 DEF DrainClose
  <2>2. CASE DrainAgain(d)
    BY <2>2 DEF DrainAgain
  <2>. QED  BY <1>7, <2>1, <2>2
<1>8. ASSUME NEW d \in Drainers, DrainDone(d) \/ DrainTimeout(d) PROVE ExitInv'
  <2>1. CASE DrainDone(d)
    BY <2>1 DEF DrainDone, WaitGroupZero
  <2>2. CASE DrainTimeout(d)
    BY <2>2 DEF DrainTimeout
  <2>. QED  BY <1>8, <2>1, <2>2
<1>9. CASE UNCHANGED <<closed, queue, wpc, dpc>>
  BY <1>9
<1>10. ASSUME NEW p \in Producers,
             \/ EnqueueGate(p) \/ EnqueueRLock(p) \/ EnqueueClosed(p) \/ EnqueueOpen(p)
             \/ EnqueueBeforeStart(p) \/ EnqueueFull(p) \/ EnqueueCount(p)
             \/ EnqueueRUnlock(p) \/ \E j \in Jobs : CallEnqueue(p, j)
      PROVE  UNCHANGED <<closed, queue, wpc, dpc>>
  BY <1>10 DEF EnqueueGate, EnqueueRLock, EnqueueClosed, EnqueueOpen, EnqueueBeforeStart,
               EnqueueFull, EnqueueCount, EnqueueRUnlock, CallEnqueue
<1>. QED
  BY <1>1, <1>2, <1>3, <1>4, <1>5, <1>6, <1>7, <1>8, <1>9, <1>10
  DEF Next, EnqueueStep, WorkerStep, DrainStep, StartCAS, Discard, vars

\* The Drain that closed the channel returns true only after every accepted
\* job was published or failed, and the counters it logs then add up.
THEOREM DrainSound == Spec => []DrainedMeansSettled
<1>1. Init => ExitInv
  BY DEF Init, ExitInv
<1>2. Spec => []ExitInv
  BY <1>1, ExitStep, LockAndOpen, TypeCorrect, PTL DEF Spec
<1>3. TypeOK /\ OpenInv /\ ExitInv /\ Conservation => DrainedMeansSettled
  <2>. SUFFICES ASSUME TypeOK, OpenInv, ExitInv, Conservation,
                       NEW d \in Drainers, dpc[d] = "true"
                PROVE  /\ queue = <<>> /\ \A w \in Workers : wpc[w] = "exited"
                       /\ stat["enqueued"] = stat["published"] + stat["publishErr"]
    BY DEF DrainedMeansSettled
  <2>1. \A w \in Workers : wpc[w] = "exited"
    BY DEF ExitInv
  <2>2. closed /\ queue = <<>>
    BY <2>1, PublisherAssumption DEF ExitInv
  <2>3. Uncounted = {} /\ Publishing = {}
    BY <2>1, <2>2 DEF Uncounted, Publishing, OpenInv
  <2>4. Len(queue) = 0
    BY <2>2
  <2>. QED  BY <2>1, <2>2, <2>3, <2>4, FS_EmptySet DEF Conservation, TypeOK, Counters
<1>. QED  BY <1>2, <1>3, LockAndOpen, JobsConserved, TypeCorrect, PTL
=============================================================================
