---------------------------- MODULE AsyncPublisher ----------------------------
(***************************************************************************)
(* The bounded, non-blocking bridge from the broker thread to NATS         *)
(* (nats_publisher.go).  Producers call Enqueue, Drainers call Drain, and  *)
(* Workers are the goroutines Start spawns; each takes the steps another   *)
(* goroutine can observe: atomic loads and adds, closeMu transitions,      *)
(* channel operations, and the call into NATS.                             *)
(***************************************************************************)
EXTENDS Naturals, Sequences, FiniteSets, Functions

CONSTANTS Producers, Drainers, Workers, \* goroutines
          Jobs,                         \* envelopes, each offered at most once
          BufferSize,                   \* cap(queue)
          MaxDiscards,                  \* bound on what the runtime discards
          NoJob, NoDrainer

ASSUME PublisherAssumption ==
  /\ BufferSize \in Nat \ {0} /\ MaxDiscards \in Nat
  /\ IsFiniteSet(Producers) /\ IsFiniteSet(Workers) /\ Workers # {}
  /\ NoJob \notin Jobs /\ NoDrainer \notin Drainers

VARIABLES
  started, closed,  \* the two flags; closed also says the channel is closed
  queue,            \* the channel's buffer
  readers, writer,  \* closeMu: read-lock holders; the Lock() caller that has
                    \* shut out new readers, waiting for or holding the lock
  stat,             \* the atomic counters and, as history, "discarded"
  ppc, pjob,        \* producers: next step inside Enqueue, and its argument
  wpc, wjob,        \* workers: goroutine state, and the job being published
  dpc,              \* drainers: next step inside Drain, or how it returned
  told, sent, tried \* history: Enqueue's answers; the order of channel sends;
                    \* the order and outcome of the calls into NATS

lock == <<readers, writer>>
prod == <<ppc, pjob, told, sent>>
work == <<wpc, wjob, tried>>
vars == <<started, closed, queue, lock, stat, prod, work, dpc>>

Counters == {"enqueued", "published", "publishErr", "dropped", "droppedNoStart", "panics",
             "discarded"}
Outcomes == {"ok", "err", "panic"}

Init == /\ started = FALSE /\ closed = FALSE /\ queue = <<>>
        /\ readers = {} /\ writer = NoDrainer
        /\ stat = [c \in Counters |-> 0]
        /\ ppc = [p \in Producers |-> "idle"] /\ pjob = [p \in Producers |-> NoJob]
        /\ wpc = [w \in Workers |-> "unborn"] /\ wjob = [w \in Workers |-> NoJob]
        /\ dpc = [d \in Drainers |-> "idle"]
        /\ told = [j \in Jobs |-> "nothing"] /\ sent = <<>> /\ tried = <<>>

Bump(C) == stat' = [c \in Counters |-> IF c \in C THEN stat[c] + 1 ELSE stat[c]]

-------------------------------------------------------------------------------
\* Start: the CAS, then one wg.Add(1); go worker() per worker.
StartCAS == /\ ~started /\ started' = TRUE
            /\ UNCHANGED <<closed, queue, lock, stat, prod, work, dpc>>

Spawn(w) == /\ started /\ wpc[w] = "unborn"
            /\ wpc' = [wpc EXCEPT ![w] = "range"]
            /\ UNCHANGED <<started, closed, queue, lock, stat, prod, wjob, tried, dpc>>

\* wg.Wait() returns once every goroutine Start added has called Done.
WaitGroupZero == \A w \in Workers : wpc[w] \in {"unborn", "exited"}

-------------------------------------------------------------------------------
\* Enqueue.  Step(p, s, t): producer p moves on from step s to step t.
Step(p, s, t) == ppc[p] = s /\ ppc' = [ppc EXCEPT ![p] = t]

CallEnqueue(p, j) ==
  /\ told[j] = "nothing" /\ Step(p, "idle", "gate")
  /\ pjob' = [pjob EXCEPT ![p] = j]
  /\ told' = [told EXCEPT ![j] = "pending"]
  /\ UNCHANGED <<started, closed, queue, lock, stat, sent, work, dpc>>

EnqueueBeforeStart(p) ==
  /\ ~started /\ Step(p, "gate", "idle")
  /\ Bump({"droppedNoStart", "dropped"})
  /\ told' = [told EXCEPT ![pjob[p]] = "false"]
  /\ UNCHANGED <<started, closed, queue, lock, pjob, sent, work, dpc>>

EnqueueGate(p) ==
  /\ started /\ Step(p, "gate", "rlock")
  /\ UNCHANGED <<started, closed, queue, lock, stat, pjob, told, sent, work, dpc>>

EnqueueRLock(p) ==
  /\ writer = NoDrainer /\ Step(p, "rlock", "check")
  /\ readers' = readers \cup {p}
  /\ UNCHANGED <<started, closed, queue, writer, stat, pjob, told, sent, work, dpc>>

EnqueueClosed(p) ==
  /\ closed /\ Step(p, "check", "runlock")
  /\ told' = [told EXCEPT ![pjob[p]] = "false"]
  /\ UNCHANGED <<started, closed, queue, lock, stat, pjob, sent, work, dpc>>

EnqueueOpen(p) ==
  /\ ~closed /\ Step(p, "check", "send")
  /\ UNCHANGED <<started, closed, queue, lock, stat, pjob, told, sent, work, dpc>>

\* mutant: the buffer is one longer than the configured size
MutEnqueueSend(p) ==
  /\ Len(queue) <= BufferSize /\ Step(p, "send", "count")
  /\ queue' = Append(queue, pjob[p]) /\ sent' = Append(sent, pjob[p])
  /\ told' = [told EXCEPT ![pjob[p]] = "true"]
  /\ UNCHANGED <<started, closed, lock, stat, pjob, work, dpc>>

EnqueueSend(p) ==
  /\ Len(queue) < BufferSize /\ Step(p, "send", "count")
  /\ queue' = Append(queue, pjob[p]) /\ sent' = Append(sent, pjob[p])
  /\ told' = [told EXCEPT ![pjob[p]] = "true"]
  /\ UNCHANGED <<started, closed, lock, stat, pjob, work, dpc>>

\* mutant: a plain channel send, which waits for room instead of dropping
MutEnqueueFull(p) == FALSE /\ p \in Producers /\ UNCHANGED vars

\* mutant: a job that finds the buffer full is dropped without being counted
MutFullUncounted(p) ==
  /\ Len(queue) = BufferSize /\ Step(p, "send", "runlock")
  /\ told' = [told EXCEPT ![pjob[p]] = "false"]
  /\ UNCHANGED <<started, closed, queue, lock, stat, pjob, sent, work, dpc>>

EnqueueFull(p) ==
  /\ Len(queue) = BufferSize /\ Step(p, "send", "runlock")
  /\ Bump({"dropped"})
  /\ told' = [told EXCEPT ![pjob[p]] = "false"]
  /\ UNCHANGED <<started, closed, queue, lock, pjob, sent, work, dpc>>

EnqueueCount(p) ==
  /\ Step(p, "count", "runlock") /\ Bump({"enqueued"})
  /\ UNCHANGED <<started, closed, queue, lock, pjob, told, sent, work, dpc>>

EnqueueRUnlock(p) ==
  /\ Step(p, "runlock", "idle")
  /\ readers' = readers \ {p}
  /\ UNCHANGED <<started, closed, queue, writer, stat, pjob, told, sent, work, dpc>>

EnqueueStep(p) ==
  \/ EnqueueBeforeStart(p) \/ EnqueueGate(p) \/ EnqueueRLock(p)
  \/ EnqueueClosed(p) \/ EnqueueOpen(p) \/ EnqueueSend(p) \/ EnqueueFull(p)
  \/ EnqueueCount(p) \/ EnqueueRUnlock(p)

\* The runtime charges the publisher with a drop for a message it never offers:
\* one without a legal subject, one too large, one it cannot marshal.
Discard ==
  /\ stat["discarded"] < MaxDiscards /\ Bump({"dropped", "discarded"})
  /\ UNCHANGED <<started, closed, queue, lock, prod, work, dpc>>

-------------------------------------------------------------------------------
\* The worker loop: for job := range queue { publishOne(job) }.
\* mutant: the newest job first
MutWorkerRecv(w) ==
  /\ wpc[w] = "range" /\ queue # <<>>
  /\ wpc' = [wpc EXCEPT ![w] = "publish"]
  /\ wjob' = [wjob EXCEPT ![w] = queue[Len(queue)]]
  /\ queue' = SubSeq(queue, 1, Len(queue) - 1)
  /\ UNCHANGED <<started, closed, lock, stat, prod, tried, dpc>>

WorkerRecv(w) ==
  /\ wpc[w] = "range" /\ queue # <<>>
  /\ wpc' = [wpc EXCEPT ![w] = "publish"]
  /\ wjob' = [wjob EXCEPT ![w] = Head(queue)]
  /\ queue' = Tail(queue)
  /\ UNCHANGED <<started, closed, lock, stat, prod, tried, dpc>>

\* mutant: a recovered panic is counted as a panic only
MutCharge(o) == IF o = "ok" THEN {"published"} ELSE IF o = "err" THEN {"publishErr"}
                ELSE {"panics"}

\* What publishOne adds to the counters for each way Publish can end.
Charge(o) == IF o = "ok" THEN {"published"} ELSE IF o = "err" THEN {"publishErr"}
             ELSE {"panics", "publishErr"}

\* mutant: a failed publish puts the job back into the channel
MutWorkerPublish(w, o) ==
  /\ wpc[w] = "publish"
  /\ wpc' = [wpc EXCEPT ![w] = "range"]
  /\ wjob' = [wjob EXCEPT ![w] = NoJob]
  /\ tried' = Append(tried, [job |-> wjob[w], out |-> o])
  /\ queue' = IF o = "err" /\ Len(queue) < BufferSize THEN Append(queue, wjob[w]) ELSE queue
  /\ Bump(Charge(o))
  /\ UNCHANGED <<started, closed, lock, prod, dpc>>

\* mutant: no recover, so a panic in Publish ends the goroutine
MutWorkerDies(w, o) ==
  /\ wpc[w] = "publish"
  /\ wpc' = [wpc EXCEPT ![w] = IF o = "panic" THEN "exited" ELSE "range"]
  /\ wjob' = [wjob EXCEPT ![w] = NoJob]
  /\ tried' = Append(tried, [job |-> wjob[w], out |-> o])
  /\ Bump(Charge(o))
  /\ UNCHANGED <<started, closed, queue, lock, prod, dpc>>

WorkerPublish(w, o) ==
  /\ wpc[w] = "publish"
  /\ wpc' = [wpc EXCEPT ![w] = "range"]
  /\ wjob' = [wjob EXCEPT ![w] = NoJob]
  /\ tried' = Append(tried, [job |-> wjob[w], out |-> o])
  /\ Bump(Charge(o))
  /\ UNCHANGED <<started, closed, queue, lock, prod, dpc>>

\* mutant: a worker leaves as soon as the channel is closed, buffer or not
MutWorkerExit(w) ==
  /\ wpc[w] = "range" /\ closed
  /\ wpc' = [wpc EXCEPT ![w] = "exited"]
  /\ UNCHANGED <<started, closed, queue, lock, stat, prod, wjob, tried, dpc>>

WorkerExit(w) ==
  /\ wpc[w] = "range" /\ closed /\ queue = <<>>
  /\ wpc' = [wpc EXCEPT ![w] = "exited"]
  /\ UNCHANGED <<started, closed, queue, lock, stat, prod, wjob, tried, dpc>>

WorkerStep(w) == \/ WorkerRecv(w) \/ WorkerExit(w)
                 \/ \E o \in Outcomes : WorkerPublish(w, o)

-------------------------------------------------------------------------------
\* Drain.  BuildRuntime runs Start to its end before anyone holds the
\* publisher, so no Drain is called while Start is still spawning.
CallDrain(d) ==
  /\ dpc[d] = "idle" /\ \A w \in Workers : wpc[w] # "unborn"
  /\ dpc' = [dpc EXCEPT ![d] = "lock"]
  /\ UNCHANGED <<started, closed, queue, lock, stat, prod, work>>

DrainLock(d) ==
  /\ dpc[d] = "lock" /\ writer = NoDrainer
  /\ writer' = d /\ dpc' = [dpc EXCEPT ![d] = "locked"]
  /\ UNCHANGED <<started, closed, queue, readers, stat, prod, work>>

\* mutant: the close does not wait for the senders that hold the read lock
MutDrainClose(d) ==
  /\ dpc[d] = "locked" /\ ~closed
  /\ closed' = TRUE /\ writer' = NoDrainer
  /\ dpc' = [dpc EXCEPT ![d] = "wait"]
  /\ UNCHANGED <<started, queue, readers, stat, prod, work>>

\* Readers gone, Lock() returns; nobody can watch the critical section.
DrainClose(d) ==
  /\ dpc[d] = "locked" /\ readers = {} /\ ~closed
  /\ closed' = TRUE /\ writer' = NoDrainer
  /\ dpc' = [dpc EXCEPT ![d] = "wait"]
  /\ UNCHANGED <<started, queue, readers, stat, prod, work>>

DrainAgain(d) ==
  /\ dpc[d] = "locked" /\ readers = {} /\ closed
  /\ writer' = NoDrainer /\ dpc' = [dpc EXCEPT ![d] = "trueAgain"]
  /\ UNCHANGED <<started, closed, queue, readers, stat, prod, work>>

DrainDone(d) ==
  /\ dpc[d] = "wait" /\ WaitGroupZero
  /\ dpc' = [dpc EXCEPT ![d] = "true"]
  /\ UNCHANGED <<started, closed, queue, lock, stat, prod, work>>

\* mutant: Drain waits for the workers however long they take
MutDrainTimeout(d) == FALSE /\ d \in Drainers /\ UNCHANGED vars

DrainTimeout(d) ==
  /\ dpc[d] = "wait" /\ dpc' = [dpc EXCEPT ![d] = "false"]
  /\ UNCHANGED <<started, closed, queue, lock, stat, prod, work>>

DrainStep(d) == \/ DrainLock(d) \/ DrainClose(d) \/ DrainAgain(d)
                \/ DrainDone(d) \/ DrainTimeout(d)

-------------------------------------------------------------------------------
Next == \/ StartCAS \/ Discard
        \/ \E w \in Workers : Spawn(w) \/ WorkerStep(w)
        \/ \E p \in Producers : EnqueueStep(p) \/ \E j \in Jobs : CallEnqueue(p, j)
        \/ \E d \in Drainers : CallDrain(d) \/ DrainStep(d)

Spec == Init /\ [][Next]_vars

\* The Go scheduler runs every runnable goroutine and the drain timer fires;
\* nothing is assumed of the workers, so a call into NATS may hang for ever.
FairSpec == /\ Spec
            /\ \A p \in Producers : WF_vars(EnqueueStep(p))
            /\ \A d \in Drainers : WF_vars(DrainStep(d))

-------------------------------------------------------------------------------
TypeOK ==
  /\ started \in BOOLEAN /\ closed \in BOOLEAN
  /\ queue \in Seq(Jobs) /\ Len(queue) <= BufferSize
  /\ readers \subseteq Producers /\ writer \in Drainers \cup {NoDrainer}
  /\ stat \in [Counters -> Nat]
  /\ ppc \in [Producers -> {"idle", "gate", "rlock", "check", "send", "count", "runlock"}]
  /\ pjob \in [Producers -> Jobs \cup {NoJob}]
  /\ \A p \in Producers : ppc[p] # "idle" => pjob[p] \in Jobs
  /\ wpc \in [Workers -> {"unborn", "range", "publish", "exited"}]
  /\ wjob \in [Workers -> Jobs \cup {NoJob}]
  /\ \A w \in Workers : wpc[w] = "publish" => wjob[w] \in Jobs
  /\ dpc \in [Drainers -> {"idle", "lock", "locked", "wait", "true", "trueAgain", "false"}]
  /\ told \in [Jobs -> {"nothing", "pending", "true", "false"}]
  /\ sent \in Seq(Jobs) /\ tried \in Seq([job : Jobs, out : Outcomes])

\* A producer that has passed the closed check finds the channel still open
\* when it sends: Drain's close cannot fall between Enqueue's check and its
\* send, which would panic and take the broker down.
NoSendOnClosedChannel == \A p \in Producers : ppc[p] = "send" => ~closed

Uncounted == {p \in Producers : ppc[p] = "count"}
Publishing == {w \in Workers : wpc[w] = "publish"}

\* No job is lost or counted twice between Enqueue and the outcome counters:
\* what was sent (counted, or sent and about to be counted) is what has been
\* published or has failed, plus what a worker holds, plus what is buffered.
Conservation ==
  stat["enqueued"] + Cardinality(Uncounted)
    = stat["published"] + stat["publishErr"] + Cardinality(Publishing) + Len(queue)

Answered(answer) == {j \in Jobs : told[j] = answer}

\* The counters agree with the answers Enqueue gave: every true is, or is about
\* to be, in EnqueuedCount, and until Drain closes the channel DroppedCount is the
\* number of falses plus what the runtime discarded without asking.  From then on
\* it misses some falses, and still counts nothing twice.
AnswersAreCounted ==
  /\ stat["enqueued"] + Cardinality(Uncounted) = Cardinality(Answered("true"))
  /\ stat["dropped"] <= Cardinality(Answered("false")) + stat["discarded"]
  /\ ~closed => stat["dropped"] = Cardinality(Answered("false")) + stat["discarded"]

\* The Drain that closed the channel returns true only when every accepted
\* job has met its outcome, and the counters it logs add up.
DrainedMeansSettled ==
  (\E d \in Drainers : dpc[d] = "true") =>
     /\ queue = <<>> /\ \A w \in Workers : wpc[w] = "exited"
     /\ stat["enqueued"] = stat["published"] + stat["publishErr"]

TriedJobs == {tried[i].job : i \in DOMAIN tried}

\* The pool reorders no more than its size: when a job has reached NATS, fewer
\* jobs sent before it than there are workers can still be on their way.  With
\* one worker, NATS sees the jobs in the order Enqueue accepted them.
BoundedOvertaking ==
  \A i \in DOMAIN sent : sent[i] \in TriedJobs =>
     Cardinality({k \in 1 .. i : sent[k] \notin TriedJobs}) < Cardinality(Workers)

\* Enqueue always returns, whatever NATS does: no step of it waits for a worker.
EnqueueReturns == \A p \in Producers : ppc[p] # "idle" ~> ppc[p] = "idle"

Returned == {"true", "trueAgain", "false"}

\* Drain always returns, even if a worker never comes back from NATS.
DrainReturns == \A d \in Drainers : dpc[d] = "lock" ~> dpc[d] \in Returned

\* As long as calls into NATS return, with whatever outcome, every job Enqueue
\* accepted is eventually handed to NATS, also when earlier publishes failed or
\* panicked and also when the channel is being drained.
AcceptedIsTried ==
  (\A w \in Workers : WF_vars(Spawn(w)) /\ WF_vars(WorkerStep(w)))
     => \A j \in Jobs : told[j] = "true" ~> j \in TriedJobs

-------------------------------------------------------------------------------
\* The abstract queue the publisher implements: a job's fate is read off the
\* history, the phase off the flags.
Outcome(j) == tried[CHOOSE i \in DOMAIN tried : tried[i].job = j].out

AbstractFate ==
  [j \in Jobs |-> IF j \in TriedJobs
                    THEN IF Outcome(j) = "ok" THEN "published" ELSE "failed"
                  ELSE IF j \in Range(sent) THEN "queued"
                  ELSE IF told[j] = "false" THEN "refused" ELSE "new"]

AbstractPhase == IF closed THEN "sealed" ELSE IF started THEN "open" ELSE "new"

Abstract == INSTANCE BestEffortQueue WITH
  fate <- AbstractFate, phase <- AbstractPhase,
  MinBacklog <- BufferSize, MaxBacklog <- BufferSize + Cardinality(Workers)

\* Every behaviour of the publisher is one of the best-effort queue.
ImplementsBestEffortQueue == Abstract!Spec
===============================================================================
