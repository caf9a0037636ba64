---------------------- MODULE AsyncPublisherOrderProofs ----------------------
(***************************************************************************)
(* Theorems about the order of the publisher's jobs, for any number of     *)
(* producers, drainers, workers and jobs and any buffer size: the counters *)
(* agree with the answers, the pool reorders by less than its size, and    *)
(* the publisher implements BestEffortQueue.                               *)
(***************************************************************************)
EXTENDS AsyncPublisherProofs

\* The steps of Enqueue at which the job's answer is still open.
Undecided == {"gate", "rlock", "check", "send"}
Offering(p) == ppc[p] \in Undecided
Holding(w) == wpc[w] = "publish"

\* The positions of sent that have left the channel.
Received == 1 .. (Len(sent) - Len(queue))

\* A job is offered by one producer at a time, and sent at most once.
OfferInv ==
  /\ \A p \in Producers : Offering(p) => told[pjob[p]] = "pending"
  /\ \A p, q \in Producers : Offering(p) /\ Offering(q) /\ pjob[p] = pjob[q] => p = q
  /\ \A i \in DOMAIN sent : told[sent[i]] = "true"
  /\ \A i, k \in DOMAIN sent : sent[i] = sent[k] => i = k

\* The buffer is what was sent last.
QueueInv ==
  /\ Len(queue) <= Len(sent)
  /\ \A k \in 1 .. Len(queue) : queue[k] = sent[(Len(sent) - Len(queue)) + k]

\* A job that has left the channel has been tried, once, or is held by exactly
\* one worker; and no other job is.
HeldInv ==
  /\ \A k \in Received : sent[k] \in TriedJobs \/ \E w \in Workers : Holding(w) /\ wjob[w] = sent[k]
  /\ \A j \in TriedJobs : \E k \in Received : sent[k] = j
  /\ \A w \in Workers : Holding(w) => wjob[w] \notin TriedJobs /\ \E k \in Received : sent[k] = wjob[w]
  /\ \A v, w \in Workers : Holding(v) /\ Holding(w) /\ wjob[v] = wjob[w] => v = w
  /\ \A i, k \in DOMAIN tried : tried[i].job = tried[k].job => i = k

\* Nothing happens to a job, and no worker is born, before Start.
StartInv ==
  /\ \A p \in Producers : ppc[p] \notin {"idle", "gate"} => started
  /\ \A w \in Workers : wpc[w] # "unborn" => started

OrderInv == OfferInv /\ QueueInv /\ HeldInv /\ StartInv
------------------------------------------------------------------------------
(* What the steps do to the histories.                                     *)

\* Positions of the sequences are numbers.
LEMMA Lengths ==
  ASSUME TypeOK
  PROVE  /\ Len(queue) \in Nat /\ Len(sent) \in Nat /\ Len(tried) \in Nat
         /\ DOMAIN queue = 1 .. Len(queue) /\ DOMAIN sent = 1 .. Len(sent)
         /\ DOMAIN tried = 1 .. Len(tried)
BY LenProperties DEF TypeOK

\* EnqueueSend adds one job at the end of the channel.
LEMMA SendGrows ==
  ASSUME TypeOK, NEW p \in Producers, EnqueueSend(p)
  PROVE  /\ Len(sent') = Len(sent) + 1 /\ Len(queue') = Len(queue) + 1
         /\ DOMAIN sent' = 1 .. (Len(sent) + 1)
         /\ sent'[Len(sent) + 1] = pjob[p] /\ queue'[Len(queue) + 1] = pjob[p]
         /\ \A i \in 1 .. Len(sent) : sent'[i] = sent[i]
         /\ \A i \in 1 .. Len(queue) : queue'[i] = queue[i]
         /\ Received' = Received
<1>1. pjob[p] \in Jobs /\ queue \in Seq(Jobs) /\ sent \in Seq(Jobs)
  BY DEF EnqueueSend, Step, TypeOK
<1>2. queue' = Append(queue, pjob[p]) /\ sent' = Append(sent, pjob[p])
  BY DEF EnqueueSend
<1>3. /\ Len(sent') = Len(sent) + 1 /\ Len(queue') = Len(queue) + 1
      /\ DOMAIN sent' = 1 .. (Len(sent) + 1)
      /\ sent'[Len(sent) + 1] = pjob[p] /\ queue'[Len(queue) + 1] = pjob[p]
      /\ \A i \in 1 .. Len(sent) : sent'[i] = sent[i]
      /\ \A i \in 1 .. Len(queue) : queue'[i] = queue[i]
  BY <1>1, <1>2, AppendProperties
<1>4. Len(sent') - Len(queue') = Len(sent) - Len(queue)
  BY <1>3, Lengths
<1> QED  BY <1>3, <1>4 DEF Received

\* WorkerRecv takes the oldest job out of the channel.
LEMMA RecvShrinks ==
  ASSUME TypeOK, QueueInv, NEW w \in Workers, WorkerRecv(w)
  PROVE  LET n == Len(sent) - Len(queue) IN
         /\ n \in Nat /\ n + 1 <= Len(sent) /\ n + 1 \in Received'
         /\ Len(queue') = Len(queue) - 1
         /\ \A i \in 1 .. Len(queue') : queue'[i] = queue[i + 1]
         /\ wjob' = [wjob EXCEPT ![w] = sent[n + 1]]
         /\ Received = 1 .. n /\ Received' = 1 .. (n + 1)
<1>1. queue \in Seq(Jobs) /\ queue # <<>> /\ queue' = Tail(queue) /\ sent' = sent
      /\ wjob' = [wjob EXCEPT ![w] = Head(queue)]
  BY DEF WorkerRecv, TypeOK, prod
<1>2. /\ Len(queue) \in Nat /\ Len(queue) > 0
      /\ Head(queue) = queue[1] /\ Len(queue') = Len(queue) - 1
      /\ \A i \in 1 .. Len(queue') : queue'[i] = queue[i + 1]
  BY <1>1, HeadTailProperties, EmptySeq, LenProperties
<1>3. Len(sent) \in Nat /\ Len(queue) <= Len(sent)
  BY Lengths DEF QueueInv
<1>4. queue[1] = sent[(Len(sent) - Len(queue)) + 1]
  BY <1>2 DEF QueueInv
<1>5. Received' = 1 .. (Len(sent) - (Len(queue) - 1))
  BY <1>1, <1>2 DEF Received
<1>6. /\ Len(sent) - (Len(queue) - 1) = (Len(sent) - Len(queue)) + 1
      /\ Len(sent) - Len(queue) \in Nat /\ (Len(sent) - Len(queue)) + 1 <= Len(sent)
  BY <1>2, <1>3
<1>7. Received' = 1 .. ((Len(sent) - Len(queue)) + 1)
  BY <1>5, <1>6
<1>8. (Len(sent) - Len(queue)) + 1 \in Received'
  BY <1>6, <1>7
<1>9. wjob' = [wjob EXCEPT ![w] = sent[(Len(sent) - Len(queue)) + 1]]
  BY <1>1, <1>2, <1>4
<1> QED  BY <1>2, <1>6, <1>7, <1>8, <1>9 DEF Received

\* WorkerPublish appends the held job to those tried.
LEMMA TriedGrows ==
  ASSUME TypeOK, NEW w \in Workers, NEW o \in Outcomes, WorkerPublish(w, o)
  PROVE  /\ TriedJobs' = TriedJobs \cup {wjob[w]}
         /\ DOMAIN tried' = 1 .. (Len(tried) + 1)
         /\ tried'[Len(tried) + 1] = [job |-> wjob[w], out |-> o]
         /\ \A i \in 1 .. Len(tried) : tried'[i] = tried[i]
<1>1. wjob[w] \in Jobs /\ tried \in Seq([job : Jobs, out : Outcomes])
      /\ tried' = Append(tried, [job |-> wjob[w], out |-> o])
  BY DEF WorkerPublish, TypeOK
<1>2. [job |-> wjob[w], out |-> o] \in [job : Jobs, out : Outcomes]
  BY <1>1
<1>3. /\ DOMAIN tried' = 1 .. (Len(tried) + 1)
      /\ tried'[Len(tried) + 1] = [job |-> wjob[w], out |-> o]
      /\ \A i \in 1 .. Len(tried) : tried'[i] = tried[i]
  BY <1>1, <1>2, AppendProperties, LenProperties
<1>4. Len(tried) \in Nat /\ DOMAIN tried = 1 .. Len(tried)
  BY Lengths
<1>5. TriedJobs' = TriedJobs \cup {wjob[w]}
  BY <1>3, <1>4 DEF TriedJobs
<1> QED  BY <1>3, <1>5
------------------------------------------------------------------------------
(* The inductive invariant.                                                *)

\* A step that leaves the channel, the histories and the workers alone keeps
\* what is said of them.
LEMMA TransitFrame ==
  ASSUME QueueInv, HeldInv, UNCHANGED <<queue, sent, tried, wpc, wjob>>
  PROVE  QueueInv' /\ HeldInv'
<1>1. UNCHANGED <<Received, TriedJobs>>
  BY DEF Received, TriedJobs
<1>2. QueueInv'
  BY DEF QueueInv
<1>3. HeldInv'
  BY <1>1 DEF HeldInv, Holding
<1> QED  BY <1>2, <1>3

\* A new job is offered.
LEMMA CallStep ==
  ASSUME TypeOK, OrderInv, NEW p \in Producers, NEW j \in Jobs, CallEnqueue(p, j)
  PROVE  OrderInv'
<1>1. /\ ppc \in [Producers -> {"idle", "gate", "rlock", "check", "send", "count", "runlock"}]
      /\ pjob \in [Producers -> Jobs \cup {NoJob}]
      /\ told \in [Jobs -> {"nothing", "pending", "true", "false"}]
      /\ sent \in Seq(Jobs) /\ \A q \in Producers : ppc[q] # "idle" => pjob[q] \in Jobs
  BY DEF TypeOK
<1>2. /\ told[j] = "nothing" /\ ppc[p] = "idle" /\ ppc' = [ppc EXCEPT ![p] = "gate"]
      /\ pjob' = [pjob EXCEPT ![p] = j] /\ told' = [told EXCEPT ![j] = "pending"]
      /\ UNCHANGED <<started, queue, sent, tried, wpc, wjob>>
  BY DEF CallEnqueue, Step, work
<1>3. OfferInv'
  <2>1. \A q \in Producers \ {p} : Offering(q)' => Offering(q) /\ pjob'[q] = pjob[q] /\ pjob[q] # j
    BY <1>1, <1>2 DEF OrderInv, OfferInv, Offering, Undecided
  <2>2. pjob'[p] = j /\ told'[j] = "pending"
    BY <1>1, <1>2
  <2>3. \A q \in Producers : Offering(q)' => told'[pjob'[q]] = "pending"
    BY <1>1, <1>2, <2>1, <2>2 DEF OrderInv, OfferInv
  <2>4. \A q, r \in Producers : Offering(q)' /\ Offering(r)' /\ pjob'[q] = pjob'[r] => q = r
    BY <2>1, <2>2 DEF OrderInv, OfferInv
  <2>5. \A i \in DOMAIN sent : sent[i] \in Jobs /\ told[sent[i]] = "true"
    BY <1>1 DEF OrderInv, OfferInv
  <2>6. \A i \in DOMAIN sent' : told'[sent'[i]] = "true"
    BY <1>1, <1>2, <2>5
  <2> QED  BY <1>2, <2>3, <2>4, <2>6 DEF OrderInv, OfferInv
<1>4. StartInv'
  BY <1>1, <1>2 DEF OrderInv, StartInv
<1> QED  BY <1>2, <1>3, <1>4, TransitFrame DEF OrderInv

\* A job is refused: before Start, after Drain, or by a full channel.
LEMMA RefuseStep ==
  ASSUME TypeOK, OrderInv, NEW p \in Producers,
         EnqueueBeforeStart(p) \/ EnqueueClosed(p) \/ EnqueueFull(p)
  PROVE  OrderInv'
<1>1. /\ ppc \in [Producers -> {"idle", "gate", "rlock", "check", "send", "count", "runlock"}]
      /\ told \in [Jobs -> {"nothing", "pending", "true", "false"}]
      /\ sent \in Seq(Jobs) /\ \A q \in Producers : ppc[q] # "idle" => pjob[q] \in Jobs
  BY DEF TypeOK
<1>2. /\ Offering(p) /\ ppc[p] # "idle"
      /\ \/ ppc' = [ppc EXCEPT ![p] = "idle"]
         \/ ppc' = [ppc EXCEPT ![p] = "runlock"] /\ ppc[p] # "gate"
      /\ told' = [told EXCEPT ![pjob[p]] = "false"]
      /\ UNCHANGED <<started, queue, sent, tried, wpc, wjob, pjob>>
  BY DEF EnqueueBeforeStart, EnqueueClosed, EnqueueFull, Step, Offering, Undecided, work
<1>3. OfferInv'
  <2>1. \A q \in Producers : Offering(q)' => Offering(q) /\ q # p
    BY <1>1, <1>2 DEF Offering, Undecided
  <2>2. \A q \in Producers : Offering(q)' => pjob[q] \in Jobs /\ pjob[q] # pjob[p]
    BY <1>1, <1>2, <2>1 DEF OrderInv, OfferInv, Offering, Undecided
  <2>3. \A q \in Producers : Offering(q)' => told'[pjob'[q]] = "pending"
    BY <1>1, <1>2, <2>1, <2>2 DEF OrderInv, OfferInv
  <2>4. \A q, r \in Producers : Offering(q)' /\ Offering(r)' /\ pjob'[q] = pjob'[r] => q = r
    BY <1>2, <2>1 DEF OrderInv, OfferInv
  <2>5. told[pjob[p]] = "pending" /\ \A i \in DOMAIN sent : sent[i] \in Jobs /\ told[sent[i]] = "true"
    BY <1>1, <1>2 DEF OrderInv, OfferInv
  <2>6. \A i \in DOMAIN sent' : told'[sent'[i]] = "true"
    BY <1>1, <1>2, <2>5
  <2> QED  BY <1>2, <2>3, <2>4, <2>6 DEF OrderInv, OfferInv
<1>4. StartInv'
  BY <1>1, <1>2 DEF OrderInv, StartInv
<1> QED  BY <1>2, <1>3, <1>4, TransitFrame DEF OrderInv

\* A producer moves on without settling its job's answer or after it is settled.
LEMMA PassStep ==
  ASSUME TypeOK, OrderInv, NEW p \in Producers,
         EnqueueGate(p) \/ EnqueueRLock(p) \/ EnqueueOpen(p) \/ EnqueueCount(p) \/ EnqueueRUnlock(p)
  PROVE  OrderInv'
<1>1. ppc \in [Producers -> {"idle", "gate", "rlock", "check", "send", "count", "runlock"}]
  BY DEF TypeOK
<1>2. UNCHANGED <<started, queue, sent, tried, wpc, wjob, pjob, told>>
  BY DEF EnqueueGate, EnqueueRLock, EnqueueOpen, EnqueueCount, EnqueueRUnlock, work
<1>3. \A q \in Producers : Offering(q)' => Offering(q)
  BY <1>1 DEF EnqueueGate, EnqueueRLock, EnqueueOpen, EnqueueCount, EnqueueRUnlock, Step,
              Offering, Undecided
<1>4. OfferInv'
  BY <1>2, <1>3 DEF OrderInv, OfferInv
<1>5. StartInv'
  BY <1>1, <1>2 DEF OrderInv, StartInv, EnqueueGate, EnqueueRLock, EnqueueOpen, EnqueueCount,
                    EnqueueRUnlock, Step
<1> QED  BY <1>2, <1>4, <1>5, TransitFrame DEF OrderInv

\* The job enters the channel.
LEMMA SendStep ==
  ASSUME TypeOK, OrderInv, NEW p \in Producers, EnqueueSend(p)
  PROVE  OrderInv'
<1>0. /\ Len(queue) \in Nat /\ Len(sent) \in Nat /\ DOMAIN sent = 1 .. Len(sent)
      /\ Len(sent') = Len(sent) + 1 /\ Len(queue') = Len(queue) + 1
      /\ DOMAIN sent' = 1 .. (Len(sent) + 1)
      /\ sent'[Len(sent) + 1] = pjob[p] /\ queue'[Len(queue) + 1] = pjob[p]
      /\ \A i \in 1 .. Len(sent) : sent'[i] = sent[i]
      /\ \A i \in 1 .. Len(queue) : queue'[i] = queue[i]
      /\ Received' = Received
  BY SendGrows, Lengths
<1>1. /\ ppc \in [Producers -> {"idle", "gate", "rlock", "check", "send", "count", "runlock"}]
      /\ told \in [Jobs -> {"nothing", "pending", "true", "false"}]
      /\ sent \in Seq(Jobs) /\ \A q \in Producers : ppc[q] # "idle" => pjob[q] \in Jobs
  BY DEF TypeOK
<1>2. /\ Offering(p) /\ ppc[p] = "send" /\ ppc' = [ppc EXCEPT ![p] = "count"]
      /\ told' = [told EXCEPT ![pjob[p]] = "true"]
      /\ UNCHANGED <<started, tried, wpc, wjob, pjob>>
  BY DEF EnqueueSend, Step, Offering, Undecided, work
<1>3. told[pjob[p]] = "pending" /\ pjob[p] \in Jobs
  BY <1>1, <1>2 DEF OrderInv, OfferInv
<1>4. \A i \in 1 .. Len(sent) : sent[i] \in Jobs /\ told[sent[i]] = "true" /\ sent[i] # pjob[p]
  BY <1>1, <1>3, <1>0 DEF OrderInv, OfferInv
<1>5. OfferInv'
  <2>1. \A q \in Producers : Offering(q)' => Offering(q) /\ q # p
    BY <1>1, <1>2 DEF Offering, Undecided
  <2>2. \A q \in Producers : Offering(q)' => pjob[q] \in Jobs /\ pjob[q] # pjob[p]
    BY <1>1, <1>2, <2>1 DEF OrderInv, OfferInv, Offering, Undecided
  <2>3. \A q \in Producers : Offering(q)' => told'[pjob'[q]] = "pending"
    BY <1>1, <1>2, <2>1, <2>2 DEF OrderInv, OfferInv
  <2>4. \A q, r \in Producers : Offering(q)' /\ Offering(r)' /\ pjob'[q] = pjob'[r] => q = r
    BY <1>2, <2>1 DEF OrderInv, OfferInv
  <2>5. \A i \in DOMAIN sent' : told'[sent'[i]] = "true"
    BY <1>1, <1>2, <1>3, <1>4, <1>0
  <2>6. \A i, k \in 1 .. Len(sent) : sent[i] = sent[k] => i = k
    BY <1>0 DEF OrderInv, OfferInv
  <2>7. \A i \in DOMAIN sent' : i \in 1 .. Len(sent) \/ i = Len(sent) + 1
    BY <1>0
  <2>8. ASSUME NEW i \in DOMAIN sent', NEW k \in DOMAIN sent', sent'[i] = sent'[k]  PROVE i = k
    <3>1. CASE i \in 1 .. Len(sent) /\ k \in 1 .. Len(sent)
      BY <1>0, <2>6, <2>8, <3>1
    <3>2. CASE i = Len(sent) + 1 \/ k = Len(sent) + 1
      BY <1>0, <1>4, <2>7, <2>8, <3>2
    <3> QED  BY <2>7, <3>1, <3>2
  <2> QED  BY <2>3, <2>4, <2>5, <2>8 DEF OfferInv
<1>6. QueueInv'
  <2>1. /\ Len(queue) <= Len(sent)
        /\ \A k \in 1 .. Len(queue) : queue[k] = sent[(Len(sent) - Len(queue)) + k]
    BY DEF OrderInv, QueueInv
  <2>2. Len(queue') <= Len(sent') /\ Len(sent') - Len(queue') = Len(sent) - Len(queue)
    BY <2>1, <1>0
  <2>3. ASSUME NEW k \in 1 .. Len(queue')
        PROVE  queue'[k] = sent'[(Len(sent) - Len(queue)) + k]
    <3>1. CASE k \in 1 .. Len(queue)
      <4>1. (Len(sent) - Len(queue)) + k \in 1 .. Len(sent)
        BY <3>1, <2>1, <1>0
      <4> QED  BY <3>1, <4>1, <2>1, <1>0
    <3>2. CASE k = Len(queue) + 1
      <4>1. (Len(sent) - Len(queue)) + k = Len(sent) + 1
        BY <3>2, <1>0
      <4> QED  BY <3>2, <4>1, <1>0
    <3> QED  BY <3>1, <3>2, <1>0
  <2> QED  BY <2>2, <2>3 DEF QueueInv
<1>7. HeldInv'
  <2>1. UNCHANGED <<TriedJobs, Received>>
    BY <1>2, <1>0 DEF TriedJobs
  <2>2. \A k \in Received : sent'[k] = sent[k]
    BY <1>0 DEF Received
  <2> QED  BY <1>2, <2>1, <2>2 DEF OrderInv, HeldInv, Holding
<1>8. StartInv'
  BY <1>1, <1>2 DEF OrderInv, StartInv
<1> QED  BY <1>5, <1>6, <1>7, <1>8 DEF OrderInv

\* A worker takes the oldest job.
LEMMA RecvStep ==
  ASSUME TypeOK, OrderInv, NEW w \in Workers, WorkerRecv(w)
  PROVE  OrderInv'
<1> DEFINE n == Len(sent) - Len(queue)
<1>1. /\ wpc \in [Workers -> {"unborn", "range", "publish", "exited"}]
      /\ wjob \in [Workers -> Jobs \cup {NoJob}]
  BY DEF TypeOK
<1>2. /\ wpc[w] = "range" /\ wpc' = [wpc EXCEPT ![w] = "publish"]
      /\ UNCHANGED <<started, sent, tried, ppc, pjob, told>>
  BY DEF WorkerRecv, prod
<1>3. /\ n \in Nat /\ n + 1 <= Len(sent) /\ n + 1 \in Received'
      /\ Len(queue') = Len(queue) - 1
      /\ \A i \in 1 .. Len(queue') : queue'[i] = queue[i + 1]
      /\ wjob' = [wjob EXCEPT ![w] = sent[n + 1]]
      /\ Received = 1 .. n /\ Received' = 1 .. (n + 1)
  BY RecvShrinks DEF OrderInv
<1>4. Len(sent) \in Nat /\ Len(queue) \in Nat /\ DOMAIN sent = 1 .. Len(sent)
  BY Lengths
<1>5. OfferInv'
  BY <1>2 DEF OrderInv, OfferInv, Offering
<1>6. QueueInv'
  <2>1. \A k \in 1 .. Len(queue) : queue[k] = sent[(Len(sent) - Len(queue)) + k]
    BY DEF OrderInv, QueueInv
  <2>2. ASSUME NEW k \in 1 .. Len(queue')
        PROVE  queue'[k] = sent[(Len(sent) - Len(queue')) + k]
    <3>1. k + 1 \in 1 .. Len(queue) /\ queue'[k] = queue[k + 1]
      BY <1>3, <1>4
    <3>2. (Len(sent) - Len(queue)) + (k + 1) = (Len(sent) - Len(queue')) + k
      BY <1>3, <1>4
    <3> QED  BY <3>1, <3>2, <2>1
  <2>3. Len(queue') <= Len(sent)
    BY <1>3, <1>4
  <2> QED  BY <1>2, <2>2, <2>3 DEF QueueInv
<1>7. HeldInv'
  <2> HIDE DEF n
  <2>1. Received' = Received \cup {n + 1} /\ n + 1 \notin Received /\ n + 1 \in DOMAIN sent
        /\ \A k \in Received : k \in DOMAIN sent
    BY <1>3, <1>4
  <2>2. \A k \in Received : sent[k] # sent[n + 1]
    BY <2>1 DEF OrderInv, OfferInv
  <2>3. sent[n + 1] \notin TriedJobs
    BY <2>2 DEF OrderInv, HeldInv
  <2>4. /\ Holding(w)' /\ wjob'[w] = sent[n + 1] /\ ~Holding(w)
        /\ \A v \in Workers \ {w} : (Holding(v)' <=> Holding(v)) /\ wjob'[v] = wjob[v]
    BY <1>1, <1>2, <1>3 DEF Holding
  <2>5. \A v \in Workers : Holding(v) => wjob[v] # sent[n + 1]
    BY <2>2 DEF OrderInv, HeldInv
  <2>6. UNCHANGED TriedJobs
    BY <1>2 DEF TriedJobs
  <2>7. \A k \in Received' :
           sent[k] \in TriedJobs \/ \E v \in Workers : Holding(v)' /\ wjob'[v] = sent[k]
    <3>1. \A k \in Received :
             sent[k] \in TriedJobs \/ \E v \in Workers : Holding(v) /\ wjob[v] = sent[k]
      BY DEF OrderInv, HeldInv
    <3>2. \A v \in Workers : Holding(v) => Holding(v)' /\ wjob'[v] = wjob[v]
      BY <2>4
    <3>3. \A k \in Received :
             sent[k] \in TriedJobs \/ \E v \in Workers : Holding(v)' /\ wjob'[v] = sent[k]
      BY <3>1, <3>2
    <3> QED  BY <2>1, <2>4, <3>3
  <2>8. \A v \in Workers : Holding(v)' =>
           wjob'[v] \notin TriedJobs /\ \E k \in Received' : sent[k] = wjob'[v]
    BY <2>1, <2>3, <2>4 DEF OrderInv, HeldInv
  <2>9. \A u, v \in Workers : Holding(u)' /\ Holding(v)' /\ wjob'[u] = wjob'[v] => u = v
    BY <2>4, <2>5 DEF OrderInv, HeldInv
  <2>10. \A j \in TriedJobs : \E k \in Received' : sent[k] = j
    BY <2>1 DEF OrderInv, HeldInv
  <2> QED  BY <1>2, <2>6, <2>7, <2>8, <2>9, <2>10 DEF OrderInv, HeldInv
<1>8. StartInv'
  BY <1>1, <1>2 DEF OrderInv, StartInv
<1> QED  BY <1>5, <1>6, <1>7, <1>8 DEF OrderInv

\* A worker's call into NATS ends.
LEMMA PublishStep ==
  ASSUME TypeOK, OrderInv, NEW w \in Workers, NEW o \in Outcomes, WorkerPublish(w, o)
  PROVE  OrderInv'
<1>1. /\ wpc \in [Workers -> {"unborn", "range", "publish", "exited"}]
      /\ wjob \in [Workers -> Jobs \cup {NoJob}]
  BY DEF TypeOK
<1>2. /\ wpc[w] = "publish" /\ wpc' = [wpc EXCEPT ![w] = "range"]
      /\ wjob' = [wjob EXCEPT ![w] = NoJob]
      /\ UNCHANGED <<started, queue, sent, ppc, pjob, told>>
  BY DEF WorkerPublish, prod
<1>3. OfferInv' /\ QueueInv'
  BY <1>2 DEF OrderInv, OfferInv, Offering, QueueInv
<1>4. HeldInv'
  <2>1. UNCHANGED Received
    BY <1>2 DEF Received
  <2>2. /\ Holding(w) /\ ~Holding(w)'
        /\ \A v \in Workers \ {w} : (Holding(v)' <=> Holding(v)) /\ wjob'[v] = wjob[v]
    BY <1>1, <1>2 DEF Holding
  <2>3. /\ TriedJobs' = TriedJobs \cup {wjob[w]}
        /\ DOMAIN tried' = 1 .. (Len(tried) + 1)
        /\ tried'[Len(tried) + 1] = [job |-> wjob[w], out |-> o]
        /\ \A i \in 1 .. Len(tried) : tried'[i] = tried[i]
    BY TriedGrows
  <2>0. Len(tried) \in Nat /\ DOMAIN tried = 1 .. Len(tried)
    BY Lengths
  <2>a. \A k \in Received : sent[k] \in TriedJobs \/ \E v \in Workers : Holding(v) /\ wjob[v] = sent[k]
    BY DEF OrderInv, HeldInv
  <2>b. \A v \in Workers : Holding(v) => wjob[v] \notin TriedJobs /\ \E k \in Received : sent[k] = wjob[v]
    BY DEF OrderInv, HeldInv
  <2>4. \A v \in Workers : Holding(v)' => v # w /\ wjob'[v] # wjob[w]
    BY <2>2 DEF OrderInv, HeldInv
  <2>5. \A k \in Received' :
           sent'[k] \in TriedJobs' \/ \E v \in Workers : Holding(v)' /\ wjob'[v] = sent'[k]
    BY <1>2, <2>1, <2>2, <2>3, <2>a
  <2>6. \A v \in Workers : Holding(v)' =>
           wjob'[v] \notin TriedJobs' /\ \E k \in Received' : sent'[k] = wjob'[v]
    BY <1>2, <2>1, <2>2, <2>3, <2>4, <2>b
  <2>7. \A u, v \in Workers : Holding(u)' /\ Holding(v)' /\ wjob'[u] = wjob'[v] => u = v
    BY <2>2 DEF OrderInv, HeldInv
  <2>8. \A j \in TriedJobs' : \E k \in Received' : sent'[k] = j
    <3>1. \A j \in TriedJobs : \E k \in Received : sent[k] = j
      BY DEF OrderInv, HeldInv
    <3>2. \E k \in Received : sent[k] = wjob[w]
      BY <2>2, <2>b
    <3> QED  BY <3>1, <3>2, <1>2, <2>1, <2>3
  <2>9. \A i \in DOMAIN tried' : i \in DOMAIN tried \/ i = Len(tried) + 1
    BY <2>0, <2>3
  <2>10. /\ \A i \in DOMAIN tried : tried'[i] = tried[i]
         /\ tried'[Len(tried) + 1].job = wjob[w]
    BY <2>0, <2>3
  <2>11. \A i \in DOMAIN tried : tried[i].job # wjob[w]
    BY <2>2 DEF OrderInv, HeldInv, TriedJobs
  <2>12. ASSUME NEW i \in DOMAIN tried', NEW k \in DOMAIN tried', tried'[i].job = tried'[k].job
         PROVE  i = k
    <3>1. CASE i \in DOMAIN tried /\ k \in DOMAIN tried
      BY <2>10, <2>12, <3>1 DEF OrderInv, HeldInv
    <3>2. CASE i = Len(tried) + 1 \/ k = Len(tried) + 1
      BY <2>9, <2>10, <2>11, <2>12, <3>2
    <3> QED  BY <2>9, <3>1, <3>2
  <2> QED  BY <2>5, <2>6, <2>7, <2>8, <2>12 DEF HeldInv
<1>5. StartInv'
  BY <1>1, <1>2 DEF OrderInv, StartInv
<1> QED  BY <1>3, <1>4, <1>5 DEF OrderInv

\* Start, and a worker's birth and exit, move no job.
LEMMA PoolStep ==
  ASSUME TypeOK, OrderInv, StartCAS \/ \E w \in Workers : Spawn(w) \/ WorkerExit(w)
  PROVE  OrderInv'
<1>1. wpc \in [Workers -> {"unborn", "range", "publish", "exited"}]
  BY DEF TypeOK
<1>2. UNCHANGED <<queue, sent, tried, wjob, ppc, pjob, told>>
  BY DEF StartCAS, Spawn, WorkerExit, prod, work
<1>3. \A v \in Workers : Holding(v)' <=> Holding(v)
  BY <1>1 DEF StartCAS, Spawn, WorkerExit, Holding, work
<1>4. UNCHANGED <<Received, TriedJobs>>
  BY <1>2 DEF Received, TriedJobs
<1>5. OfferInv' /\ QueueInv'
  BY <1>2 DEF OrderInv, OfferInv, Offering, QueueInv
<1>6. HeldInv'
  BY <1>2, <1>3, <1>4 DEF OrderInv, HeldInv
<1>7. StartInv'
  BY <1>1, <1>2 DEF OrderInv, StartInv, StartCAS, Spawn, WorkerExit, work
<1> QED  BY <1>5, <1>6, <1>7 DEF OrderInv

\* A step that changes none of the variables OrderInv reads.
LEMMA OrderFrame ==
  ASSUME OrderInv, UNCHANGED <<started, queue, sent, tried, wpc, wjob, ppc, pjob, told>>
  PROVE  OrderInv'
<1>1. OfferInv' /\ StartInv'
  BY DEF OrderInv, OfferInv, Offering, StartInv
<1> QED  BY <1>1, TransitFrame DEF OrderInv

\* Who holds which job, and in which order they were sent, in every state.
THEOREM OrderInvariant == Spec => []OrderInv
<1>1. Init => OrderInv
  <2> SUFFICES ASSUME Init  PROVE OrderInv
    OBVIOUS
  <2>1. sent = <<>> /\ queue = <<>> /\ tried = <<>>
    BY DEF Init
  <2>2. Received = {} /\ TriedJobs = {} /\ DOMAIN sent = {} /\ DOMAIN tried = {}
        /\ Len(queue) = 0 /\ Len(sent) = 0
    BY <2>1 DEF Received, TriedJobs
  <2>3. OfferInv /\ HeldInv /\ StartInv
    BY <2>2 DEF Init, OfferInv, HeldInv, StartInv, Offering, Undecided, Holding
  <2> QED  BY <2>2, <2>3 DEF OrderInv, QueueInv
<1>2. TypeOK /\ OrderInv /\ [Next]_vars => OrderInv'
  <2> SUFFICES ASSUME TypeOK, OrderInv, [Next]_vars  PROVE OrderInv'
    OBVIOUS
  <2>1. ASSUME NEW w \in Workers, Spawn(w) \/ WorkerStep(w)  PROVE OrderInv'
    BY <2>1, PoolStep, RecvStep, PublishStep DEF WorkerStep
  <2>2. ASSUME NEW p \in Producers, EnqueueStep(p)  PROVE OrderInv'
    BY <2>2, RefuseStep, PassStep, SendStep DEF EnqueueStep
  <2>3. ASSUME NEW p \in Producers, NEW j \in Jobs, CallEnqueue(p, j)  PROVE OrderInv'
    BY <2>3, CallStep
  <2>4. ASSUME NEW d \in Drainers, CallDrain(d) \/ DrainStep(d)
        PROVE  UNCHANGED <<started, queue, sent, tried, wpc, wjob, ppc, pjob, told>>
    BY <2>4 DEF CallDrain, DrainStep, DrainLock, DrainClose, DrainAgain, DrainDone,
                DrainTimeout, prod, work
  <2>5. CASE Discard \/ UNCHANGED vars
    BY <2>5, OrderFrame DEF Discard, vars, prod, work
  <2> QED  BY <2>1, <2>2, <2>3, <2>4, <2>5, PoolStep, OrderFrame DEF Next
<1> QED  BY <1>1, <1>2, TypeCorrect, PTL DEF Spec

------------------------------------------------------------------------------
(* The counters and the answers.                                           *)

\* AnswersAreCounted, and that there is a number of answers to compare with.
CountInv == /\ IsFiniteSet(Answered("true")) /\ IsFiniteSet(Answered("false"))
            /\ AnswersAreCounted

\* An answer given to a job that had none is one answer more, of that kind.
LEMMA AnswerGrows ==
  ASSUME TypeOK, CountInv, NEW j \in Jobs, told[j] = "pending",
         NEW a \in {"true", "false"}, told' = [told EXCEPT ![j] = a]
  PROVE  /\ IsFiniteSet(Answered(a)') /\ Cardinality(Answered(a)') = Cardinality(Answered(a)) + 1
         /\ \A b \in {"true", "false"} : b # a => Answered(b)' = Answered(b)
<1>1. IsFiniteSet(Answered(a))
  BY DEF CountInv
<1>2. Answered(a)' = Answered(a) \cup {j} /\ j \notin Answered(a)
  BY DEF Answered, TypeOK
<1>3. \A b \in {"true", "false"} : b # a => Answered(b)' = Answered(b)
  BY DEF Answered, TypeOK
<1>. QED  BY <1>1, <1>2, <1>3, FS_AddElement

\* A step that gives no answer and counts nothing.
LEMMA CountFrame ==
  ASSUME CountInv, Answered("true")' = Answered("true"), Answered("false")' = Answered("false"),
         Uncounted' = Uncounted, stat'["enqueued"] = stat["enqueued"],
         stat'["dropped"] = stat["dropped"], stat'["discarded"] = stat["discarded"],
         ~closed' => ~closed
  PROVE  CountInv'
BY DEF CountInv, AnswersAreCounted

\* Every step of Enqueue that answers counts, in this step or in the next one,
\* except the one that finds the channel closed.
LEMMA CountStep ==
  ASSUME TypeOK, OfferInv, CountInv, [Next]_vars
  PROVE  CountInv'
<1>0. /\ stat["enqueued"] \in Nat /\ stat["dropped"] \in Nat /\ stat["discarded"] \in Nat
      /\ Cardinality(Uncounted) \in Nat
      /\ Cardinality(Answered("true")) \in Nat /\ Cardinality(Answered("false")) \in Nat
  BY CountedSets, FS_CardinalityType DEF TypeOK, Counters, CountInv
<1>terms. PICK e \in Nat, u \in Nat, x \in Nat, z \in Nat, t \in Nat, f \in Nat :
            /\ e = stat["enqueued"] /\ u = Cardinality(Uncounted)
            /\ x = stat["dropped"] /\ z = stat["discarded"]
            /\ t = Cardinality(Answered("true")) /\ f = Cardinality(Answered("false"))
  BY <1>0, Zenon
<1>sum. e + u = t /\ x <= f + z /\ (~closed => x = f + z)
  BY <1>terms DEF CountInv, AnswersAreCounted
<1>fin. IsFiniteSet(Answered("true")) /\ IsFiniteSet(Answered("false"))
  BY DEF CountInv
<1>1. ASSUME NEW p \in Producers, EnqueueSend(p) PROVE CountInv'
  <2>1. pjob[p] \in Jobs /\ told[pjob[p]] = "pending" /\ told' = [told EXCEPT ![pjob[p]] = "true"]
    BY <1>1 DEF EnqueueSend, Step, TypeOK, OfferInv, Offering, Undecided
  <2>2. PICK j \in Jobs : j = pjob[p]
    BY <2>1
  <2>3. /\ IsFiniteSet(Answered("true")') /\ Cardinality(Answered("true")') = t + 1
        /\ Answered("false")' = Answered("false")
    BY <1>terms, <2>1, <2>2, AnswerGrows
  <2>4. Uncounted' = Uncounted \cup {p} /\ p \notin Uncounted
    BY <1>1 DEF EnqueueSend, Step, Uncounted, TypeOK
  <2>5. Cardinality(Uncounted') = u + 1
    BY <1>terms, <2>4, CountedSets, FS_AddElement
  <2>6. UNCHANGED <<stat, closed>>
    BY <1>1 DEF EnqueueSend
  <2>7. e + (u + 1) = t + 1
    BY <1>sum
  <2>. QED  BY <1>terms, <1>sum, <1>fin, <2>3, <2>5, <2>6, <2>7 DEF CountInv, AnswersAreCounted
<1>2. ASSUME NEW p \in Producers, EnqueueCount(p) PROVE CountInv'
  <2>1. Uncounted' = Uncounted \ {p} /\ p \in Uncounted
    BY <1>2 DEF EnqueueCount, Step, Uncounted, TypeOK
  <2>2. Cardinality(Uncounted') = u - 1
    BY <1>terms, <2>1, CountedSets, FS_RemoveElement
  <2>3. stat'["enqueued"] = e + 1 /\ stat'["dropped"] = x /\ stat'["discarded"] = z
    BY <1>2, <1>terms DEF EnqueueCount, Bump, Counters
  <2>4. UNCHANGED <<closed, Answered("true"), Answered("false")>>
    BY <1>2 DEF EnqueueCount, Answered
  <2>5. (e + 1) + (u - 1) = t
    BY <1>sum
  <2>. QED  BY <1>terms, <1>sum, <1>fin, <2>2, <2>3, <2>4, <2>5 DEF CountInv, AnswersAreCounted
<1>3. ASSUME NEW p \in Producers, EnqueueBeforeStart(p) \/ EnqueueFull(p) PROVE CountInv'
  <2>1. pjob[p] \in Jobs /\ told[pjob[p]] = "pending" /\ told' = [told EXCEPT ![pjob[p]] = "false"]
    BY <1>3 DEF EnqueueBeforeStart, EnqueueFull, Step, TypeOK, OfferInv, Offering, Undecided
  <2>2. PICK j \in Jobs : j = pjob[p]
    BY <2>1
  <2>3. /\ IsFiniteSet(Answered("false")') /\ Cardinality(Answered("false")') = f + 1
        /\ Answered("true")' = Answered("true")
    BY <1>terms, <2>1, <2>2, AnswerGrows
  <2>4. Uncounted' = Uncounted /\ closed' = closed
    BY <1>3 DEF EnqueueBeforeStart, EnqueueFull, Step, Uncounted, TypeOK
  <2>5. stat'["enqueued"] = e /\ stat'["dropped"] = x + 1 /\ stat'["discarded"] = z
    BY <1>3, <1>terms DEF EnqueueBeforeStart, EnqueueFull, Bump, Counters
  <2>6. x + 1 <= (f + 1) + z /\ (~closed => x + 1 = (f + 1) + z)
    BY <1>sum
  <2>. QED  BY <1>terms, <1>sum, <1>fin, <2>3, <2>4, <2>5, <2>6 DEF CountInv, AnswersAreCounted
<1>4. ASSUME NEW p \in Producers, EnqueueClosed(p) PROVE CountInv'
  <2>1. pjob[p] \in Jobs /\ told[pjob[p]] = "pending" /\ told' = [told EXCEPT ![pjob[p]] = "false"]
    BY <1>4 DEF EnqueueClosed, Step, TypeOK, OfferInv, Offering, Undecided
  <2>2. PICK j \in Jobs : j = pjob[p]
    BY <2>1
  <2>3. /\ IsFiniteSet(Answered("false")') /\ Cardinality(Answered("false")') = f + 1
        /\ Answered("true")' = Answered("true")
    BY <1>terms, <2>1, <2>2, AnswerGrows
  <2>4. Uncounted' = Uncounted /\ stat' = stat /\ closed'
    BY <1>4 DEF EnqueueClosed, Step, Uncounted, TypeOK
  <2>5. x <= (f + 1) + z
    BY <1>sum
  <2>. QED  BY <1>terms, <1>sum, <1>fin, <2>3, <2>4, <2>5 DEF CountInv, AnswersAreCounted
<1>5. ASSUME NEW p \in Producers, EnqueueGate(p) \/ EnqueueRLock(p) \/ EnqueueOpen(p) \/ EnqueueRUnlock(p)
      PROVE  CountInv'
  <2>1. Uncounted' = Uncounted
    BY <1>5 DEF EnqueueGate, EnqueueRLock, EnqueueOpen, EnqueueRUnlock, Step, Uncounted, TypeOK
  <2>2. UNCHANGED <<stat, closed, Answered("true"), Answered("false")>>
    BY <1>5 DEF EnqueueGate, EnqueueRLock, EnqueueOpen, EnqueueRUnlock, Answered
  <2>. QED  BY <2>1, <2>2, CountFrame
<1>6. ASSUME NEW p \in Producers, NEW j \in Jobs, CallEnqueue(p, j) PROVE CountInv'
  <2>1. Uncounted' = Uncounted /\ UNCHANGED <<stat, closed>>
    BY <1>6 DEF CallEnqueue, Step, Uncounted, TypeOK
  <2>2. UNCHANGED <<Answered("true"), Answered("false")>>
    BY <1>6 DEF CallEnqueue, Answered, TypeOK
  <2>. QED  BY <2>1, <2>2, CountFrame
<1>7. ASSUME NEW w \in Workers, NEW o \in Outcomes, WorkerPublish(w, o) PROVE CountInv'
  <2>1. UNCHANGED <<closed, Uncounted, Answered("true"), Answered("false")>>
    BY <1>7 DEF WorkerPublish, prod, Uncounted, Answered
  <2>2. /\ stat'["enqueued"] = stat["enqueued"] /\ stat'["dropped"] = stat["dropped"]
        /\ stat'["discarded"] = stat["discarded"]
    BY <1>7 DEF WorkerPublish, Bump, Charge, Counters
  <2>. QED  BY <2>1, <2>2, CountFrame
<1>8. ASSUME UNCHANGED <<stat, ppc, told>>, ~closed' => ~closed PROVE CountInv'
  BY <1>8, CountFrame DEF Uncounted, Answered
<1>9. ASSUME NEW w \in Workers, Spawn(w) \/ WorkerRecv(w) \/ WorkerExit(w)
      PROVE  UNCHANGED <<stat, ppc, told, closed>>
  BY <1>9 DEF Spawn, WorkerRecv, WorkerExit, prod
<1>10. ASSUME NEW d \in Drainers, CallDrain(d) \/ DrainStep(d)
       PROVE  UNCHANGED <<stat, ppc, told>> /\ (~closed' => ~closed)
  BY <1>10 DEF CallDrain, DrainStep, DrainLock, DrainClose, DrainAgain, DrainDone,
               DrainTimeout, prod
<1>11. ASSUME NEW p \in Producers, EnqueueStep(p) PROVE CountInv'
  BY <1>1, <1>2, <1>3, <1>4, <1>5, <1>11 DEF EnqueueStep
<1>12. ASSUME NEW w \in Workers, Spawn(w) \/ WorkerStep(w) PROVE CountInv'
  BY <1>7, <1>8, <1>9, <1>12 DEF WorkerStep
<1>13. ASSUME NEW d \in Drainers, CallDrain(d) \/ DrainStep(d) PROVE CountInv'
  BY <1>8, <1>10, <1>13
<1>14. ASSUME StartCAS \/ UNCHANGED vars PROVE CountInv'
  <2>1. UNCHANGED <<stat, ppc, told, closed>>
    BY <1>14 DEF StartCAS, vars, prod
  <2>. QED  BY <1>8, <2>1
<1>15. ASSUME Discard PROVE CountInv'
  <2>1. UNCHANGED <<closed, Uncounted, Answered("true"), Answered("false")>>
    BY <1>15 DEF Discard, prod, Uncounted, Answered
  <2>2. stat'["enqueued"] = e /\ stat'["dropped"] = x + 1 /\ stat'["discarded"] = z + 1
    BY <1>15, <1>terms DEF Discard, Bump, Counters
  <2>3. x + 1 <= f + (z + 1) /\ (~closed => x + 1 = f + (z + 1))
    BY <1>sum
  <2>. QED  BY <1>terms, <1>sum, <1>fin, <2>1, <2>2, <2>3 DEF CountInv, AnswersAreCounted
<1>. QED  BY <1>6, <1>11, <1>12, <1>13, <1>14, <1>15 DEF Next

\* What the operator reads in EnqueuedCount is what the broker thread was told;
\* DroppedCount adds what the runtime discarded itself, until Drain closes the
\* channel.
THEOREM AnswersCounted == Spec => []AnswersAreCounted
<1>1. Init => CountInv
  <2>. SUFFICES ASSUME Init PROVE CountInv
    OBVIOUS
  <2>1. Uncounted = {} /\ Answered("true") = {} /\ Answered("false") = {}
    BY DEF Init, Uncounted, Answered
  <2>2. stat = [c \in Counters |-> 0]
    BY DEF Init
  <2>. QED  BY <2>1, <2>2, FS_EmptySet DEF CountInv, AnswersAreCounted, Counters
<1>2. CountInv => AnswersAreCounted
  BY DEF CountInv
<1>3. TypeOK /\ OrderInv /\ CountInv /\ [Next]_vars => CountInv'
  BY CountStep DEF OrderInv
<1>. QED  BY <1>1, <1>2, <1>3, TypeCorrect, OrderInvariant, PTL DEF Spec

------------------------------------------------------------------------------
(* Overtaking.                                                             *)

\* When a worker's call ends, every job sent before its own that is still on its
\* way is in the hands of another worker.
LEMMA OthersHold ==
  ASSUME TypeOK, OrderInv, NEW w \in Workers, NEW o \in Outcomes, WorkerPublish(w, o),
         NEW i \in DOMAIN sent, sent[i] = wjob[w]
  PROVE  Cardinality({k \in 1 .. i : sent[k] \notin TriedJobs'}) < Cardinality(Workers)
<1> DEFINE U == {k \in 1 .. i : sent[k] \notin TriedJobs'}
           Holds(v, k) == Holding(v) /\ wjob[v] = sent[k]
           f == [k \in U |-> CHOOSE v \in Workers \ {w} : Holds(v, k)]
<1>1. Holding(w) /\ TriedJobs' = TriedJobs \cup {wjob[w]}
  BY TriedGrows DEF WorkerPublish, Holding
<1>2. Len(sent) \in Nat /\ Len(queue) \in Nat /\ Len(queue) <= Len(sent) /\ DOMAIN sent = 1 .. Len(sent)
  BY Lengths DEF OrderInv, QueueInv
<1>3. i \in Received
  <2>1. PICK k \in Received : sent[k] = wjob[w]
    BY <1>1 DEF OrderInv, HeldInv
  <2>2. k \in DOMAIN sent
    BY <1>2 DEF Received
  <2> QED  BY <2>1, <2>2 DEF OrderInv, OfferInv
<1>4. \A k \in U : k \in Received /\ k \in DOMAIN sent
  BY <1>2, <1>3 DEF Received
<1>5. \A k \in U : \E v \in Workers \ {w} : Holds(v, k)
  BY <1>1, <1>4 DEF OrderInv, HeldInv
<1>6. \A k \in U : f[k] \in Workers \ {w} /\ Holds(f[k], k)
  BY <1>5
<1> HIDE DEF f
<1>7. f \in [U -> Workers \ {w}]
  BY <1>6 DEF f
<1>8. \A k, l \in U : f[k] = f[l] => k = l
  BY <1>4, <1>6 DEF OrderInv, OfferInv
<1>9. f \in Injection(U, Workers \ {w})
  BY <1>7, <1>8 DEF Injection, IsInjective
<1>a. IsFiniteSet(Workers)
  BY PublisherAssumption
<1>b. Cardinality(Workers) \in Nat
  BY <1>a, FS_CardinalityType
<1>10. /\ IsFiniteSet(Workers \ {w}) /\ Cardinality(Workers \ {w}) = Cardinality(Workers) - 1
       /\ Cardinality(Workers) \in Nat
  BY <1>a, <1>b, FS_RemoveElement
<1>11. IsFiniteSet(U) /\ Cardinality(U) <= Cardinality(Workers \ {w})
  BY <1>9, <1>10, FS_Injection
<1>12. Cardinality(U) \in Nat
  BY <1>11, FS_CardinalityType
<1> QED  BY <1>10, <1>11, <1>12

\* The overtaking done by the pool stays below its size: a job reaches NATS past
\* only those the other workers hold, and later jobs never come before these.
THEOREM OvertakingBounded == Spec => []BoundedOvertaking
<1>1. Init => BoundedOvertaking
  BY DEF Init, BoundedOvertaking
<1>2. ASSUME TypeOK, OrderInv, BoundedOvertaking, NEW p \in Producers, EnqueueSend(p)
      PROVE  BoundedOvertaking'
  <2>1. /\ Len(sent) \in Nat /\ DOMAIN sent = 1 .. Len(sent)
        /\ DOMAIN sent' = 1 .. (Len(sent) + 1) /\ sent'[Len(sent) + 1] = pjob[p]
        /\ \A k \in 1 .. Len(sent) : sent'[k] = sent[k]
    BY <1>2, SendGrows, Lengths
  <2>2. UNCHANGED TriedJobs
    BY <1>2 DEF EnqueueSend, work, TriedJobs
  <2>3. told[pjob[p]] = "pending"
    BY <1>2 DEF EnqueueSend, Step, OrderInv, OfferInv, Offering, Undecided
  <2>4. \A k \in Received : k \in DOMAIN sent
    BY <1>2, Lengths DEF Received
  <2>5. pjob[p] \notin TriedJobs
    BY <1>2, <2>3, <2>4 DEF OrderInv, OfferInv, HeldInv
  <2>6. ASSUME NEW i \in DOMAIN sent', sent'[i] \in TriedJobs'
        PROVE  Cardinality({k \in 1 .. i : sent'[k] \notin TriedJobs'}) < Cardinality(Workers)
    <3>1. i # Len(sent) + 1
      BY <2>1, <2>2, <2>5, <2>6
    <3>2. i \in DOMAIN sent /\ sent[i] \in TriedJobs
      BY <2>1, <2>2, <2>6, <3>1
    <3>3. {k \in 1 .. i : sent'[k] \notin TriedJobs'} = {k \in 1 .. i : sent[k] \notin TriedJobs}
      BY <2>1, <2>2, <3>2
    <3> QED  BY <1>2, <3>2, <3>3 DEF BoundedOvertaking
  <2> QED  BY <2>6 DEF BoundedOvertaking
<1>3. ASSUME TypeOK, OrderInv, BoundedOvertaking, NEW w \in Workers, NEW o \in Outcomes,
             WorkerPublish(w, o)
      PROVE  BoundedOvertaking'
  <2>1. sent' = sent /\ TriedJobs' = TriedJobs \cup {wjob[w]}
    BY <1>3, TriedGrows DEF WorkerPublish, prod
  <2>2. ASSUME NEW i \in DOMAIN sent, sent[i] \in TriedJobs
        PROVE  Cardinality({k \in 1 .. i : sent[k] \notin TriedJobs'}) < Cardinality(Workers)
    <3> DEFINE U == {k \in 1 .. i : sent[k] \notin TriedJobs}
               V == {k \in 1 .. i : sent[k] \notin TriedJobs'}
    <3>1. V \in SUBSET U /\ U \in SUBSET (1 .. i) /\ i \in Int
      BY <1>3, <2>1, Lengths
    <3>2. IsFiniteSet(U)
      BY <3>1, FS_Interval, FS_Subset
    <3>3. IsFiniteSet(V) /\ Cardinality(V) <= Cardinality(U)
      BY <3>1, <3>2, FS_Subset
    <3>4. Cardinality(V) \in Nat /\ Cardinality(U) \in Nat /\ Cardinality(Workers) \in Nat
      BY <3>2, <3>3, FS_CardinalityType, PublisherAssumption
    <3>5. Cardinality(U) < Cardinality(Workers)
      BY <1>3, <2>2 DEF BoundedOvertaking
    <3> HIDE DEF U, V
    <3>6. Cardinality(V) < Cardinality(Workers)
      BY <3>3, <3>4, <3>5
    <3> QED  BY <3>6 DEF V
  <2>3. ASSUME NEW i \in DOMAIN sent, sent[i] = wjob[w]
        PROVE  Cardinality({k \in 1 .. i : sent[k] \notin TriedJobs'}) < Cardinality(Workers)
    BY <1>3, <2>3, OthersHold
  <2> QED  BY <2>1, <2>2, <2>3 DEF BoundedOvertaking
<1>4. ASSUME BoundedOvertaking, UNCHANGED <<sent, tried>>  PROVE BoundedOvertaking'
  BY <1>4 DEF BoundedOvertaking, TriedJobs
<1>5. TypeOK /\ OrderInv /\ BoundedOvertaking /\ [Next]_vars => BoundedOvertaking'
  <2> SUFFICES ASSUME TypeOK, OrderInv, BoundedOvertaking, [Next]_vars  PROVE BoundedOvertaking'
    OBVIOUS
  <2>1. \/ UNCHANGED <<sent, tried>>
        \/ \E p \in Producers : EnqueueSend(p)
        \/ \E w \in Workers, o \in Outcomes : WorkerPublish(w, o)
    BY DEF Next, vars, prod, work, StartCAS, Discard, Spawn, WorkerStep, WorkerRecv, WorkerExit,
           CallEnqueue, EnqueueStep, EnqueueBeforeStart, EnqueueGate, EnqueueRLock, EnqueueClosed,
           EnqueueOpen, EnqueueFull, EnqueueCount, EnqueueRUnlock, CallDrain, DrainStep, DrainLock,
           DrainClose, DrainAgain, DrainDone, DrainTimeout
  <2> QED  BY <2>1, <1>2, <1>3, <1>4
<1> QED  BY <1>1, <1>5, OrderInvariant, TypeCorrect, PTL DEF Spec

------------------------------------------------------------------------------
(* The refinement of BestEffortQueue.                                      *)

\* Where jobs are tried once, the outcome of a try is the job's outcome.
LEMMA OnlyTry ==
  ASSUME NEW s, \A i, k \in DOMAIN s : s[i].job = s[k].job => i = k, NEW n \in DOMAIN s
  PROVE  s[CHOOSE i \in DOMAIN s : s[i].job = s[n].job].out = s[n].out
<1>1. \E i \in DOMAIN s : s[i].job = s[n].job
  OBVIOUS
<1> DEFINE c == CHOOSE i \in DOMAIN s : s[i].job = s[n].job
<1>2. c \in DOMAIN s /\ s[c].job = s[n].job
  BY <1>1
<1> HIDE DEF c
<1>3. c = n
  BY <1>2
<1> QED  BY <1>3 DEF c

\* What has become of a job, case by case.
LEMMA FateOf ==
  ASSUME NEW j \in Jobs
  PROVE  /\ j \in TriedJobs => AbstractFate[j] = IF Outcome(j) = "ok" THEN "published" ELSE "failed"
         /\ j \notin TriedJobs /\ j \in Range(sent) => AbstractFate[j] = "queued"
         /\ j \notin TriedJobs /\ j \notin Range(sent) =>
              AbstractFate[j] = IF told[j] = "false" THEN "refused" ELSE "new"
BY DEF AbstractFate

\* A job whose answer is open has neither been sent nor tried.
LEMMA FreshJob ==
  ASSUME TypeOK, OrderInv, NEW j \in Jobs, told[j] # "true"
  PROVE  j \notin TriedJobs /\ j \notin Range(sent)
<1>1. \A k \in Received : k \in DOMAIN sent
  BY Lengths DEF Received
<1>2. \A k \in DOMAIN sent : sent[k] # j
  BY DEF OrderInv, OfferInv
<1>3. j \notin Range(sent)
  BY <1>2 DEF Range
<1> QED  BY <1>1, <1>2, <1>3 DEF OrderInv, HeldInv

\* A sequence of length m has m positions.
LEMMA PositionCount ==
  ASSUME NEW m \in Nat
  PROVE  IsFiniteSet(1 .. m) /\ Cardinality(1 .. m) = m
<1>1. IsFiniteSet(1 .. m) /\ Cardinality(1 .. m) = (IF 1 > m THEN 0 ELSE m - 1 + 1)
  BY FS_Interval
<1> QED  BY <1>1

\* The jobs with no outcome yet are those in the channel and those the workers
\* hold: at least what is buffered, and at most one more per worker.
LEMMA BacklogBounds ==
  ASSUME TypeOK, OrderInv
  PROVE  /\ IsFiniteSet(Abstract!Backlog) /\ Cardinality(Abstract!Backlog) \in Nat
         /\ Len(queue) <= Cardinality(Abstract!Backlog)
         /\ Cardinality(Abstract!Backlog) <= Len(queue) + Cardinality(Workers)
<1> DEFINE B == Abstract!Backlog
           n == Len(sent) - Len(queue)
           Q == {j \in B : \E k \in 1 .. Len(queue) : queue[k] = j}
           H == {j \in B : \E w \in Workers : Holding(w) /\ wjob[w] = j}
           f == [j \in Q |-> CHOOSE k \in 1 .. Len(queue) : queue[k] = j]
           g == [j \in H |-> CHOOSE w \in Workers : Holding(w) /\ wjob[w] = j]
           h == [k \in 1 .. Len(queue) |-> queue[k]]
<1>1. /\ Len(queue) \in Nat /\ Len(sent) \in Nat /\ Len(queue) <= Len(sent)
      /\ DOMAIN sent = 1 .. Len(sent) /\ n \in Nat
  BY Lengths DEF OrderInv, QueueInv
<1>2. B = {j \in Jobs : j \notin TriedJobs /\ j \in Range(sent)}
  BY DEF Abstract!Backlog, AbstractFate
<1>3. \A k \in DOMAIN sent : k \in Received \/ \E l \in 1 .. Len(queue) : k = n + l
  <2> SUFFICES ASSUME NEW k \in DOMAIN sent, k \notin Received  PROVE \E l \in 1 .. Len(queue) : k = n + l
    OBVIOUS
  <2>1. k - n \in 1 .. Len(queue) /\ k = n + (k - n)
    BY <1>1 DEF Received
  <2> QED  BY <2>1
<1>4. \A l \in 1 .. Len(queue) : n + l \in DOMAIN sent /\ n + l \notin Received /\ queue[l] = sent[n + l]
  BY <1>1 DEF OrderInv, QueueInv, Received
<1>5. \A k \in Received : k \in DOMAIN sent
  BY <1>1 DEF Received
<1> HIDE DEF n
<1>6. B = Q \cup H
  <2> SUFFICES ASSUME NEW j \in B  PROVE j \in Q \cup H
    OBVIOUS
  <2>1. PICK k \in DOMAIN sent : sent[k] = j
    BY <1>2 DEF Range
  <2>2. CASE k \in Received
    BY <1>2, <2>1, <2>2 DEF OrderInv, HeldInv
  <2>3. CASE \E l \in 1 .. Len(queue) : k = n + l
    BY <1>4, <2>1, <2>3
  <2> QED  BY <1>3, <2>2, <2>3
<1>7. \A l \in 1 .. Len(queue) : queue[l] \in B
  <2> SUFFICES ASSUME NEW l \in 1 .. Len(queue)  PROVE queue[l] \in B
    OBVIOUS
  <2>1. n + l \in DOMAIN sent /\ n + l \notin Received /\ queue[l] = sent[n + l]
    BY <1>4
  <2>2. queue[l] \in Jobs /\ queue[l] \in Range(sent)
    <3>1. queue \in Seq(Jobs)
      BY DEF TypeOK
    <3> QED  BY <3>1, <2>1, ElementOfSeq DEF Range
  <2>3. \A k \in Received : sent[k] # queue[l]
    BY <1>5, <2>1 DEF OrderInv, OfferInv
  <2>4. queue[l] \notin TriedJobs
    BY <2>3 DEF OrderInv, HeldInv
  <2> QED  BY <1>2, <2>2, <2>4
<1>8. \A k, l \in 1 .. Len(queue) : queue[k] = queue[l] => k = l
  <2> SUFFICES ASSUME NEW k \in 1 .. Len(queue), NEW l \in 1 .. Len(queue), queue[k] = queue[l]
               PROVE  k = l
    OBVIOUS
  <2>1. n + k = n + l
    BY <1>4 DEF OrderInv, OfferInv
  <2> QED  BY <1>1, <2>1
<1> HIDE DEF B
<1>9. IsFiniteSet(1 .. Len(queue)) /\ Cardinality(1 .. Len(queue)) = Len(queue)
  BY <1>1, PositionCount
<1>10. IsFiniteSet(Q) /\ Cardinality(Q) <= Len(queue)
  <2>1. \A j \in Q : f[j] \in 1 .. Len(queue) /\ queue[f[j]] = j
    OBVIOUS
  <2> HIDE DEF f
  <2>2. f \in [Q -> 1 .. Len(queue)]
    BY <2>1 DEF f
  <2>3. f \in Injection(Q, 1 .. Len(queue))
    BY <2>1, <2>2 DEF Injection, IsInjective
  <2> QED  BY <2>3, <1>9, FS_Injection
<1>11. IsFiniteSet(H) /\ Cardinality(H) <= Cardinality(Workers)
  <2>1. \A j \in H : g[j] \in Workers /\ wjob[g[j]] = j
    OBVIOUS
  <2> HIDE DEF g
  <2>2. g \in [H -> Workers]
    BY <2>1 DEF g
  <2>3. g \in Injection(H, Workers)
    BY <2>1, <2>2 DEF Injection, IsInjective
  <2> QED  BY <2>3, PublisherAssumption, FS_Injection
<1> HIDE DEF Q, H
<1>12. /\ IsFiniteSet(B) /\ Cardinality(B) = Cardinality(Q) + Cardinality(H) - Cardinality(Q \cap H)
       /\ IsFiniteSet(Q \cap H)
  BY <1>6, <1>10, <1>11, FS_Union, FS_Intersection
<1>13. /\ Cardinality(B) \in Nat /\ Cardinality(Q) \in Nat /\ Cardinality(H) \in Nat
       /\ Cardinality(Q \cap H) \in Nat /\ Cardinality(Workers) \in Nat
  BY <1>10, <1>11, <1>12, FS_CardinalityType, PublisherAssumption
<1>14. Cardinality(B) <= Len(queue) + Cardinality(Workers)
  BY <1>1, <1>10, <1>11, <1>12, <1>13
<1>15. Len(queue) <= Cardinality(B)
  <2>1. h \in Injection(1 .. Len(queue), B)
    BY <1>7, <1>8 DEF Injection, IsInjective
  <2> QED  BY <2>1, <1>9, <1>12, FS_Injection
<1> QED  BY <1>12, <1>13, <1>14, <1>15 DEF B

\* AbstractFate is a function on Jobs, so one changed value is an update.
LEMMA FateUpdate ==
  ASSUME NEW j \in Jobs, NEW f, AbstractFate'[j] = f,
         \A i \in Jobs \ {j} : AbstractFate'[i] = AbstractFate[i]
  PROVE  AbstractFate' = [AbstractFate EXCEPT ![j] = f]
<1>1. /\ DOMAIN AbstractFate = Jobs /\ AbstractFate = [i \in Jobs |-> AbstractFate[i]]
      /\ DOMAIN AbstractFate' = Jobs /\ AbstractFate' = [i \in Jobs |-> AbstractFate'[i]]
  BY DEF AbstractFate
<1> QED  BY <1>1

\* As long as nothing is sent, tried or refused, every fate stays.
LEMMA FateKept ==
  ASSUME UNCHANGED <<sent, tried>>, NEW J \in SUBSET Jobs,
         \A j \in J : told'[j] = "false" <=> told[j] = "false"
  PROVE  \A j \in J : AbstractFate'[j] = AbstractFate[j]
<1>1. TriedJobs' = TriedJobs /\ \A j \in J : Outcome(j)' = Outcome(j)
  BY DEF TriedJobs, Outcome
<1> QED  BY <1>1 DEF AbstractFate

\* BestEffortQueue counts its backlog with the same Cardinality.
LEMMA SameCount == \A S : Abstract!Cardinality(S) = Cardinality(S)
BY DEF Abstract!Cardinality, Cardinality

\* A refusing step of Enqueue is the abstract Refuse.
LEMMA RefuseMaps ==
  ASSUME TypeOK, OrderInv, NEW p \in Producers,
         EnqueueBeforeStart(p) \/ EnqueueClosed(p) \/ EnqueueFull(p)
  PROVE  pjob[p] \in Jobs /\ Abstract!Refuse(pjob[p])
<1> DEFINE j == pjob[p]
<1>1. /\ Offering(p) /\ ppc[p] # "idle" /\ told' = [told EXCEPT ![j] = "false"]
      /\ UNCHANGED <<started, closed, sent, tried>>
  BY DEF EnqueueBeforeStart, EnqueueClosed, EnqueueFull, Step, Offering, Undecided, work
<1>2. j \in Jobs /\ told \in [Jobs -> {"nothing", "pending", "true", "false"}]
  BY <1>1 DEF TypeOK
<1>3. told[j] = "pending"
  BY <1>1 DEF OrderInv, OfferInv
<1> HIDE DEF j
<1>4. j \notin TriedJobs /\ j \notin Range(sent)
  BY <1>2, <1>3, FreshJob
<1>5. AbstractFate[j] = "new"
  BY <1>2, <1>3, <1>4, FateOf
<1>6. AbstractFate'[j] = "refused"
  <2>1. told'[j] = "false"
    BY <1>1, <1>2
  <2>2. TriedJobs' = TriedJobs /\ sent' = sent
    BY <1>1 DEF TriedJobs
  <2> QED  BY <1>2, <1>4, <2>1, <2>2 DEF AbstractFate
<1>7. \A i \in Jobs \ {j} : AbstractFate'[i] = AbstractFate[i]
  <2>1. \A i \in Jobs \ {j} : told'[i] = told[i]
    BY <1>1, <1>2
  <2> QED  BY <1>1, <2>1, FateKept
<1>8. AbstractFate' = [AbstractFate EXCEPT ![j] = "refused"]
  BY <1>2, <1>6, <1>7, FateUpdate
<1>9. UNCHANGED AbstractPhase
  BY <1>1 DEF AbstractPhase
<1>10. ASSUME AbstractPhase = "open"  PROVE Cardinality(Abstract!Backlog) >= BufferSize
  <2>1. started /\ ~closed
    BY <1>10 DEF AbstractPhase
  <2>2. Len(queue) = BufferSize
    BY <2>1 DEF EnqueueBeforeStart, EnqueueClosed, EnqueueFull
  <2>3. Cardinality(Abstract!Backlog) \in Nat /\ Len(queue) <= Cardinality(Abstract!Backlog)
    BY BacklogBounds
  <2> QED  BY <2>2, <2>3, PublisherAssumption
<1>11. Abstract!Refuse(j)
  BY <1>5, <1>8, <1>9, <1>10, SameCount DEF Abstract!Refuse
<1> QED  BY <1>2, <1>11 DEF j

\* The send into the channel is the abstract Accept.
LEMMA SendMaps ==
  ASSUME TypeOK, OrderInv, OpenInv, NEW p \in Producers, EnqueueSend(p)
  PROVE  pjob[p] \in Jobs /\ Abstract!Accept(pjob[p])
<1> DEFINE j == pjob[p]
<1>1. /\ Offering(p) /\ ppc[p] = "send" /\ told' = [told EXCEPT ![j] = "true"]
      /\ Len(queue) < BufferSize /\ UNCHANGED <<started, closed, tried>>
  BY DEF EnqueueSend, Step, Offering, Undecided, work
<1>2. j \in Jobs /\ told \in [Jobs -> {"nothing", "pending", "true", "false"}]
  BY <1>1 DEF TypeOK
<1>3. told[j] = "pending"
  BY <1>1 DEF OrderInv, OfferInv
<1>4. Range(sent') = Range(sent) \cup {j}
  <2>1. /\ Len(sent) \in Nat /\ DOMAIN sent = 1 .. Len(sent)
        /\ DOMAIN sent' = 1 .. (Len(sent) + 1) /\ sent'[Len(sent) + 1] = j
        /\ \A k \in 1 .. Len(sent) : sent'[k] = sent[k]
    BY SendGrows, Lengths
  <2>2. DOMAIN sent' = DOMAIN sent \cup {Len(sent) + 1}
    BY <2>1
  <2> QED  BY <2>1, <2>2 DEF Range
<1> HIDE DEF j
<1>5. j \notin TriedJobs /\ j \notin Range(sent)
  BY <1>2, <1>3, FreshJob
<1>6. AbstractFate[j] = "new"
  BY <1>2, <1>3, <1>5, FateOf
<1>7. TriedJobs' = TriedJobs /\ \A i \in Jobs : Outcome(i)' = Outcome(i)
  BY <1>1 DEF TriedJobs, Outcome
<1>8. AbstractFate'[j] = "queued"
  BY <1>2, <1>4, <1>5, <1>7 DEF AbstractFate
<1>9. \A i \in Jobs \ {j} : told'[i] = told[i] /\ (i \in Range(sent') <=> i \in Range(sent))
  BY <1>1, <1>2, <1>4
<1>10. \A i \in Jobs \ {j} : AbstractFate'[i] = AbstractFate[i]
  BY <1>7, <1>9 DEF AbstractFate
<1>11. AbstractFate' = [AbstractFate EXCEPT ![j] = "queued"]
  BY <1>2, <1>8, <1>10, FateUpdate
<1>12. AbstractPhase = "open" /\ UNCHANGED AbstractPhase
  BY <1>1 DEF AbstractPhase, OpenInv, OrderInv, StartInv
<1>13. Cardinality(Abstract!Backlog) < BufferSize + Cardinality(Workers)
  <2>1. Cardinality(Workers) \in Nat /\ Len(queue) \in Nat
    BY PublisherAssumption, FS_CardinalityType, Lengths
  <2>2. /\ Cardinality(Abstract!Backlog) \in Nat
        /\ Cardinality(Abstract!Backlog) <= Len(queue) + Cardinality(Workers)
    BY BacklogBounds
  <2> QED  BY <1>1, <2>1, <2>2, PublisherAssumption
<1>14. Abstract!Accept(j)
  BY <1>6, <1>11, <1>12, <1>13, SameCount DEF Abstract!Accept
<1> QED  BY <1>2, <1>14 DEF j

\* The end of a worker's call is the abstract Settle.
LEMMA PublishMaps ==
  ASSUME TypeOK, OrderInv, OrderInv', NEW w \in Workers, NEW o \in Outcomes, WorkerPublish(w, o)
  PROVE  wjob[w] \in Jobs /\ Abstract!Settle(wjob[w])
<1> DEFINE j == wjob[w]
           n == Len(tried) + 1
<1>1. /\ Holding(w) /\ UNCHANGED <<started, closed, sent, told>>
  BY DEF WorkerPublish, Holding, prod
<1>2. j \in Jobs
  BY <1>1 DEF TypeOK, Holding
<1>3. /\ Len(tried) \in Nat /\ DOMAIN tried = 1 .. Len(tried)
      /\ TriedJobs' = TriedJobs \cup {j}
      /\ DOMAIN tried' = 1 .. n /\ tried'[n] = [job |-> j, out |-> o]
      /\ \A i \in 1 .. Len(tried) : tried'[i] = tried[i]
  BY TriedGrows, Lengths
<1>4. \A i, k \in DOMAIN tried : tried[i].job = tried[k].job => i = k
  BY DEF OrderInv, HeldInv
<1>5. \A i, k \in DOMAIN tried' : tried'[i].job = tried'[k].job => i = k
  BY DEF OrderInv, HeldInv
<1>6. j \notin TriedJobs /\ j \in Range(sent)
  <2>1. \A k \in Received : k \in DOMAIN sent
    BY Lengths DEF Received
  <2>2. j \notin TriedJobs /\ \E k \in Received : sent[k] = j
    BY <1>1 DEF OrderInv, HeldInv
  <2> QED  BY <2>1, <2>2 DEF Range
<1>7. AbstractFate[j] = "queued"
  BY <1>2, <1>6, FateOf
<1>8. AbstractFate'[j] \in {"published", "failed"}
  BY <1>2, <1>3 DEF AbstractFate
<1> HIDE DEF j
<1>9. \A i \in TriedJobs : Outcome(i)' = Outcome(i)
  <2> SUFFICES ASSUME NEW i \in TriedJobs  PROVE Outcome(i)' = Outcome(i)
    OBVIOUS
  <2>1. PICK k \in DOMAIN tried : tried[k].job = i
    BY DEF TriedJobs
  <2>2. k \in DOMAIN tried' /\ tried'[k] = tried[k]
    BY <1>3
  <2>3. Outcome(i) = tried[k].out
    BY <1>4, <2>1, OnlyTry DEF Outcome
  <2>4. Outcome(i)' = tried'[k].out
    <3>1. tried'[CHOOSE m \in DOMAIN tried' : tried'[m].job = tried'[k].job].out = tried'[k].out
      BY <1>5, <2>2, OnlyTry
    <3> QED  BY <2>1, <2>2, <3>1 DEF Outcome
  <2> QED  BY <2>2, <2>3, <2>4
<1>10. \A i \in Jobs \ {j} : AbstractFate'[i] = AbstractFate[i]
  BY <1>1, <1>3, <1>9 DEF AbstractFate
<1>11. AbstractFate' = [AbstractFate EXCEPT ![j] = AbstractFate'[j]]
  BY <1>2, <1>10, FateUpdate
<1>12. UNCHANGED AbstractPhase
  BY <1>1 DEF AbstractPhase
<1>13. Abstract!Settle(j)
  BY <1>7, <1>8, <1>11, <1>12 DEF Abstract!Settle
<1> QED  BY <1>2, <1>13 DEF j

\* Every other step of Enqueue, the pool's own steps, and Drain's but for the
\* close, are invisible.
LEMMA StutterMaps ==
  ASSUME TypeOK, UNCHANGED <<started, closed, sent, tried>>,
         told' = told \/ \E p \in Producers, j \in Jobs : CallEnqueue(p, j)
  PROVE  UNCHANGED <<AbstractFate, AbstractPhase>>
<1>1. \A j \in Jobs : told'[j] = "false" <=> told[j] = "false"
  BY DEF CallEnqueue, TypeOK
<1>2. \A j \in Jobs : AbstractFate'[j] = AbstractFate[j]
  BY <1>1, FateKept
<1>3. /\ AbstractFate = [i \in Jobs |-> AbstractFate[i]]
      /\ AbstractFate' = [i \in Jobs |-> AbstractFate'[i]]
  BY DEF AbstractFate
<1>4. AbstractFate' = AbstractFate
  BY <1>2, <1>3
<1>5. AbstractPhase' = AbstractPhase
  BY DEF AbstractPhase
<1> QED  BY <1>4, <1>5

\* Start opens the queue, and the closing Drain seals it: a channel is closed
\* only when Start has spawned its workers.
LEMMA PhaseMaps ==
  ASSUME TypeOK, OrderInv, ExitInv, StartCAS \/ \E d \in Drainers : DrainClose(d)
  PROVE  Abstract!Open \/ Abstract!Seal \/ UNCHANGED <<AbstractFate, AbstractPhase>>
<1>1. UNCHANGED <<sent, tried, told>>
  BY DEF StartCAS, DrainClose, prod, work
<1>2. UNCHANGED AbstractFate
  BY <1>1 DEF AbstractFate, TriedJobs, Outcome
<1>3. CASE StartCAS
  <2>1. ~started /\ started' /\ closed' = closed
    BY <1>3 DEF StartCAS
  <2> QED  BY <1>2, <2>1 DEF Abstract!Open, AbstractPhase
<1>4. ASSUME NEW d \in Drainers, DrainClose(d)  PROVE Abstract!Seal
  <2>1. /\ dpc[d] # "idle" /\ ~closed /\ closed'
    BY <1>4 DEF DrainClose
  <2>2. started
    BY <2>1, PublisherAssumption DEF ExitInv, OrderInv, StartInv
  <2> QED  BY <1>2, <2>1, <2>2 DEF Abstract!Seal, AbstractPhase
<1> QED  BY <1>3, <1>4

\* The publisher keeps the promise BestEffortQueue states: every step of its
\* goroutines is an accept, a refusal, a settlement, an opening or a sealing of
\* the abstract queue, or changes nothing a caller or NATS could tell.
THEOREM PublisherRefines == Spec => ImplementsBestEffortQueue
<1>1. Init => Abstract!Init
  <2> SUFFICES ASSUME Init  PROVE Abstract!Init
    OBVIOUS
  <2>1. sent = <<>> /\ tried = <<>> /\ ~started /\ ~closed
        /\ told = [j \in Jobs |-> "nothing"]
    BY DEF Init
  <2>2. TriedJobs = {} /\ Range(sent) = {}
    BY <2>1 DEF TriedJobs, Range
  <2>3. AbstractFate = [j \in Jobs |-> "new"]
    BY <2>1, <2>2 DEF AbstractFate
  <2> QED  BY <2>1, <2>3 DEF Abstract!Init, AbstractPhase
<1>2. /\ TypeOK /\ OrderInv /\ OrderInv' /\ OpenInv /\ ExitInv /\ [Next]_vars
      => [Abstract!Next]_<<AbstractFate, AbstractPhase>>
  <2> SUFFICES ASSUME TypeOK, OrderInv, OrderInv', OpenInv, ExitInv, [Next]_vars
               PROVE  Abstract!Next \/ UNCHANGED <<AbstractFate, AbstractPhase>>
    OBVIOUS
  <2>1. ASSUME NEW p \in Producers, EnqueueBeforeStart(p) \/ EnqueueClosed(p) \/ EnqueueFull(p)
        PROVE  Abstract!Next
    BY <2>1, RefuseMaps DEF Abstract!Next
  <2>2. ASSUME NEW p \in Producers, EnqueueSend(p)  PROVE Abstract!Next
    BY <2>2, SendMaps DEF Abstract!Next
  <2>3. ASSUME NEW w \in Workers, NEW o \in Outcomes, WorkerPublish(w, o)  PROVE Abstract!Next
    BY <2>3, PublishMaps DEF Abstract!Next
  <2>4. CASE StartCAS \/ \E d \in Drainers : DrainClose(d)
    BY <2>4, PhaseMaps DEF Abstract!Next
  <2>5. ASSUME NEW p \in Producers,
               \/ EnqueueGate(p) \/ EnqueueRLock(p) \/ EnqueueOpen(p)
               \/ EnqueueCount(p) \/ EnqueueRUnlock(p)
        PROVE  UNCHANGED <<started, closed, sent, tried, told>>
    BY <2>5 DEF EnqueueGate, EnqueueRLock, EnqueueOpen, EnqueueCount, EnqueueRUnlock, work
  <2>6. ASSUME NEW p \in Producers, NEW j \in Jobs, CallEnqueue(p, j)
        PROVE  UNCHANGED <<started, closed, sent, tried>>
    BY <2>6 DEF CallEnqueue, work
  <2>7. ASSUME NEW w \in Workers, Spawn(w) \/ WorkerRecv(w) \/ WorkerExit(w)
        PROVE  UNCHANGED <<started, closed, sent, tried, told>>
    BY <2>7 DEF Spawn, WorkerRecv, WorkerExit, prod
  <2>8. ASSUME NEW d \in Drainers,
               CallDrain(d) \/ DrainLock(d) \/ DrainAgain(d) \/ DrainDone(d) \/ DrainTimeout(d)
        PROVE  UNCHANGED <<started, closed, sent, tried, told>>
    BY <2>8 DEF CallDrain, DrainLock, DrainAgain, DrainDone, DrainTimeout, prod, work
  <2>9. CASE Discard \/ UNCHANGED vars
    BY <2>9, StutterMaps DEF Discard, vars, prod, work
  <2> QED
    BY <2>1, <2>2, <2>3, <2>4, <2>5, <2>6, <2>7, <2>8, <2>9, StutterMaps
    DEF Next, EnqueueStep, WorkerStep, DrainStep
<1>3. Spec => []ExitInv
  <2>1. Init => ExitInv
    BY DEF Init, ExitInv
  <2> QED  BY <2>1, ExitStep, LockAndOpen, TypeCorrect, PTL DEF Spec
<1> QED
  BY <1>1, <1>2, <1>3, TypeCorrect, OrderInvariant, LockAndOpen, PTL
  DEF Spec, ImplementsBestEffortQueue, Abstract!Spec
==============================================================================
