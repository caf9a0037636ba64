-------------------------- MODULE PluginContractProofs --------------------------
(***************************************************************************)
(* The plugin's life implements PluginContract, for every configuration    *)
(* file and number of events and messages: each step of the broker thread, *)
(* of a worker and of a handler is a step of the contract or changes       *)
(* nothing the broker sees.                                                *)
(***************************************************************************)
EXTENDS PluginLifecycleProofs

\* Nothing is queued for a connection that never was.
UnconnectedInv == nats = "none" => Queue!Backlog = {}

\* Events are queued through a runtime only, and that has a connection.
LEMMA UnconnectedStep == Inv /\ UnconnectedInv /\ [Next]_vars => UnconnectedInv'
  <1> SUFFICES ASSUME Inv, UnconnectedInv, [Next]_vars PROVE UnconnectedInv'
    OBVIOUS
  <1>1. ASSUME fate' = fate, nats' = "none" => nats = "none" PROVE UnconnectedInv'
    BY <1>1 DEF UnconnectedInv, Queue!Backlog
  <1>2. CASE InitLoadConfig \/ InitConnectNATS \/ InitAuthClient \/ InitPebble \/ InitMinio
    BY <1>1, <1>2 DEF InitLoadConfig, InitConnectNATS, InitAuthClient, InitPebble, InitMinio, queue
  <1>3. CASE InitPublisher \/ InitFanout \/ InitStoreRuntime \/ Register
    BY <1>1, <1>3 DEF InitPublisher, InitFanout, InitStoreRuntime, Register, queue, Queue!Open
  <1>4. ASSUME NEW s, NEW t, Drain(s, t) PROVE UnconnectedInv'
    BY <1>1, <1>4 DEF Drain, queue, Queue!Seal
  <1>5. CASE InitBuildFailed \/ InitRegisterFailed \/ CleanupEnd
    BY <1>1, <1>5 DEF InitBuildFailed, InitRegisterFailed, CleanupEnd, CloseNATS, queue
  <1>6. CASE Cleanup \/ CleanupStop \/ CleanupClose \/ CleanupForget
    BY <1>1, <1>6 DEF Cleanup, CleanupStop, CleanupClose, CleanupForget, queue
  <1>7. CASE Deliver \/ FanoutStep \/ UNCHANGED vars
    BY <1>1, <1>7 DEF Deliver, FanoutStep, Handle, InvalidateCheck, InvalidateCall,
                      InvalidateReturn, SubscriptionDrained, vars, queue
  <1>8. CASE Callback
    <2>1. pc = "ready" /\ nats = "open" /\ nats' = nats
      BY <1>8 DEF Callback, Serving, Inv, PointerInv, Exposed, Connected, Built, CleanupPoints
    <2> QED BY <2>1 DEF UnconnectedInv
  <1>9. ASSUME NEW j \in Jobs, Settle(j) PROVE UnconnectedInv'
    <2>1. nats' = nats /\ j \in Queue!Backlog
      BY <1>9 DEF Settle, Queue!Settle, Queue!Backlog
    <2> QED BY <2>1 DEF UnconnectedInv
  <1> QED BY <1>2, <1>3, <1>4, <1>5, <1>6, <1>7, <1>8, <1>9 DEF Next, InitStep, CleanupStep

-------------------------------------------------------------------------------
\* Where the broker thread is decides what the broker sees.
LEMMA StatusAt ==
  ASSUME crash = "no"
  PROVE  /\ pc \in InitPoints => Status = "starting"
         /\ pc \in CleanupPoints => Status = "stopping"
         /\ pc = "ready" => Status = "serving"
         /\ pc = "failed" => Status = "refused"
         /\ pc = "done" => Status = "stopped"
  BY DEF Status, InitPoints, CleanupPoints

LEMMA StatusNext ==
  ASSUME crash' = "no"
  PROVE  /\ pc' \in InitPoints => Status' = "starting"
         /\ pc' \in CleanupPoints => Status' = "stopping"
         /\ pc' = "ready" => Status' = "serving"
         /\ pc' = "failed" => Status' = "refused"
         /\ pc' = "done" => Status' = "stopped"
  BY DEF Status, InitPoints, CleanupPoints

\* The broker thread goes on within init or cleanup, out of it, or into it.
LEMMA ThreadMaps ==
  ASSUME crash = "no", crash' = "no", fate' = fate,
         \/ pc \in InitPoints /\ pc' \in InitPoints \cup {"ready", "failed"}
         \/ pc \in CleanupPoints \cup {"ready"} /\ pc' \in CleanupPoints
         \/ pc \in CleanupPoints \cup {"failed"} /\ pc' = "done"
  PROVE  [Contract!Next]_<<Status, fate>>
  BY StatusAt, StatusNext DEF Contract!Next, Contract!ComeUp, Contract!Stop

\* Another goroutine's step that the broker cannot see.
LEMMA HiddenMaps ==
  ASSUME UNCHANGED <<pc, crash, fate>>
  PROVE  [Contract!Next]_<<Status, fate>>
  BY DEF Status

\* The process goes down, in init or cleanup or after it.
LEMMA CrashMaps ==
  ASSUME crash = "no", crash' # "no", fate' = fate,
         pc \in InitPoints \cup CleanupPoints \cup {"done"}
  PROVE  [Contract!Next]_<<Status, fate>>
  <1>1. Status' = "crashed" /\ Status \in {"starting", "stopping", "stopped"}
    BY StatusAt DEF Status
  <1> QED BY <1>1 DEF Contract!Next, Contract!Crash

\* An event is taken, or turned away for lack of room, only by a plugin that
\* serves.
LEMMA CallbackMaps ==
  ASSUME Inv, Callback
  PROVE  [Contract!Next]_<<Status, fate>>
  <1>1. pc = "ready" /\ phase = "open" /\ crash = "no" /\ UNCHANGED <<pc, crash>>
    BY DEF Callback, Serving, Inv, PointerInv, PublisherInv, Exposed, Built, CleanupPoints
  <1>2. Status = "serving" /\ Status' = Status
    BY <1>1, StatusAt, StatusNext
  <1>3. PICK j \in Jobs : Queue!Accept(j) \/ Queue!Refuse(j)
    BY DEF Callback
  <1>4. \A S : Contract!Cardinality(S) = Queue!Cardinality(S)
    BY DEF Contract!Cardinality, Queue!Cardinality
  <1>5. Contract!Backlog = Queue!Backlog
    BY DEF Contract!Backlog, Queue!Backlog
  <1>6. Queue!Accept(j) => Contract!Take(j)
    BY <1>2 DEF Queue!Accept, Contract!Take
  <1>7. Queue!Refuse(j) => Contract!TurnAway(j)
    BY <1>1, <1>2, <1>4, <1>5 DEF Queue!Refuse, Contract!TurnAway
  <1> QED BY <1>3, <1>6, <1>7 DEF Contract!Next

\* A worker settles an event that was taken; once the plugin has stopped the
\* connection is closed, and all it can do is fail.
LEMMA SettleMaps ==
  ASSUME Inv, UnconnectedInv, NEW j \in Jobs, Settle(j)
  PROVE  [Contract!Next]_<<Status, fate>>
  <1>1. /\ crash = "no" /\ UNCHANGED <<pc, crash>> /\ fate[j] = "queued" /\ j \in Queue!Backlog
        /\ nats = "closed" => fate'[j] = "failed"
    BY DEF Settle, Queue!Settle, Queue!Backlog
  <1>2. PICK f \in {"published", "failed"} : fate' = [fate EXCEPT ![j] = f]
    BY DEF Settle, Queue!Settle
  <1>3. fate'[j] = f
    BY <1>2 DEF Inv, TypeOK
  <1>4. nats # "none" /\ pc \notin InitPoints \cup {"failed"}
    BY <1>1 DEF Inv, UnconnectedInv, PublisherInv
  <1>5. pc \in CleanupPoints \cup {"ready", "done"}
    BY <1>4 DEF Inv, TypeOK
  <1>6. pc = "done" => nats = "closed"
    BY <1>4 DEF Inv, TypeOK, PointerInv, Connected, Built
  <1>7. Status' = Status /\ Status \in {"serving", "stopping", "stopped"}
        /\ (Status = "stopped" => pc = "done")
    BY <1>1, <1>5, StatusAt, StatusNext
  <1>8. CASE f = "failed"
    BY <1>1, <1>2, <1>7, <1>8 DEF Contract!Next, Contract!Fail
  <1>9. CASE f = "published"
    <2>1. Status \in {"serving", "stopping"}
      BY <1>1, <1>3, <1>6, <1>7, <1>9
    <2> QED BY <1>1, <1>2, <1>7, <1>9, <2>1 DEF Contract!Next, Contract!Publish
  <1> QED BY <1>8, <1>9

-------------------------------------------------------------------------------
\* Each step is one of the contract, or a stutter.
LEMMA StepMaps ==
  ASSUME Inv, Inv', UnconnectedInv, [Next]_vars
  PROVE  [Contract!Next]_<<Status, fate>>
  <1>1. CASE InitLoadConfig \/ InitConnectNATS \/ InitAuthClient \/ InitPebble \/ InitMinio
    <2>1. fate' = fate /\ crash = "no" /\ crash' = "no"
      BY <1>1 DEF InitLoadConfig, InitConnectNATS, InitAuthClient, InitPebble, InitMinio, Go, queue
    <2>2. pc \in InitPoints /\ pc' \in InitPoints \cup {"failed"}
      BY <1>1 DEF InitLoadConfig, InitConnectNATS, InitAuthClient, InitPebble, InitMinio, Go, InitPoints
    <2> QED BY <2>1, <2>2, ThreadMaps
  <1>2. CASE InitPublisher
    <2>1. /\ fate' = fate /\ crash = "no"
          /\ pc \in InitPoints /\ pc' \in InitPoints
      BY <1>2 DEF InitPublisher, Go, queue, Queue!Open, InitPoints
    <2> QED BY <2>1, ThreadMaps, CrashMaps
  <1>3. CASE InitFanout \/ InitStoreRuntime \/ Register
    <2>1. fate' = fate /\ crash = "no" /\ crash' = "no"
      BY <1>3 DEF InitFanout, InitStoreRuntime, Register, Go, queue
    <2>2. pc \in InitPoints /\ pc' \in InitPoints \cup {"ready"}
      BY <1>3 DEF InitFanout, InitStoreRuntime, Register, Go, InitPoints
    <2> QED BY <2>1, <2>2, ThreadMaps
  <1>4. ASSUME NEW s, NEW t, Drain(s, t)
        PROVE  fate' = fate /\ crash = "no" /\ crash' = "no" /\ pc = s /\ pc' \in {s, t}
    BY <1>4 DEF Drain, Go, queue, Queue!Seal
  <1>5. CASE Drain("buildDrain", "buildFailed") \/ Drain("registerDrain", "registerFailed")
    BY <1>4, <1>5, ThreadMaps DEF InitPoints
  <1>6. CASE Drain("drain", "disconnect")
    BY <1>4, <1>6, ThreadMaps DEF CleanupPoints
  <1>7. CASE InitBuildFailed \/ InitRegisterFailed
    <2>1. /\ fate' = fate /\ crash = "no" /\ crash' = "no"
          /\ pc \in InitPoints /\ pc' = "failed"
      BY <1>7 DEF InitBuildFailed, InitRegisterFailed, Go, queue, InitPoints
    <2> QED BY <2>1, ThreadMaps
  <1>8. CASE Cleanup
    <2>1. /\ fate' = fate /\ crash = "no" /\ crash' = "no"
          /\ \/ pc = "ready" /\ pc' = "stop"
             \/ pc = "failed" /\ pc' = "done"
      BY <1>8 DEF Cleanup, Serving, Go, queue, Inv, PointerInv, Exposed, CleanupPoints
    <2> QED BY <2>1, ThreadMaps DEF CleanupPoints
  <1>9. CASE CleanupStop \/ CleanupClose \/ CleanupForget \/ CleanupEnd
    <2>1. fate' = fate /\ crash = "no" /\ crash' = "no"
      BY <1>9 DEF CleanupStop, CleanupClose, CleanupForget, CleanupEnd, Go, queue
    <2>2. pc \in CleanupPoints /\ pc' \in CleanupPoints \cup {"done"}
      BY <1>9 DEF CleanupStop, CleanupClose, CleanupForget, CleanupEnd, Go, CleanupPoints
    <2> QED BY <2>1, <2>2, ThreadMaps
  <1>10. CASE Deliver \/ Handle \/ InvalidateCheck \/ SubscriptionDrained \/ UNCHANGED vars
    <2>1. UNCHANGED <<pc, crash, fate>>
      BY <1>10 DEF Deliver, Handle, InvalidateCheck, SubscriptionDrained, vars, queue
    <2> QED BY <2>1, HiddenMaps
  <1>11. CASE InvalidateCall \/ InvalidateReturn
    <2>1. crash = "no" /\ UNCHANGED <<pc, fate>> /\ (crash' = crash \/ crash' = "invalidate")
      BY <1>11 DEF InvalidateCall, InvalidateReturn, queue
    <2>2. crash' = "invalidate" => pc \in CleanupPoints \cup {"done"}
      BY <2>1 DEF Inv, HandlerInv, Closing, CleanupPoints
    <2> QED BY <2>1, <2>2, HiddenMaps, CrashMaps
  <1> QED BY <1>1, <1>2, <1>3, <1>5, <1>6, <1>7, <1>8, <1>9, <1>10, <1>11,
             CallbackMaps, SettleMaps
          DEF Next, InitStep, CleanupStep, FanoutStep

\* The broker gets the plugin it was promised: events only while it serves, no
\* publish after it has stopped, no crash while it serves or when refused.
THEOREM LifecycleRefines == Spec => ImplementsPluginContract
  <1>1. Init => Contract!Init
    BY DEF Init, Queue!Init, Contract!Init, Status, InitPoints
  <1>2. Init => UnconnectedInv
    BY DEF Init, Queue!Init, UnconnectedInv, Queue!Backlog
  <1>3. Inv /\ Inv' /\ UnconnectedInv /\ [Next]_vars => [Contract!Next]_<<Status, fate>>
    BY StepMaps
  <1> QED BY <1>1, <1>2, <1>3, LifecycleInvariant, UnconnectedStep, PTL
          DEF Spec, ImplementsPluginContract, Contract!Spec
===============================================================================
