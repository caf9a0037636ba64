--------------------------- MODULE BestEffortQueue ---------------------------
(***************************************************************************)
(* What the NATS publisher promises its callers, with no threads, locks or *)
(* channels: a job offered while the publisher is open is either accepted  *)
(* or refused for a reason the caller could have caused (not opened yet,   *)
(* sealed, or a full backlog); an accepted job is handed to NATS exactly   *)
(* once, and the outcome is final.  "Best effort" is the failed outcome:   *)
(* a job NATS refuses is never retried.                                    *)
(***************************************************************************)
EXTENDS Naturals, FiniteSets

CONSTANTS Jobs,       \* the envelopes callers may offer
          MinBacklog, \* a refusal for lack of room needs this many unsettled jobs
          MaxBacklog  \* and never are there more than this many

VARIABLES fate,       \* what has become of each job
          phase       \* "new", then "open", then "sealed"

Backlog == {j \in Jobs : fate[j] = "queued"}

Init == /\ fate = [j \in Jobs |-> "new"]
        /\ phase = "new"

Open == phase = "new" /\ phase' = "open" /\ UNCHANGED fate
Seal == phase = "open" /\ phase' = "sealed" /\ UNCHANGED fate

Accept(j) == /\ phase = "open" /\ fate[j] = "new"
             /\ Cardinality(Backlog) < MaxBacklog
             /\ fate' = [fate EXCEPT ![j] = "queued"]
             /\ UNCHANGED phase

Refuse(j) == /\ fate[j] = "new"
             /\ phase = "open" => Cardinality(Backlog) >= MinBacklog
             /\ fate' = [fate EXCEPT ![j] = "refused"]
             /\ UNCHANGED phase

Settle(j) == /\ fate[j] = "queued"
             /\ \E f \in {"published", "failed"} : fate' = [fate EXCEPT ![j] = f]
             /\ UNCHANGED phase

Next == Open \/ Seal \/ \E j \in Jobs : Accept(j) \/ Refuse(j) \/ Settle(j)

Spec == Init /\ [][Next]_<<fate, phase>>
==============================================================================
