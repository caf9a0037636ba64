---------------------------- MODULE PluginContract ----------------------------
(***************************************************************************)
(* What the plugin promises the broker that loads it, with no parts, steps *)
(* or pointers: it comes up whole or is refused; it takes events only      *)
(* while it serves, and turns one away only for lack of room; an event it  *)
(* took reaches NATS, or fails, at most once, and reaches it only before   *)
(* the plugin has stopped; and the process never goes down while the       *)
(* plugin serves, nor because it was refused.  An event is what the plugin *)
(* offers its publisher, after it has discarded what it will not send.     *)
(***************************************************************************)
EXTENDS Naturals, FiniteSets

CONSTANTS Jobs,       \* the events there may be
          MinBacklog  \* turning one away needs this many that are unsettled

VARIABLES status,     \* the plugin's, as the broker sees it
          fate        \* what has become of each event

Backlog == {j \in Jobs : fate[j] = "queued"}

Init == status = "starting" /\ fate = [j \in Jobs |-> "new"]

ComeUp == status = "starting" /\ status' \in {"serving", "refused"} /\ UNCHANGED fate

Take(j) == /\ status = "serving" /\ fate[j] = "new"
           /\ fate' = [fate EXCEPT ![j] = "queued"]
           /\ UNCHANGED status

TurnAway(j) == /\ status = "serving" /\ fate[j] = "new"
               /\ Cardinality(Backlog) >= MinBacklog
               /\ fate' = [fate EXCEPT ![j] = "refused"]
               /\ UNCHANGED status

Publish(j) == /\ status \in {"serving", "stopping"} /\ fate[j] = "queued"
              /\ fate' = [fate EXCEPT ![j] = "published"]
              /\ UNCHANGED status

Fail(j) == /\ status \in {"serving", "stopping", "stopped"} /\ fate[j] = "queued"
           /\ fate' = [fate EXCEPT ![j] = "failed"]
           /\ UNCHANGED status

Stop == /\ \/ status = "serving" /\ status' = "stopping"
           \/ status \in {"refused", "stopping"} /\ status' = "stopped"
        /\ UNCHANGED fate

Crash == /\ status \in {"starting", "stopping", "stopped"}
         /\ status' = "crashed" /\ UNCHANGED fate

Next == \/ ComeUp \/ Stop \/ Crash
        \/ \E j \in Jobs : Take(j) \/ TurnAway(j) \/ Publish(j) \/ Fail(j)

Spec == Init /\ [][Next]_<<status, fate>>
===============================================================================
