--------------------------- MODULE OutboxContract ---------------------------
(***************************************************************************)
(* What the outbox promises its producers, without dispatchers, leases or  *)
(* clocks: at-least-once delivery with a verdict.  A pending event is      *)
(* tried again and again; it may be delivered by any try, more than once   *)
(* and late; "published" is said only of an event that was delivered and,  *)
(* when push was asked for, accepted by the push provider or waived, by a  *)
(* try that found no provider; "failed" only of one that was tried         *)
(* MaxAttempts times; and a verdict never goes back to pending.  The       *)
(* contract does not promise that the first verdict is the last one (a     *)
(* late delivery may still turn "failed" into "published"), nor any push   *)
(* of an event that was once waived.                                       *)
(***************************************************************************)
EXTENDS Integers

CONSTANTS Events, PushEvents, MaxAttempts

VARIABLES
    status,     \* what the event's row says
    tries,      \* how often it was tried
    delivered,  \* the events that reached the realtime transport
    accepted,   \* the events the push provider accepted
    waived      \* the events whose push a try went without, having no provider

vars == <<status, tries, delivered, accepted, waived>>

Init ==
    /\ status = [e \in Events |-> "absent"]
    /\ tries = [e \in Events |-> 0]
    /\ delivered = {}
    /\ accepted = {}
    /\ waived = {}

Submit(e) ==
    /\ status[e] = "absent"
    /\ status' = [status EXCEPT ![e] = "pending"]
    /\ UNCHANGED <<tries, delivered, accepted, waived>>

\* One dispatcher starts a try of each event of a batch.
Try(batch) ==
    /\ \A e \in batch : status[e] = "pending"
    /\ tries' = [e \in Events |-> IF e \in batch THEN tries[e] + 1 ELSE tries[e]]
    /\ UNCHANGED <<status, delivered, accepted, waived>>

Deliver(e) ==
    /\ tries[e] > 0
    /\ delivered' = delivered \cup {e}
    /\ UNCHANGED <<status, tries, accepted, waived>>

Accept(e) ==
    /\ e \in delivered
    /\ accepted' = accepted \cup {e}
    /\ UNCHANGED <<status, tries, delivered, waived>>

Waive(e) ==
    /\ e \in delivered
    /\ waived' = waived \cup {e}
    /\ UNCHANGED <<status, tries, delivered, accepted>>

Decide(e, verdict) ==
    /\ status[e] \in {"pending", "published", "failed"}
    /\ status' = [status EXCEPT ![e] = verdict]
    /\ UNCHANGED <<tries, delivered, accepted, waived>>

Succeed(e) ==
    /\ e \in delivered
    /\ e \in PushEvents => e \in accepted \cup waived
    /\ Decide(e, "published")

Abandon(e) ==
    /\ tries[e] >= MaxAttempts
    /\ Decide(e, "failed")

\* Retention, or the uninstallation of the events' module.
Remove(removed) ==
    /\ \A e \in removed : status[e] # "absent"
    /\ status' = [e \in Events |-> IF e \in removed THEN "gone" ELSE status[e]]
    /\ UNCHANGED <<tries, delivered, accepted, waived>>

Next ==
    \/ \E e \in Events : Submit(e) \/ Deliver(e) \/ Accept(e) \/ Waive(e) \/ Succeed(e)
                         \/ Abandon(e)
    \/ \E S \in SUBSET Events : Try(S) \/ Remove(S)

Spec == Init /\ [][Next]_vars
=============================================================================
