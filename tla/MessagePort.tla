---------------------------- MODULE MessagePort ----------------------------
(***************************************************************************)
(* What Messaging::AsyncPort promises to the threads that send messages    *)
(* through it: a message is delivered to the handlers at most once and in  *)
(* the order of sending, it is handled only after it was delivered, and a  *)
(* cancelled message that was still pending is never delivered.  Module    *)
(* HandlerThread shows that the port and its handler thread keep this.     *)
(***************************************************************************)
EXTENDS SequencesExt

CONSTANTS
    Messages,
    Delivers(_)     \* the messages a sent message carries: itself, or a batch

VARIABLES
    pending,        \* messages sent and not yet delivered, oldest first
    delivered,      \* messages the handlers have been shown
    handled         \* messages whose handled flag is set

vars == <<pending, delivered, handled>>

Init == pending = <<>> /\ delivered = {} /\ handled = {}

Send(m) ==
    /\ m \notin delivered \cup handled
    /\ pending' = Append(pending, m)
    /\ UNCHANGED <<delivered, handled>>

(* The handlers see the oldest message.  They may handle what it carries,  *)
(* leave it for later or ignore it.                                        *)
Deliver ==
    /\ pending # <<>>
    /\ Delivers(Head(pending)) \cap delivered = {}
    /\ pending' = Tail(pending)
    /\ delivered' = delivered \cup Delivers(Head(pending))
    /\ \E done \in SUBSET Delivers(Head(pending)) : handled' = handled \cup done

(* Messages left for later become handled.                                 *)
Complete ==
    /\ \E done \in SUBSET (delivered \ handled) : handled' = handled \cup done
    /\ UNCHANGED <<pending, delivered>>

Cancel(m) ==
    /\ \E i \in DOMAIN pending : pending[i] = m /\ pending' = RemoveAt(pending, i)
    /\ UNCHANGED <<delivered, handled>>

Next ==
    \/ \E m \in Messages : Send(m) \/ Cancel(m)
    \/ Deliver \/ Complete

Spec == Init /\ [][Next]_vars
=============================================================================
