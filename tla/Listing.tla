------------------------------- MODULE Listing -------------------------------
(***************************************************************************)
(* What a shop shows: the phase each product is in, and the variants of it *)
(* that can be bought.  A product starts as a draft, is shown only with    *)
(* something to buy, is never a draft again and never comes back once it   *)
(* is gone.  ProductLifecycle shows that its transactions implement this.  *)
(***************************************************************************)
CONSTANTS Product, Variant

VARIABLES
    phase,      \* "none", "draft", "active", "inactive" or "gone"
    offers      \* the variants of each product that are for sale

vars == <<phase, offers>>

Init ==
    /\ phase = [p \in Product |-> "none"]
    /\ offers = [p \in Product |-> {}]

Create(p) ==
    /\ phase[p] = "none"
    /\ phase' = [phase EXCEPT ![p] = "draft"]
    /\ UNCHANGED offers

Publish(p) ==
    /\ phase[p] \in {"draft", "inactive"}
    /\ offers[p] # {}
    /\ phase' = [phase EXCEPT ![p] = "active"]
    /\ UNCHANGED offers

Unpublish(p) ==
    /\ phase[p] = "active"
    /\ phase' = [phase EXCEPT ![p] = "inactive"]
    /\ UNCHANGED offers

\* One variant comes up for sale or goes from it.  The last one of an active
\* product stays.
Offer(p, v) ==
    /\ phase[p] \in {"draft", "active", "inactive"}
    /\ \A q \in Product : v \notin offers[q]
    /\ offers' = [offers EXCEPT ![p] = @ \cup {v}]
    /\ UNCHANGED phase

Withdraw(p, v) ==
    /\ phase[p] \in {"draft", "active", "inactive"}
    /\ phase[p] = "active" => offers[p] \ {v} # {}
    /\ offers' = [offers EXCEPT ![p] = @ \ {v}]
    /\ UNCHANGED phase

Delete(p) ==
    /\ phase[p] \in {"draft", "active", "inactive"}
    /\ phase' = [phase EXCEPT ![p] = "gone"]
    /\ offers' = [offers EXCEPT ![p] = {}]

Next ==
    \E p \in Product :
        \/ Create(p) \/ Publish(p) \/ Unpublish(p) \/ Delete(p)
        \/ \E v \in Variant : Offer(p, v) \/ Withdraw(p, v)

Spec == Init /\ [][Next]_vars
=============================================================================
