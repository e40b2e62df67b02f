----------------------------- MODULE ImageLists ------------------------------
(***************************************************************************)
(* What a product promises about its images: one list for the product and  *)
(* one for each variant, none longer than its limit, that grow at the end, *)
(* are rearranged one image at a time, and end with the product or the     *)
(* variant.  ProductImages shows that its transactions implement this.     *)
(***************************************************************************)
EXTENDS Naturals, Sequences, SequencesExt

CONSTANTS Scope, Image, Limit(_)

VARIABLES
    list,       \* the images of each scope, in order
    closed      \* the scopes that are gone

vars == <<list, closed>>

Init == list = [s \in Scope |-> <<>>] /\ closed = {}

Add(s, i) ==
    /\ s \notin closed
    /\ Len(list[s]) < Limit(s)
    /\ \A t \in Scope : ~Contains(list[t], i)
    /\ list' = [list EXCEPT ![s] = Append(@, i)]
    /\ UNCHANGED closed

\* The image at index from comes to stand at index to.
Move(s, from, to) ==
    /\ list' = [list EXCEPT ![s] = InsertAt(RemoveAt(@, from), to, @[from])]
    /\ UNCHANGED closed

Take(s, at) ==
    /\ list' = [list EXCEPT ![s] = RemoveAt(@, at)]
    /\ UNCHANGED closed

Close(S) ==
    /\ list' = [s \in Scope |-> IF s \in S THEN <<>> ELSE list[s]]
    /\ closed' = closed \cup S

Next ==
    \/ \E s \in Scope, i \in Image : Add(s, i)
    \/ \E s \in Scope : \E from, to \in DOMAIN list[s] : Move(s, from, to)
    \/ \E s \in Scope : \E at \in DOMAIN list[s] : Take(s, at)
    \/ \E s \in Scope : Close({s})
    \/ Close(Scope)

Spec == Init /\ [][Next]_vars
=============================================================================
