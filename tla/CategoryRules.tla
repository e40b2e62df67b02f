--------------------------- MODULE CategoryRules ----------------------------
(***************************************************************************)
(* What the catalog promises about categories and products when each       *)
(* operation is one indivisible step: a category that holds products is a  *)
(* leaf, a category with children or products stays, an id is used once.   *)
(* CategoryTree shows that the requests implement it with row locks alone. *)
(* The rules on loops and on depth are not here: the locks do not keep     *)
(* them between requests (see Acyclic and DepthBounded in CategoryTree).   *)
(***************************************************************************)
CONSTANTS Category, Root

VARIABLES live, deleted, parent, stocked

vars == <<live, deleted, parent, stocked>>

Init ==
    /\ live = {} /\ deleted = {} /\ stocked = {}
    /\ parent = [c \in Category |-> Root]

IsLeaf(c) == \A d \in live : parent[d] # c
CanHoldChild(p) == p = Root \/ p \in live \ stocked

Create(c, p) ==
    /\ c \notin live \cup deleted
    /\ CanHoldChild(p)
    /\ live' = live \cup {c}
    /\ parent' = [parent EXCEPT ![c] = p]
    /\ UNCHANGED <<deleted, stocked>>

Move(c, p) ==
    /\ c \in live
    /\ CanHoldChild(p)
    /\ parent' = [parent EXCEPT ![c] = p]
    /\ UNCHANGED <<live, deleted, stocked>>

Remove(c) ==
    /\ c \in live \ stocked
    /\ IsLeaf(c)
    /\ live' = live \ {c}
    /\ deleted' = deleted \cup {c}
    /\ parent' = [parent EXCEPT ![c] = Root]
    /\ UNCHANGED stocked

Stock(c) ==
    /\ c \in live
    /\ IsLeaf(c)
    /\ stocked' = stocked \cup {c}
    /\ UNCHANGED <<live, deleted, parent>>

Next ==
    \E c \in Category :
        \/ \E p \in Category \cup {Root} : Create(c, p) \/ Move(c, p)
        \/ Remove(c)
        \/ Stock(c)

Spec == Init /\ [][Next]_vars
=============================================================================
