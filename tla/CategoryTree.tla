---------------------------- MODULE CategoryTree ----------------------------
(***************************************************************************)
(* The category tree and the products that sit in it, as the platform's    *)
(* staff and the sellers change them at the same time.                     *)
(*                                                                         *)
(* Every request runs in one PostgreSQL transaction at READ COMMITTED: a   *)
(* statement sees what is committed when it starts, and what a request     *)
(* writes is seen by the others when it commits.  A step of this module is *)
(* one statement of a request (the lock it takes, the query it runs and    *)
(* the decision the service takes on the answer).  The row locks of        *)
(* category_repository.get_category are the only coordination there is.    *)
(*                                                                         *)
(* Names, positions and slugs are left out: no rule about the tree's shape *)
(* depends on them.                                                        *)
(***************************************************************************)
EXTENDS Integers, FiniteSets

CONSTANTS
    Category,   \* the ids a category may get, each used at most once (uuid)
    Request,    \* the requests that may be in flight at the same time
    Root,       \* parent_id IS NULL
    MaxDepth    \* CATEGORY_MAX_DEPTH

ASSUME CategoryTreeAssumption ==
    /\ Root \notin Category
    /\ IsFiniteSet(Category)
    /\ MaxDepth \in Nat \ {0}

VARIABLES
    live,       \* the rows of table categories
    deleted,    \* the ids of rows that were deleted
    parent,     \* parent_id of each row, Root for the others
    stocked,    \* categories some product row (deleted softly or not) refers to
    tx,         \* what each request has still to do and has read so far
    forUpdate,  \* the category rows each request has locked FOR UPDATE
    forShare,   \* the category rows each request has locked FOR SHARE
    crossed     \* history: the rules that moves under way together may have broken

vars == <<live, deleted, parent, stocked, tx, forUpdate, forShare, crossed>>
tree == <<live, deleted, parent, stocked>>

-----------------------------------------------------------------------------
(* The queries of category_repository.                                     *)

HasChildren(c) == \E d \in live : parent[d] = c
HasProducts(c) == c \in stocked

ClosedUpwards(S) == \A c \in S : parent[c] \in S \cup {Root}

\* ancestor_chain: the category itself, its parent, and so on.  The query
\* returns only if the walk ends at a root.
Chain(c) == {a \in Category : \A S \in SUBSET Category :
                                 c \in S /\ ClosedUpwards(S) => a \in S}
ChainEnds(c) == \E a \in Chain(c) : parent[a] = Root

\* subtree_height: the levels below a category, h if it has no descendant
\* deeper than h and one as deep.  The query returns only if the category is
\* not below itself.
Subtree(c) == {d \in live : c \in Chain(d)}
LevelsBelow(c, d) == Cardinality(Chain(d)) - Cardinality(Chain(c))
HeightIs(c, h) ==
    /\ \E d \in Subtree(c) : LevelsBelow(c, d) = h
    /\ \A d \in Subtree(c) : LevelsBelow(c, d) <= h
HeightEnds(c) == parent[c] = Root \/ c \notin Chain(parent[c])

-----------------------------------------------------------------------------
(* Requests.                                                               *)

Kinds == {"createRoot", "createChild", "edit", "moveToRoot", "move", "delete",
          "createProduct"}

\* The statement a request runs next.
Points == {"idle", "lockNode", "measure", "lockParent", "checkStock",
           "checkChain", "lockShared", "checkLeaf", "checkEmpty", "write"}

Idle == [pc |-> "idle", kind |-> "edit", node |-> Root, under |-> Root, height |-> 0]

Heights == 0 .. Cardinality(Category)

Transactions == [pc : Points, kind : Kinds, node : Category \cup {Root},
                 under : Category \cup {Root}, height : Heights]

\* The ids a client can name: those of rows that are or were there.
Known == live \cup deleted

\* Bound: a creation starts only while there is an unused id for it.
Creations == {r \in Request : tx[r].kind \in {"createRoot", "createChild"}}
IdsLeft == Cardinality(Creations) < Cardinality(Category \ Known)

Init ==
    /\ live = {} /\ deleted = {} /\ stocked = {}
    /\ parent = [c \in Category |-> Root]
    /\ tx = [r \in Request |-> Idle]
    /\ forUpdate = [r \in Request |-> {}]
    /\ forShare = [r \in Request |-> {}]
    /\ crossed = {}

At(r, point) == tx[r].pc = point
Busy(r) == ~At(r, "idle")
Goto(r, point) == tx' = [tx EXCEPT ![r].pc = point]

\* The transaction ends, by a commit or a rollback, and its locks with it.
End(r) ==
    /\ tx' = [tx EXCEPT ![r] = Idle]
    /\ forUpdate' = [forUpdate EXCEPT ![r] = {}]
    /\ forShare' = [forShare EXCEPT ![r] = {}]

\* An error raised by the service: the transaction is rolled back.
Refuse(r) == End(r) /\ UNCHANGED tree

Ask(r, kind, node, under, first) ==
    tx' = [tx EXCEPT ![r] = [pc |-> first, kind |-> kind, node |-> node,
                             under |-> under, height |-> 0]]

\* What a client can ask for, with the first statement of its handler.
Begin(r) ==
    /\ At(r, "idle")
    /\ \/ IdsLeft /\ Ask(r, "createRoot", Root, Root, "write")
       \/ IdsLeft /\ \E p \in Known : Ask(r, "createChild", Root, p, "lockParent")
       \/ \E kind \in {"edit", "moveToRoot", "delete"}, c \in Known :
             Ask(r, kind, c, Root, "lockNode")
       \/ \E c \in Known, p \in Known : Ask(r, "move", c, p, "lockNode")
       \/ \E c \in Known : Ask(r, "createProduct", c, Root, "lockShared")
    /\ UNCHANGED <<tree, forUpdate, forShare>>

\* Mutant: the row is read without FOR UPDATE.
ReadOnly(r, c, next) ==
    \/ c \notin live /\ Refuse(r)
    \/ c \in live /\ Goto(r, next) /\ UNCHANGED <<tree, forUpdate, forShare>>

\* get_category(lock="update"): waits for every other holder of the row, and
\* finds no row if a holder deleted it meanwhile.
LockForUpdate(r, c, next) ==
    \/ /\ c \notin live
       /\ Refuse(r)
    \/ /\ c \in live
       /\ \A q \in Request \ {r} : c \notin forUpdate[q] \cup forShare[q]
       /\ forUpdate' = [forUpdate EXCEPT ![r] = @ \cup {c}]
       /\ Goto(r, next)
       /\ UNCHANGED <<tree, forShare>>

\* get_category(lock="share"): waits only for the holders FOR UPDATE.
LockForShare(r, c, next) ==
    \/ /\ c \notin live
       /\ Refuse(r)
    \/ /\ c \in live
       /\ \A q \in Request \ {r} : c \notin forUpdate[q]
       /\ forShare' = [forShare EXCEPT ![r] = @ \cup {c}]
       /\ Goto(r, next)
       /\ UNCHANGED <<tree, forUpdate>>

\* The second statement of update_category and delete_category.
AfterNode(kind) ==
    CASE kind = "move"   -> "measure"
      [] kind = "delete" -> "checkLeaf"
      [] OTHER           -> "write"

LockNode(r) ==
    /\ At(r, "lockNode")
    /\ LockForUpdate(r, tx[r].node, AfterNode(tx[r].kind))

\* _check_can_move_under measures the subtree before the new parent is locked.
Measure(r) ==
    /\ At(r, "measure")
    /\ HeightEnds(tx[r].node)
    /\ \E h \in Heights :
          /\ HeightIs(tx[r].node, h)
          /\ tx' = [tx EXCEPT ![r].pc = "lockParent", ![r].height = h]
    /\ UNCHANGED <<tree, forUpdate, forShare>>

LockParent(r) ==
    /\ At(r, "lockParent")
    /\ LockForUpdate(r, tx[r].under, "checkStock")

CheckStock(r) ==
    /\ At(r, "checkStock")
    /\ \/ HasProducts(tx[r].under) /\ Refuse(r)
       \/ /\ ~HasProducts(tx[r].under)
          /\ Goto(r, "checkChain")
          /\ UNCHANGED <<tree, forUpdate, forShare>>

\* Mutants: the moved subtree counts for one level; the new parent itself is
\* not looked for, only what is above it.
TooDeepAlone(r) == Cardinality(Chain(tx[r].under)) + 1 > MaxDepth
LoopsAbove(r) == tx[r].kind = "move" /\ tx[r].node \in Chain(tx[r].under) \ {tx[r].under}

\* CategoryTooDeep, then (for a move) CategoryCycle.
TooDeep(r) == Cardinality(Chain(tx[r].under)) + 1 + tx[r].height > MaxDepth
ClosesLoop(r) == tx[r].kind = "move" /\ tx[r].node \in Chain(tx[r].under)

CheckChain(r) ==
    /\ At(r, "checkChain")
    /\ ChainEnds(tx[r].under)
    /\ \/ (TooDeep(r) \/ ClosesLoop(r)) /\ Refuse(r)
       \/ /\ ~TooDeep(r) /\ ~ClosesLoop(r)
          /\ Goto(r, "write")
          /\ UNCHANGED <<tree, forUpdate, forShare>>

\* has_children, of delete_category and of create_product.
CheckLeaf(r) ==
    /\ At(r, "checkLeaf")
    /\ \/ HasChildren(tx[r].node) /\ Refuse(r)
       \/ /\ ~HasChildren(tx[r].node)
          /\ Goto(r, IF tx[r].kind = "delete" THEN "checkEmpty" ELSE "write")
          /\ UNCHANGED <<tree, forUpdate, forShare>>

\* Mutant: has_products is not asked before the deletion.
SkipEmpty(r) ==
    /\ At(r, "checkEmpty")
    /\ Goto(r, "write")
    /\ UNCHANGED <<tree, forUpdate, forShare>>

CheckEmpty(r) ==
    /\ At(r, "checkEmpty")
    /\ \/ HasProducts(tx[r].node) /\ Refuse(r)
       \/ /\ ~HasProducts(tx[r].node)
          /\ Goto(r, "write")
          /\ UNCHANGED <<tree, forUpdate, forShare>>

LockShared(r) ==
    /\ At(r, "lockShared")
    /\ LockForShare(r, tx[r].node, "checkLeaf")

\* The last statement and the commit.  A row that is inserted or updated is
\* seen by no one before the commit, so the two are one step.
CreateCategory(r) ==
    /\ At(r, "write") /\ tx[r].kind \in {"createRoot", "createChild"}
    /\ \E c \in Category \ Known :
          /\ live' = live \cup {c}
          /\ parent' = [parent EXCEPT ![c] = tx[r].under]
    /\ End(r)
    /\ UNCHANGED <<deleted, stocked>>

\* A move to the root is checked against nothing; an edit keeps the parent.
UpdateCategory(r) ==
    /\ At(r, "write") /\ tx[r].kind \in {"edit", "move", "moveToRoot"}
    /\ parent' = IF tx[r].kind = "edit" THEN parent
                 ELSE [parent EXCEPT ![tx[r].node] = tx[r].under]
    /\ End(r)
    /\ UNCHANGED <<live, deleted, stocked>>

\* Mutant: the deletion names the parent's id instead of the category's.
DeleteParent(r) ==
    /\ At(r, "write") /\ tx[r].kind = "delete"
    /\ live' = live \ {parent[tx[r].node]}
    /\ deleted' = deleted \cup {parent[tx[r].node]}
    /\ parent' = [parent EXCEPT ![tx[r].node] = Root]
    /\ End(r)
    /\ UNCHANGED stocked

DeleteCategory(r) ==
    /\ At(r, "write") /\ tx[r].kind = "delete"
    /\ live' = live \ {tx[r].node}
    /\ deleted' = deleted \cup {tx[r].node}
    /\ parent' = [parent EXCEPT ![tx[r].node] = Root]
    /\ End(r)
    /\ UNCHANGED stocked

CreateProduct(r) ==
    /\ At(r, "write") /\ tx[r].kind = "createProduct"
    /\ stocked' = stocked \cup {tx[r].node}
    /\ End(r)
    /\ UNCHANGED <<live, deleted, parent>>

\* PostgreSQL makes the request the victim of a deadlock, a constraint refuses
\* the write, the brand or a value is refused, or the connection is lost.
Rollback(r) == ~At(r, "idle") /\ Refuse(r)

\* The statements of a request that is under way.
Statement(r) ==
    \/ LockNode(r) \/ Measure(r) \/ LockParent(r) \/ CheckStock(r) \/ CheckChain(r)
    \/ LockShared(r) \/ CheckLeaf(r) \/ CheckEmpty(r)
    \/ CreateCategory(r) \/ UpdateCategory(r) \/ DeleteCategory(r) \/ CreateProduct(r)

\* History: what a request of this kind may break together with those that are
\* under way when it begins.
Crossing(r, kind) ==
    {rule \in {"loop", "depth"} :
        \E q \in Request \ {r} :
            Busy(q) /\ \/ {kind, tx[q].kind} = {"move"}
                       \/ rule = "depth" /\ {kind, tx[q].kind} = {"move", "createChild"}}

Next ==
    \E r \in Request :
        \/ Begin(r) /\ crossed' = crossed \cup Crossing(r, tx'[r].kind)
        \/ (Statement(r) \/ Rollback(r)) /\ UNCHANGED crossed

Spec == Init /\ [][Next]_vars

-----------------------------------------------------------------------------
(* Properties.                                                             *)

\* Every variable keeps its shape.
StateOK ==
    /\ live \in SUBSET Category
    /\ deleted \in SUBSET Category
    /\ stocked \in SUBSET Category
    /\ parent \in [Category -> Category \cup {Root}]
    /\ tx \in [Request -> Transactions]
    /\ forUpdate \in [Request -> SUBSET Category]
    /\ forShare \in [Request -> SUBSET Category]

TypeOK == StateOK /\ crossed \in SUBSET {"loop", "depth"}

\* A category that holds products has no child.  create_category, a move and
\* create_product each check the other's half before they write theirs; only
\* the lock pair of get_category keeps both checks from passing.
LeafOnly == \A c \in stocked : ~HasChildren(c)

\* No row points at a deleted category: delete_category looks for children and
\* products first, and neither may appear between the look and the DELETE
\* (the foreign keys would otherwise turn the request into a server error).
NoDanglingRow ==
    /\ \A c \in live : parent[c] \in live \cup {Root}
    /\ stocked \subseteq live

\* What a request has checked is still so when it writes, whatever the other
\* requests committed in between: the parent is there and sells nothing, the
\* category that gets a product is a leaf, the one that goes is empty.
ChecksStillHold ==
    \A r \in Request : At(r, "write") =>
        /\ tx[r].kind \in {"createChild", "move"} =>
              tx[r].under \in live \ stocked
        /\ tx[r].kind \in {"createProduct", "delete"} =>
              tx[r].node \in live /\ ~HasChildren(tx[r].node)
        /\ tx[r].kind = "delete" => ~HasProducts(tx[r].node)
        /\ tx[r].kind \in {"edit", "move", "moveToRoot"} => tx[r].node \in live

\* A loop is a group of categories that are all below one another.
Loop(S) == S # {} /\ \A c \in S : parent[c] \in S

\* "It never contains a cycle" (category_service.py): the tree has no loop,
\* after any number of creations, moves and deletions.
Acyclic == \A S \in SUBSET live : ~Loop(S)

\* No category lies deeper than CATEGORY_MAX_DEPTH levels: neither a new
\* child nor the whole subtree of a moved category ends below it.
DepthBounded == \A c \in live : Cardinality(Chain(c)) <= MaxDepth

\* Neither is so when moves overlap.  As long as no move has run beside another
\* one, nothing closes a loop; as long as none has run beside another one or
\* beside the creation of a child, nothing makes the tree too deep.
AcyclicUntilMovesCross == "loop" \in crossed \/ Acyclic
DepthBoundedUntilMovesCross == "depth" \in crossed \/ DepthBounded

\* Whatever the requests do to one another between their statements, a commit
\* is one of the operations of CategoryRules, and its rule holds then.
Rules == INSTANCE CategoryRules
ImplementsRules == Rules!Spec
=============================================================================
