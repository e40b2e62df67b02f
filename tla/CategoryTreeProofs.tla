------------------------- MODULE CategoryTreeProofs -------------------------
(***************************************************************************)
(* Proofs about CategoryTree, for every set of categories and of requests: *)
(* the leaf rule, no dangling row, the checks that still hold at the       *)
(* write, the implementation of CategoryRules; that only two moves at once *)
(* can close a loop, and that only a move beside another move or beside    *)
(* the creation of a child can make the tree too deep.                     *)
(***************************************************************************)
EXTENDS CategoryTree, FiniteSetTheorems, TLAPS

-----------------------------------------------------------------------------
(* The inductive invariant: where a request may be, which rows it has      *)
(* locked there, and what it has learnt about them.                        *)

ChildKinds == {"createChild", "move"}
NodeKinds == {"edit", "moveToRoot", "move", "delete"}

\* The statements each kind of request goes through.
WellFormed ==
    \A r \in Request :
        /\ At(r, "lockNode") => tx[r].kind \in NodeKinds
        /\ At(r, "measure") => tx[r].kind = "move"
        /\ (At(r, "lockParent") \/ At(r, "checkStock") \/ At(r, "checkChain"))
              => tx[r].kind \in ChildKinds
        /\ At(r, "lockShared") => tx[r].kind = "createProduct"
        /\ At(r, "checkLeaf") => tx[r].kind \in {"delete", "createProduct"}
        /\ At(r, "checkEmpty") => tx[r].kind = "delete"
        /\ ~At(r, "idle") =>
              /\ tx[r].kind \in ChildKinds <=> tx[r].under \in Category
              /\ tx[r].kind \in NodeKinds \cup {"createProduct"}
                    <=> tx[r].node \in Category

\* A row locked FOR UPDATE is locked by one request only, and a locked row is
\* not deleted by another.
LocksExclude ==
    /\ \A q, r \in Request : q # r =>
          \A c \in forUpdate[q] : c \notin forUpdate[r] /\ c \notin forShare[r]
    /\ \A r \in Request : \A c \in Category :
          c \in forUpdate[r] \/ c \in forShare[r] => c \in live

\* Past its lock statement a request holds the lock.
LocksHeld ==
    \A r \in Request :
        /\ tx[r].kind \in NodeKinds /\ ~At(r, "idle") /\ ~At(r, "lockNode")
              => tx[r].node \in forUpdate[r]
        /\ At(r, "checkStock") \/ At(r, "checkChain")
              \/ (At(r, "write") /\ tx[r].kind \in ChildKinds)
              => tx[r].under \in forUpdate[r]
        /\ tx[r].kind = "createProduct" /\ (At(r, "checkLeaf") \/ At(r, "write"))
              => tx[r].node \in forShare[r]

\* What a request was told stays true until it ends.
Learnt ==
    \A r \in Request :
        /\ At(r, "checkChain") \/ (At(r, "write") /\ tx[r].kind \in ChildKinds)
              => ~HasProducts(tx[r].under)
        /\ At(r, "checkEmpty")
              \/ (At(r, "write") /\ tx[r].kind \in {"delete", "createProduct"})
              => ~HasChildren(tx[r].node)
        /\ At(r, "write") /\ tx[r].kind = "delete" => ~HasProducts(tx[r].node)

IInv ==
    /\ StateOK /\ WellFormed /\ LocksExclude /\ LocksHeld /\ Learnt
    /\ LeafOnly /\ NoDanglingRow

-----------------------------------------------------------------------------
(* What a request may be, and the end of a transaction.                    *)

LEMMA HeightsType == Heights \subseteq Nat /\ 0 \in Heights
<1>1. Cardinality(Category) \in Nat
  BY CategoryTreeAssumption, FS_CardinalityType
<1> QED BY <1>1 DEF Heights

LEMMA IdleType == Idle \in Transactions
BY HeightsType DEF Idle, Transactions, Points, Kinds

\* A client names rows that are or were there, and the handler of what it asks
\* for begins with its lock.
LEMMA RequestType ==
    ASSUME StateOK, NEW r \in Request, Begin(r)
    PROVE  \E request \in Transactions :
              /\ tx' = [tx EXCEPT ![r] = request]
              /\ request.pc \in {"write", "lockParent", "lockNode", "lockShared"}
              /\ request.pc = "write" => request.kind = "createRoot"
              /\ request.pc = "lockParent" => request.kind = "createChild"
              /\ request.pc = "lockNode" => request.kind \in NodeKinds
              /\ request.pc = "lockShared" => request.kind = "createProduct"
              /\ request.kind \in ChildKinds <=> request.under \in Category
              /\ request.kind \in NodeKinds \cup {"createProduct"}
                    <=> request.node \in Category
<1>1. Known \subseteq Category
  BY DEF StateOK, Known
<1>2. 0 \in Heights
  BY HeightsType
<1>3. CASE Ask(r, "createRoot", Root, Root, "write")
  <2> DEFINE request == [pc |-> "write", kind |-> "createRoot", node |-> Root,
                      under |-> Root, height |-> 0]
  <2>2. request \in Transactions
    BY <1>2 DEF Transactions, Points, Kinds
  <2> WITNESS request \in Transactions
  <2> QED BY <1>3, CategoryTreeAssumption DEF Ask, ChildKinds, NodeKinds
<1>4. CASE \E p \in Known : Ask(r, "createChild", Root, p, "lockParent")
  <2>1. PICK p \in Category : Ask(r, "createChild", Root, p, "lockParent")
    BY <1>1, <1>4
  <2> DEFINE request == [pc |-> "lockParent", kind |-> "createChild", node |-> Root,
                      under |-> p, height |-> 0]
  <2>2. request \in Transactions
    BY <1>2, <2>1 DEF Transactions, Points, Kinds
  <2> WITNESS request \in Transactions
  <2> QED BY <2>1, CategoryTreeAssumption DEF Ask, ChildKinds, NodeKinds
<1>5. CASE \E kind \in {"edit", "moveToRoot", "delete"}, c \in Known :
             Ask(r, kind, c, Root, "lockNode")
  <2>1. PICK kind \in {"edit", "moveToRoot", "delete"}, c \in Category :
             Ask(r, kind, c, Root, "lockNode")
    BY <1>1, <1>5
  <2> DEFINE request == [pc |-> "lockNode", kind |-> kind, node |-> c,
                      under |-> Root, height |-> 0]
  <2>2. request \in Transactions
    BY <1>2, <2>1 DEF Transactions, Points, Kinds
  <2> WITNESS request \in Transactions
  <2> QED BY <2>1, CategoryTreeAssumption DEF Ask, ChildKinds, NodeKinds
<1>6. CASE \E c \in Known, p \in Known : Ask(r, "move", c, p, "lockNode")
  <2>1. PICK c \in Category, p \in Category : Ask(r, "move", c, p, "lockNode")
    BY <1>1, <1>6
  <2> DEFINE request == [pc |-> "lockNode", kind |-> "move", node |-> c,
                      under |-> p, height |-> 0]
  <2>2. request \in Transactions
    BY <1>2, <2>1 DEF Transactions, Points, Kinds
  <2> WITNESS request \in Transactions
  <2> QED BY <2>1, CategoryTreeAssumption DEF Ask, ChildKinds, NodeKinds
<1>7. CASE \E c \in Known : Ask(r, "createProduct", c, Root, "lockShared")
  <2>1. PICK c \in Category : Ask(r, "createProduct", c, Root, "lockShared")
    BY <1>1, <1>7
  <2> DEFINE request == [pc |-> "lockShared", kind |-> "createProduct", node |-> c,
                      under |-> Root, height |-> 0]
  <2>2. request \in Transactions
    BY <1>2, <2>1 DEF Transactions, Points, Kinds
  <2> WITNESS request \in Transactions
  <2> QED BY <2>1, CategoryTreeAssumption DEF Ask, ChildKinds, NodeKinds
<1> QED BY <1>3, <1>4, <1>5, <1>6, <1>7 DEF Begin

LEMMA GotoType ==
    ASSUME StateOK, NEW r \in Request, NEW point \in Points, Goto(r, point)
    PROVE  tx' \in [Request -> Transactions]
BY DEF StateOK, Goto, Transactions

\* What hangs a category under another goes on to a statement of its own.
LEMMA GotoWellFormed ==
    ASSUME StateOK, WellFormed, NEW r \in Request, tx[r].kind \in ChildKinds, ~At(r, "idle"),
           NEW point \in {"checkStock", "checkChain", "write"}, Goto(r, point)
    PROVE  WellFormed'
<1>1. /\ tx'[r].pc = point /\ tx'[r].kind = tx[r].kind
      /\ tx'[r].node = tx[r].node /\ tx'[r].under = tx[r].under
  BY DEF StateOK, Transactions, Goto
<1>2. \A q \in Request \ {r} : tx'[q] = tx[q]
  BY DEF StateOK, Goto
<1> QED BY <1>1, <1>2 DEF WellFormed, At

\* A request that has locked the new parent keeps its locks on the way to its
\* write.
LEMMA GotoLocksHeld ==
    ASSUME StateOK, LocksHeld, NEW r \in Request, tx[r].kind \in ChildKinds,
           At(r, "checkStock") \/ At(r, "checkChain"),
           NEW point \in {"checkChain", "write"}, Goto(r, point),
           UNCHANGED <<forUpdate, forShare>>
    PROVE  LocksHeld'
<1>1. /\ tx'[r].pc = point /\ tx'[r].kind = tx[r].kind
      /\ tx'[r].node = tx[r].node /\ tx'[r].under = tx[r].under
  BY DEF StateOK, Transactions, Goto
<1>2. \A q \in Request \ {r} : tx'[q] = tx[q]
  BY DEF StateOK, Goto
<1> QED BY <1>1, <1>2 DEF LocksHeld, At, ChildKinds, NodeKinds

LEMMA NodeType ==
    ASSUME StateOK, WellFormed, NEW r \in Request, ~At(r, "idle"),
           tx[r].kind \in NodeKinds \cup {"createProduct"}
    PROVE  tx[r].node \in Category
BY DEF WellFormed

\* A transaction that ends without having written disturbs nobody.
LEMMA RefuseStep ==
    ASSUME NEW r \in Request, IInv, Refuse(r)
    PROVE  IInv'
<1> USE CategoryTreeAssumption DEF IInv, At, Refuse, End, tree
<1>1. StateOK'
  BY IdleType DEF StateOK
<1>2. WellFormed'
  BY DEF WellFormed, StateOK, Idle
<1>3. LocksExclude'
  BY DEF LocksExclude, StateOK
<1>4. LocksHeld'
  BY DEF LocksHeld, StateOK, Idle
<1>5. Learnt'
  BY DEF Learnt, StateOK, Idle, HasChildren, HasProducts
<1>6. LeafOnly' /\ NoDanglingRow'
  BY DEF LeafOnly, NoDanglingRow, HasChildren
<1> QED BY <1>1, <1>2, <1>3, <1>4, <1>5, <1>6

-----------------------------------------------------------------------------
(* One lemma per statement of a request.                                   *)

LEMMA BeginStep ==
    ASSUME NEW r \in Request, IInv, Begin(r)
    PROVE  IInv'
<1> USE CategoryTreeAssumption DEF IInv, At
<1>1. PICK request \in Transactions :
         /\ tx' = [tx EXCEPT ![r] = request]
         /\ request.pc \in {"write", "lockParent", "lockNode", "lockShared"}
         /\ request.pc = "write" => request.kind = "createRoot"
         /\ request.pc = "lockParent" => request.kind = "createChild"
         /\ request.pc = "lockNode" => request.kind \in NodeKinds
         /\ request.pc = "lockShared" => request.kind = "createProduct"
         /\ request.kind \in ChildKinds <=> request.under \in Category
         /\ request.kind \in NodeKinds \cup {"createProduct"}
               <=> request.node \in Category
  BY RequestType
<1>2. UNCHANGED <<tree, forUpdate, forShare>>
  BY DEF Begin
<1>3. StateOK'
  BY <1>1, <1>2 DEF StateOK, tree
<1>4. WellFormed'
  BY <1>1, <1>2 DEF WellFormed, StateOK, ChildKinds, NodeKinds
<1>5. LocksExclude'
  BY <1>2 DEF LocksExclude, tree
<1>6. LocksHeld'
  BY <1>1, <1>2 DEF LocksHeld, StateOK, ChildKinds, NodeKinds
<1>7. Learnt'
  BY <1>1, <1>2 DEF Learnt, StateOK, ChildKinds, HasChildren, HasProducts, tree
<1>8. LeafOnly' /\ NoDanglingRow'
  BY <1>2 DEF LeafOnly, NoDanglingRow, HasChildren, tree
<1> QED BY <1>3, <1>4, <1>5, <1>6, <1>7, <1>8

LEMMA MeasuredType ==
    ASSUME NEW t \in Transactions, NEW point \in Points, NEW h \in Heights
    PROVE  [t EXCEPT !.pc = point, !.height = h] \in Transactions
BY DEF Transactions

LEMMA MeasureStep ==
    ASSUME NEW r \in Request, IInv, Measure(r)
    PROVE  IInv'
<1> USE CategoryTreeAssumption DEF IInv, At
<1>1. StateOK'
  <2>1. PICK h \in Heights :
           tx' = [tx EXCEPT ![r].pc = "lockParent", ![r].height = h]
    BY DEF Measure
  <2>2. [tx[r] EXCEPT !.pc = "lockParent", !.height = h] \in Transactions
    <3>1. tx[r] \in Transactions /\ "lockParent" \in Points
      BY DEF StateOK, Points
    <3> QED BY <3>1, MeasuredType
  <2>3. tx' \in [Request -> Transactions]
    BY <2>1, <2>2 DEF StateOK
  <2> QED BY <2>3 DEF Measure, StateOK, tree
<1>2. WellFormed'
  BY DEF Measure, tree, WellFormed, StateOK, Transactions, ChildKinds, NodeKinds, Kinds
<1>3. LocksExclude'
  BY DEF Measure, tree, LocksExclude, StateOK
<1>4. LocksHeld'
  BY DEF Measure, tree, LocksHeld, WellFormed, StateOK, Transactions, ChildKinds, NodeKinds
<1>5. Learnt'
  BY DEF Measure, tree, Learnt, LocksHeld, LocksExclude, WellFormed, StateOK, Transactions, ChildKinds, NodeKinds, HasChildren, HasProducts
<1>6. LeafOnly' /\ NoDanglingRow'
  BY DEF Measure, tree, Learnt, LeafOnly, NoDanglingRow, LocksHeld, LocksExclude, WellFormed, StateOK, Transactions, ChildKinds, NodeKinds, HasChildren, HasProducts
<1> QED BY <1>1, <1>2, <1>3, <1>4, <1>5, <1>6

LEMMA LockNodeStep ==
    ASSUME NEW r \in Request, IInv, LockNode(r)
    PROVE  IInv'
<1> USE CategoryTreeAssumption DEF IInv, At
<1>1. CASE Refuse(r)
  BY <1>1, RefuseStep
<1>2. CASE ~Refuse(r)
<2>1. StateOK'
  <3>1. AfterNode(tx[r].kind) \in Points /\ Goto(r, AfterNode(tx[r].kind))
    BY <1>2 DEF LockNode, LockForUpdate, AfterNode, Points
  <3>2. tx' \in [Request -> Transactions]
    BY <3>1, GotoType
  <3>3. /\ UNCHANGED <<tree, forShare>>
        /\ forUpdate' \in [Request -> SUBSET Category]
    BY <1>2 DEF LockNode, LockForUpdate, StateOK
  <3> QED BY <3>2, <3>3 DEF StateOK, tree
<2>2. WellFormed'
  BY <1>2 DEF LockNode, LockForUpdate, Goto, AfterNode, tree, WellFormed, StateOK, Transactions, ChildKinds, NodeKinds, Kinds
<2>3. LocksExclude'
  BY <1>2 DEF LockNode, LockForUpdate, Goto, AfterNode, tree, LocksExclude, StateOK
<2>4. LocksHeld'
  BY <1>2 DEF LockNode, LockForUpdate, Goto, AfterNode, tree, LocksHeld, WellFormed, StateOK, Transactions, ChildKinds, NodeKinds
<2>5. Learnt'
  BY <1>2 DEF LockNode, LockForUpdate, Goto, AfterNode, tree, Learnt, LocksHeld, LocksExclude, WellFormed, StateOK, Transactions, ChildKinds, NodeKinds, HasChildren, HasProducts
<2>6. LeafOnly' /\ NoDanglingRow'
  BY <1>2 DEF LockNode, LockForUpdate, Goto, AfterNode, tree, Learnt, LeafOnly, NoDanglingRow, LocksHeld, LocksExclude, WellFormed, StateOK, Transactions, ChildKinds, NodeKinds, HasChildren, HasProducts
<2> QED BY <2>1, <2>2, <2>3, <2>4, <2>5, <2>6
<1> QED BY <1>1, <1>2

LEMMA LockParentStep ==
    ASSUME NEW r \in Request, IInv, LockParent(r)
    PROVE  IInv'
<1> USE CategoryTreeAssumption DEF IInv, At
<1>1. CASE Refuse(r)
  BY <1>1, RefuseStep
<1>2. CASE ~Refuse(r)
<2>1. StateOK'
  <3>1. "checkStock" \in Points /\ Goto(r, "checkStock")
    BY <1>2 DEF LockParent, LockForUpdate, AfterNode, Points
  <3>2. tx' \in [Request -> Transactions]
    BY <3>1, GotoType
  <3>3. /\ UNCHANGED <<tree, forShare>>
        /\ forUpdate' \in [Request -> SUBSET Category]
    BY <1>2 DEF LockParent, LockForUpdate, StateOK
  <3> QED BY <3>2, <3>3 DEF StateOK, tree
<2>2. WellFormed'
  <3>1. Goto(r, "checkStock") /\ At(r, "lockParent")
    BY <1>2 DEF LockParent, LockForUpdate
  <3>2. tx[r].kind \in ChildKinds
    BY <3>1 DEF WellFormed
  <3> QED BY <3>1, <3>2, GotoWellFormed
<2>3. LocksExclude'
  BY <1>2 DEF LockParent, LockForUpdate, Goto, tree, LocksExclude, StateOK
<2>4. LocksHeld'
  <3>1. /\ tx' = [tx EXCEPT ![r].pc = "checkStock"]
        /\ forUpdate' = [forUpdate EXCEPT ![r] = @ \cup {tx[r].under}]
        /\ UNCHANGED forShare
    BY <1>2 DEF LockParent, LockForUpdate, Goto
  <3>2. At(r, "lockParent") /\ tx[r].kind \in ChildKinds
    BY DEF LockParent, WellFormed
  <3> QED BY <3>1, <3>2 DEF LocksHeld, StateOK, ChildKinds, NodeKinds
<2>5. Learnt'
  BY <1>2 DEF LockParent, LockForUpdate, Goto, tree, Learnt, LocksHeld, LocksExclude, WellFormed, StateOK, Transactions, ChildKinds, NodeKinds, HasChildren, HasProducts
<2>6. LeafOnly' /\ NoDanglingRow'
  BY <1>2 DEF LockParent, LockForUpdate, Goto, tree, Learnt, LeafOnly, NoDanglingRow, LocksHeld, LocksExclude, WellFormed, StateOK, Transactions, ChildKinds, NodeKinds, HasChildren, HasProducts
<2> QED BY <2>1, <2>2, <2>3, <2>4, <2>5, <2>6
<1> QED BY <1>1, <1>2

LEMMA CheckStockStep ==
    ASSUME NEW r \in Request, IInv, CheckStock(r)
    PROVE  IInv'
<1> USE CategoryTreeAssumption DEF IInv, At
<1>1. CASE Refuse(r)
  BY <1>1, RefuseStep
<1>2. CASE ~Refuse(r)
<2>1. StateOK'
  BY <1>2 DEF CheckStock, Goto, tree, StateOK, Transactions, Points, Kinds
<2>2. WellFormed'
  <3>1. Goto(r, "checkChain") /\ At(r, "checkStock")
    BY <1>2 DEF CheckStock
  <3>2. tx[r].kind \in ChildKinds
    BY <3>1 DEF WellFormed
  <3> QED BY <3>1, <3>2, GotoWellFormed
<2>3. LocksExclude'
  BY <1>2 DEF CheckStock, Goto, tree, LocksExclude, StateOK
<2>4. LocksHeld'
  <3>1. /\ Goto(r, "checkChain") /\ At(r, "checkStock")
        /\ UNCHANGED <<forUpdate, forShare>>
    BY <1>2 DEF CheckStock
  <3>2. tx[r].kind \in ChildKinds
    BY <3>1 DEF WellFormed
  <3> QED BY <3>1, <3>2, GotoLocksHeld
<2>5. Learnt'
  BY <1>2 DEF CheckStock, Goto, tree, Learnt, LocksHeld, LocksExclude, WellFormed, StateOK, Transactions, ChildKinds, NodeKinds, HasChildren, HasProducts
<2>6. LeafOnly' /\ NoDanglingRow'
  BY <1>2 DEF CheckStock, Goto, tree, Learnt, LeafOnly, NoDanglingRow, LocksHeld, LocksExclude, WellFormed, StateOK, Transactions, ChildKinds, NodeKinds, HasChildren, HasProducts
<2> QED BY <2>1, <2>2, <2>3, <2>4, <2>5, <2>6
<1> QED BY <1>1, <1>2

LEMMA CheckChainStep ==
    ASSUME NEW r \in Request, IInv, CheckChain(r)
    PROVE  IInv'
<1> USE CategoryTreeAssumption DEF IInv, At
<1>1. CASE Refuse(r)
  BY <1>1, RefuseStep
<1>2. CASE ~Refuse(r)
<2>1. StateOK'
  BY <1>2 DEF CheckChain, Goto, tree, StateOK, Transactions, Points, Kinds
<2>2. WellFormed'
  <3>1. Goto(r, "write") /\ At(r, "checkChain")
    BY <1>2 DEF CheckChain
  <3>2. tx[r].kind \in ChildKinds
    BY <3>1 DEF WellFormed
  <3> QED BY <3>1, <3>2, GotoWellFormed
<2>3. LocksExclude'
  BY <1>2 DEF CheckChain, Goto, tree, LocksExclude, StateOK
<2>4. LocksHeld'
  <3>1. /\ Goto(r, "write") /\ At(r, "checkChain")
        /\ UNCHANGED <<forUpdate, forShare>>
    BY <1>2 DEF CheckChain
  <3>2. tx[r].kind \in ChildKinds
    BY <3>1 DEF WellFormed
  <3> QED BY <3>1, <3>2, GotoLocksHeld
<2>5. Learnt'
  BY <1>2 DEF CheckChain, Goto, tree, Learnt, LocksHeld, LocksExclude, WellFormed, StateOK, Transactions, ChildKinds, NodeKinds, HasChildren, HasProducts
<2>6. LeafOnly' /\ NoDanglingRow'
  BY <1>2 DEF CheckChain, Goto, tree, Learnt, LeafOnly, NoDanglingRow, LocksHeld, LocksExclude, WellFormed, StateOK, Transactions, ChildKinds, NodeKinds, HasChildren, HasProducts
<2> QED BY <2>1, <2>2, <2>3, <2>4, <2>5, <2>6
<1> QED BY <1>1, <1>2

LEMMA LockSharedStep ==
    ASSUME NEW r \in Request, IInv, LockShared(r)
    PROVE  IInv'
<1> USE CategoryTreeAssumption DEF IInv, At
<1>1. CASE Refuse(r)
  BY <1>1, RefuseStep
<1>2. CASE ~Refuse(r)
<2>1. StateOK'
  <3>1. "checkLeaf" \in Points /\ Goto(r, "checkLeaf")
    BY <1>2 DEF LockShared, LockForShare, Points
  <3>2. tx' \in [Request -> Transactions]
    BY <3>1, GotoType
  <3>3. /\ UNCHANGED <<tree, forUpdate>>
        /\ forShare' \in [Request -> SUBSET Category]
    BY <1>2 DEF LockShared, LockForShare, StateOK
  <3> QED BY <3>2, <3>3 DEF StateOK, tree
<2>2. WellFormed'
  BY <1>2 DEF LockShared, LockForShare, Goto, tree, WellFormed, StateOK, Transactions, ChildKinds, NodeKinds, Kinds
<2>3. LocksExclude'
  BY <1>2 DEF LockShared, LockForShare, Goto, tree, LocksExclude, StateOK
<2>4. LocksHeld'
  BY <1>2 DEF LockShared, LockForShare, Goto, tree, LocksHeld, WellFormed, StateOK, Transactions, ChildKinds, NodeKinds
<2>5. Learnt'
  BY <1>2 DEF LockShared, LockForShare, Goto, tree, Learnt, LocksHeld, LocksExclude, WellFormed, StateOK, Transactions, ChildKinds, NodeKinds, HasChildren, HasProducts
<2>6. LeafOnly' /\ NoDanglingRow'
  BY <1>2 DEF LockShared, LockForShare, Goto, tree, Learnt, LeafOnly, NoDanglingRow, LocksHeld, LocksExclude, WellFormed, StateOK, Transactions, ChildKinds, NodeKinds, HasChildren, HasProducts
<2> QED BY <2>1, <2>2, <2>3, <2>4, <2>5, <2>6
<1> QED BY <1>1, <1>2

LEMMA CheckLeafStep ==
    ASSUME NEW r \in Request, IInv, CheckLeaf(r)
    PROVE  IInv'
<1> USE CategoryTreeAssumption DEF IInv, At
<1>1. CASE Refuse(r)
  BY <1>1, RefuseStep
<1>2. CASE ~Refuse(r)
<2>1. StateOK'
  BY <1>2 DEF CheckLeaf, Goto, tree, StateOK, Transactions, Points, Kinds
<2>2. WellFormed'
  BY <1>2 DEF CheckLeaf, Goto, tree, WellFormed, StateOK, Transactions, ChildKinds, NodeKinds, Kinds
<2>3. LocksExclude'
  BY <1>2 DEF CheckLeaf, Goto, tree, LocksExclude, StateOK
<2>4. LocksHeld'
  BY <1>2 DEF CheckLeaf, Goto, tree, LocksHeld, WellFormed, StateOK, Transactions, ChildKinds, NodeKinds
<2>5. Learnt'
  BY <1>2 DEF CheckLeaf, Goto, tree, Learnt, LocksHeld, LocksExclude, WellFormed, StateOK, Transactions, ChildKinds, NodeKinds, HasChildren, HasProducts
<2>6. LeafOnly' /\ NoDanglingRow'
  BY <1>2 DEF CheckLeaf, Goto, tree, Learnt, LeafOnly, NoDanglingRow, LocksHeld, LocksExclude, WellFormed, StateOK, Transactions, ChildKinds, NodeKinds, HasChildren, HasProducts
<2> QED BY <2>1, <2>2, <2>3, <2>4, <2>5, <2>6
<1> QED BY <1>1, <1>2

LEMMA CheckEmptyStep ==
    ASSUME NEW r \in Request, IInv, CheckEmpty(r)
    PROVE  IInv'
<1> USE CategoryTreeAssumption DEF IInv, At
<1>1. CASE Refuse(r)
  BY <1>1, RefuseStep
<1>2. CASE ~Refuse(r)
<2>1. StateOK'
  BY <1>2 DEF CheckEmpty, Goto, tree, StateOK, Transactions, Points, Kinds
<2>2. WellFormed'
  BY <1>2 DEF CheckEmpty, Goto, tree, WellFormed, StateOK, Transactions, ChildKinds, NodeKinds, Kinds
<2>3. LocksExclude'
  BY <1>2 DEF CheckEmpty, Goto, tree, LocksExclude, StateOK
<2>4. LocksHeld'
  BY <1>2 DEF CheckEmpty, Goto, tree, LocksHeld, WellFormed, StateOK, Transactions, ChildKinds, NodeKinds
<2>5. Learnt'
  BY <1>2 DEF CheckEmpty, Goto, tree, Learnt, LocksHeld, LocksExclude, WellFormed, StateOK, Transactions, ChildKinds, NodeKinds, HasChildren, HasProducts
<2>6. LeafOnly' /\ NoDanglingRow'
  BY <1>2 DEF CheckEmpty, Goto, tree, Learnt, LeafOnly, NoDanglingRow, LocksHeld, LocksExclude, WellFormed, StateOK, Transactions, ChildKinds, NodeKinds, HasChildren, HasProducts
<2> QED BY <2>1, <2>2, <2>3, <2>4, <2>5, <2>6
<1> QED BY <1>1, <1>2

LEMMA CreateCategoryStep ==
    ASSUME NEW r \in Request, IInv, CreateCategory(r)
    PROVE  IInv'
<1> USE CategoryTreeAssumption DEF IInv, At
<1>1. StateOK'
  BY IdleType DEF CreateCategory, End, Idle, Known, StateOK, Transactions, Points, Kinds
<1>2. WellFormed'
  BY IdleType DEF CreateCategory, End, Idle, Known, WellFormed, StateOK, Transactions, ChildKinds, NodeKinds, Kinds
<1>3. LocksExclude'
  BY IdleType DEF CreateCategory, End, Idle, Known, LocksExclude, StateOK
<1>4. LocksHeld'
  BY IdleType DEF CreateCategory, End, Idle, Known, LocksHeld, WellFormed, StateOK, Transactions, ChildKinds, NodeKinds
<1>5. Learnt'
  BY IdleType DEF CreateCategory, End, Idle, Known, Learnt, LocksHeld, LocksExclude, WellFormed, StateOK, Transactions, ChildKinds, NodeKinds, HasChildren, HasProducts
<1>6. LeafOnly' /\ NoDanglingRow'
  BY IdleType DEF CreateCategory, End, Idle, Known, Learnt, LeafOnly, NoDanglingRow, LocksHeld, LocksExclude, WellFormed, StateOK, Transactions, ChildKinds, NodeKinds, HasChildren, HasProducts
<1> QED BY <1>1, <1>2, <1>3, <1>4, <1>5, <1>6

LEMMA UpdateCategoryStep ==
    ASSUME NEW r \in Request, IInv, UpdateCategory(r)
    PROVE  IInv'
<1> USE CategoryTreeAssumption DEF IInv, At
<1>1. StateOK'
  BY IdleType DEF UpdateCategory, End, Idle, StateOK, Transactions, Points, Kinds
<1>2. WellFormed'
  BY IdleType DEF UpdateCategory, End, Idle, WellFormed, StateOK, Transactions, ChildKinds, NodeKinds, Kinds
<1>3. LocksExclude'
  BY IdleType DEF UpdateCategory, End, Idle, LocksExclude, StateOK
<1>4. LocksHeld'
  BY IdleType DEF UpdateCategory, End, Idle, LocksHeld, WellFormed, StateOK, Transactions, ChildKinds, NodeKinds
<1>5. Learnt'
  BY IdleType DEF UpdateCategory, End, Idle, Learnt, LocksHeld, LocksExclude, WellFormed, StateOK, Transactions, ChildKinds, NodeKinds, HasChildren, HasProducts
<1>6. LeafOnly' /\ NoDanglingRow'
  BY IdleType DEF UpdateCategory, End, Idle, Learnt, LeafOnly, NoDanglingRow, LocksHeld, LocksExclude, WellFormed, StateOK, Transactions, ChildKinds, NodeKinds, HasChildren, HasProducts
<1> QED BY <1>1, <1>2, <1>3, <1>4, <1>5, <1>6

LEMMA DeleteCategoryStep ==
    ASSUME NEW r \in Request, IInv, DeleteCategory(r)
    PROVE  IInv'
<1> USE CategoryTreeAssumption DEF IInv, At
<1>1. StateOK'
  <2>1. tx[r].node \in Category
    BY NodeType DEF DeleteCategory, NodeKinds
  <2> QED BY <2>1, IdleType DEF DeleteCategory, End, StateOK
<1>2. WellFormed'
  BY IdleType DEF DeleteCategory, End, Idle, WellFormed, StateOK, Transactions, ChildKinds, NodeKinds, Kinds
<1>3. LocksExclude'
  BY IdleType DEF DeleteCategory, End, Idle, LocksExclude, StateOK, LocksHeld, WellFormed, ChildKinds, NodeKinds
<1>4. LocksHeld'
  BY IdleType DEF DeleteCategory, End, Idle, LocksHeld, WellFormed, StateOK, Transactions, ChildKinds, NodeKinds
<1>5. Learnt'
  BY IdleType DEF DeleteCategory, End, Idle, Learnt, LocksHeld, LocksExclude, WellFormed, StateOK, Transactions, ChildKinds, NodeKinds, HasChildren, HasProducts
<1>6. LeafOnly' /\ NoDanglingRow'
  BY IdleType DEF DeleteCategory, End, Idle, Learnt, LeafOnly, NoDanglingRow, LocksHeld, LocksExclude, WellFormed, StateOK, Transactions, ChildKinds, NodeKinds, HasChildren, HasProducts
<1> QED BY <1>1, <1>2, <1>3, <1>4, <1>5, <1>6

LEMMA CreateProductStep ==
    ASSUME NEW r \in Request, IInv, CreateProduct(r)
    PROVE  IInv'
<1> USE CategoryTreeAssumption DEF IInv, At
<1>1. StateOK'
  <2>1. tx[r].node \in Category
    BY NodeType DEF CreateProduct, NodeKinds
  <2> QED BY <2>1, IdleType DEF CreateProduct, End, StateOK
<1>2. WellFormed'
  BY IdleType DEF CreateProduct, End, Idle, WellFormed, StateOK, Transactions, ChildKinds, NodeKinds, Kinds
<1>3. LocksExclude'
  BY IdleType DEF CreateProduct, End, Idle, LocksExclude, StateOK
<1>4. LocksHeld'
  BY IdleType DEF CreateProduct, End, Idle, LocksHeld, WellFormed, StateOK, Transactions, ChildKinds, NodeKinds
<1>5. Learnt'
  BY IdleType DEF CreateProduct, End, Idle, Learnt, LocksHeld, LocksExclude, WellFormed, StateOK, Transactions, ChildKinds, NodeKinds, HasChildren, HasProducts
<1>6. LeafOnly' /\ NoDanglingRow'
  BY IdleType DEF CreateProduct, End, Idle, Learnt, LeafOnly, NoDanglingRow, LocksHeld, LocksExclude, WellFormed, StateOK, Transactions, ChildKinds, NodeKinds, HasChildren, HasProducts
<1> QED BY <1>1, <1>2, <1>3, <1>4, <1>5, <1>6

LEMMA RollbackStep ==
    ASSUME NEW r \in Request, IInv, Rollback(r)
    PROVE  IInv'
BY RefuseStep DEF Rollback

-----------------------------------------------------------------------------
(* The invariant, and what follows from it.                                *)

LEMMA InitIInv == Init => IInv
<1> SUFFICES ASSUME Init PROVE IInv
  OBVIOUS
<1> USE DEF Init, At
<1>1. StateOK
  BY IdleType DEF StateOK
<1>2. WellFormed
  BY DEF WellFormed, Idle
<1>3. LocksExclude
  BY DEF LocksExclude
<1>4. LocksHeld
  BY DEF LocksHeld, Idle
<1>5. Learnt
  BY DEF Learnt, Idle
<1>6. LeafOnly /\ NoDanglingRow
  BY DEF LeafOnly, NoDanglingRow
<1> QED BY <1>1, <1>2, <1>3, <1>4, <1>5, <1>6 DEF IInv

LEMMA RequestStep ==
    ASSUME IInv, NEW r \in Request, Begin(r) \/ Statement(r) \/ Rollback(r)
    PROVE  IInv'
<1>1. CASE Begin(r)
  BY <1>1, BeginStep
<1>2. CASE Statement(r)
  BY <1>2, LockNodeStep, MeasureStep, LockParentStep, CheckStockStep, CheckChainStep,
     LockSharedStep, CheckLeafStep, CheckEmptyStep, CreateCategoryStep,
     UpdateCategoryStep, DeleteCategoryStep, CreateProductStep DEF Statement
<1>3. CASE Rollback(r)
  BY <1>3, RollbackStep
<1> QED BY <1>1, <1>2, <1>3

LEMMA StepIInv == IInv /\ [Next]_vars => IInv'
<1> SUFFICES ASSUME IInv, [Next]_vars PROVE IInv'
  OBVIOUS
<1>1. CASE Next
  BY <1>1, RequestStep DEF Next
<1>2. CASE UNCHANGED vars
  <2>1. UNCHANGED <<live, deleted, parent, stocked, tx, forUpdate, forShare>>
    BY <1>2 DEF vars
  <2>2. StateOK' /\ WellFormed' /\ LocksExclude' /\ LocksHeld'
    BY <2>1 DEF IInv, StateOK, WellFormed, LocksExclude, LocksHeld, At
  <2>3. Learnt' /\ LeafOnly' /\ NoDanglingRow'
    BY <2>1 DEF IInv, Learnt, LeafOnly, NoDanglingRow, At, HasChildren, HasProducts
  <2> QED BY <2>2, <2>3 DEF IInv
<1> QED BY <1>1, <1>2

LEMMA Inductive == Spec => []IInv
BY InitIInv, StepIInv, PTL DEF Spec

\* Every variable keeps its shape in every behaviour.
THEOREM TypeCorrect == Spec => []TypeOK
<1> DEFINE Crossed == crossed \in SUBSET {"loop", "depth"}
<1>1. Init => Crossed
  BY DEF Init
<1>2. Crossed /\ [Next]_vars => Crossed'
  BY DEF Next, Crossing, vars
<1>3. IInv /\ Crossed => TypeOK
  BY DEF IInv, TypeOK
<1> QED BY <1>1, <1>2, <1>3, Inductive, PTL DEF Spec

\* The FOR UPDATE / FOR SHARE pair of get_category keeps "has children" and
\* "has products" apart, however many requests run and however they interleave.
THEOREM LeafRule == Spec => []LeafOnly
<1>1. IInv => LeafOnly
  BY DEF IInv
<1> QED BY <1>1, Inductive, PTL

\* delete_category never leaves a child or a product without its category.
THEOREM RowsStayAttached == Spec => []NoDanglingRow
<1>1. IInv => NoDanglingRow
  BY DEF IInv
<1> QED BY <1>1, Inductive, PTL

\* What the statements of a request have checked still holds at its write.
THEOREM ChecksHoldAtWrite == Spec => []ChecksStillHold
<1>1. IInv => ChecksStillHold
  <2> SUFFICES ASSUME IInv, NEW r \in Request, At(r, "write")
               PROVE  /\ tx[r].kind \in {"createChild", "move"} =>
                            tx[r].under \in live \ stocked
                      /\ tx[r].kind \in {"createProduct", "delete"} =>
                            tx[r].node \in live /\ ~HasChildren(tx[r].node)
                      /\ tx[r].kind = "delete" => ~HasProducts(tx[r].node)
                      /\ tx[r].kind \in {"edit", "move", "moveToRoot"} =>
                            tx[r].node \in live
    BY DEF ChecksStillHold
  <2>1. tx[r].kind \in NodeKinds \cup {"createProduct"} => tx[r].node \in live
    BY NodeType DEF IInv, LocksHeld, LocksExclude, NodeKinds, At
  <2>2. tx[r].kind \in ChildKinds => tx[r].under \in live \ stocked
    BY DEF IInv, LocksHeld, LocksExclude, Learnt, WellFormed, ChildKinds, At, HasProducts
  <2>3. tx[r].kind \in {"createProduct", "delete"} => ~HasChildren(tx[r].node)
    BY DEF IInv, Learnt
  <2>4. tx[r].kind = "delete" => ~HasProducts(tx[r].node)
    BY DEF IInv, Learnt
  <2> QED BY <2>1, <2>2, <2>3, <2>4 DEF ChildKinds, NodeKinds
<1> QED BY <1>1, Inductive, PTL

-----------------------------------------------------------------------------
(* CategoryTree implements CategoryRules: every statement but the last of a *)
(* request changes no row, and the last is an operation whose rule holds.   *)

LEMMA RulesStep == IInv /\ [Next]_vars => [Rules!Next]_(Rules!vars)
<1> SUFFICES ASSUME IInv, [Next]_vars
             PROVE  Rules!Next \/ UNCHANGED tree
  BY DEF Rules!vars, tree
<1> USE DEF IInv, At, Rules!Next, Rules!IsLeaf, Rules!CanHoldChild
<1>1. ASSUME NEW r \in Request, CreateCategory(r)
      PROVE  \E c \in Category, p \in Category \cup {Root} : Rules!Create(c, p)
  <2>1. tx[r].under \in Category \cup {Root}
    BY <1>1 DEF StateOK, Transactions
  <2>2. Rules!CanHoldChild(tx[r].under)
    BY <1>1, <2>1 DEF CreateCategory, WellFormed, LocksHeld, LocksExclude, Learnt,
       ChildKinds, HasProducts
  <2> QED BY <1>1, <2>1, <2>2 DEF CreateCategory, Rules!Create, Known
<1>2. ASSUME NEW r \in Request, UpdateCategory(r), tx[r].kind # "edit"
      PROVE  \E c \in Category, p \in Category \cup {Root} : Rules!Move(c, p)
  <2>1. tx[r].under \in Category \cup {Root}
    BY <1>2 DEF StateOK, Transactions
  <2>2. tx[r].node \in Category /\ tx[r].node \in live
    BY <1>2, NodeType DEF UpdateCategory, LocksHeld, LocksExclude, NodeKinds
  <2>3. Rules!CanHoldChild(tx[r].under)
    BY <1>2, <2>1 DEF UpdateCategory, WellFormed, LocksHeld, LocksExclude, Learnt,
       ChildKinds, HasProducts
  <2> QED BY <1>2, <2>1, <2>2, <2>3 DEF UpdateCategory, Rules!Move
<1>3. ASSUME NEW r \in Request, DeleteCategory(r)
      PROVE  \E c \in Category : Rules!Remove(c)
  <2>1. tx[r].node \in Category /\ tx[r].node \in live
    BY <1>3, NodeType DEF DeleteCategory, LocksHeld, LocksExclude, NodeKinds
  <2> QED BY <1>3, <2>1 DEF DeleteCategory, Rules!Remove, Learnt, HasChildren, HasProducts
<1>4. ASSUME NEW r \in Request, CreateProduct(r)
      PROVE  \E c \in Category : Rules!Stock(c)
  <2>1. tx[r].node \in Category /\ tx[r].node \in live
    BY <1>4, NodeType DEF CreateProduct, LocksHeld, LocksExclude
  <2> QED BY <1>4, <2>1 DEF CreateProduct, Rules!Stock, Learnt, HasChildren
<1>5. ASSUME NEW r \in Request, Begin(r) \/ Rollback(r)
      PROVE  UNCHANGED tree
  BY <1>5 DEF Begin, Rollback, Refuse, tree
<1>6. ASSUME NEW r \in Request,
             \/ LockNode(r) \/ Measure(r) \/ LockParent(r) \/ CheckStock(r)
             \/ CheckChain(r) \/ LockShared(r) \/ CheckLeaf(r) \/ CheckEmpty(r)
      PROVE  UNCHANGED tree
  BY <1>6 DEF LockNode, Measure, LockParent, CheckStock, CheckChain, LockShared,
     CheckLeaf, CheckEmpty, LockForUpdate, LockForShare, Refuse, tree
<1>7. ASSUME NEW r \in Request, UpdateCategory(r), tx[r].kind = "edit"
      PROVE  UNCHANGED tree
  BY <1>7 DEF UpdateCategory, tree
<1>8. CASE UNCHANGED vars
  BY <1>8 DEF vars, tree
<1> QED BY <1>1, <1>2, <1>3, <1>4, <1>5, <1>6, <1>7, <1>8 DEF Next, Statement

\* Seen through its rows, the category tree behaves as if every operation were
\* one indivisible step that checks its rule and writes.
THEOREM ImplementsCategoryRules == Spec => ImplementsRules
<1>1. Init => Rules!Init
  BY DEF Init, Rules!Init
<1> QED BY <1>1, RulesStep, Inductive, PTL DEF Spec, ImplementsRules, Rules!Spec

-----------------------------------------------------------------------------
(* No loop, unless two moves overlap.  Both services read ancestor_chain    *)
(* before they write, and neither locks the chain they have read.           *)

\* The answer of the cycle check still describes the tree at the write.
MoveIsSafe ==
    \A r \in Request : At(r, "write") /\ tx[r].kind = "move"
                          => tx[r].node \notin Chain(tx[r].under)

\* A chain stays inside every set that holds its first category and, of each
\* member, the parent: in this state, and in the next.
LEMMA ChainWithin ==
    ASSUME NEW c \in Category, NEW S \in SUBSET Category, c \in S
    PROVE  /\ ClosedUpwards(S) => Chain(c) \subseteq S
           /\ (\A a \in S : parent'[a] \in S \cup {Root}) => Chain(c)' \subseteq S
BY DEF Chain, ClosedUpwards

\* A chain holds its first category and the parent of each of its members.
LEMMA ChainFacts ==
    ASSUME StateOK, NEW c \in Category
    PROVE  /\ c \in Chain(c)
           /\ \A a \in Chain(c) : parent[a] \in Chain(c) \cup {Root}
<1>1. c \in Chain(c)
  BY DEF Chain
<1>2. ASSUME NEW a \in Chain(c), parent[a] # Root
      PROVE  parent[a] \in Chain(c)
  <2>1. a \in Category /\ parent[a] \in Category
    BY <1>2 DEF Chain, StateOK
  <2>2. ASSUME NEW S \in SUBSET Category, c \in S, ClosedUpwards(S)
        PROVE  parent[a] \in S
    <3>1. a \in S
      BY <2>2 DEF Chain
    <3> QED BY <1>2, <2>2, <3>1 DEF ClosedUpwards
  <2> QED BY <2>1, <2>2 DEF Chain
<1> QED BY <1>1, <1>2

LEMMA CreateKeepsAcyclic ==
    ASSUME IInv, Acyclic, NEW r \in Request, CreateCategory(r)
    PROVE  Acyclic'
<1>1. PICK c \in Category \ Known : /\ live' = live \cup {c}
                                     /\ parent' = [parent EXCEPT ![c] = tx[r].under]
  BY DEF CreateCategory
<1>2. tx[r].under \in live \cup {Root}
  BY DEF IInv, CreateCategory, WellFormed, LocksHeld, LocksExclude, At, StateOK,
     Transactions, ChildKinds
<1>3. Root \notin live' /\ c \notin live
  BY <1>1, CategoryTreeAssumption DEF IInv, StateOK, Known
<1> SUFFICES ASSUME NEW S \in SUBSET live', Loop(S)' PROVE FALSE
  BY DEF Acyclic
<1>4. \A d \in S : parent'[d] \in S
  BY DEF Loop
<1>5. \A d \in S \ {c} : d \in live /\ parent[d] \in S \ {c}
  <2> SUFFICES ASSUME NEW d \in S \ {c} PROVE d \in live /\ parent[d] \in S \ {c}
    OBVIOUS
  <2>1. d \in live /\ d \in Category /\ parent'[d] = parent[d]
    BY <1>1 DEF IInv, StateOK
  <2>2. parent[d] \in live \cup {Root}
    BY <2>1 DEF IInv, NoDanglingRow
  <2> QED BY <1>3, <1>4, <2>1, <2>2
<1>6. S \ {c} # {}
  <2>1. PICK d \in S : TRUE
    BY DEF Loop
  <2>2. CASE d # c
    BY <2>2
  <2>3. CASE d = c
    <3>1. parent'[c] = tx[r].under
      BY <1>1 DEF IInv, StateOK
    <3> QED BY <1>2, <1>3, <1>4, <2>3, <3>1
  <2> QED BY <2>2, <2>3
<1>7. Loop(S \ {c})
  BY <1>5, <1>6 DEF Loop
<1> QED BY <1>5, <1>7 DEF Acyclic

\* A loop that a move closes would run through the new parent, and its part
\* among the parent's ancestors would have been a loop already.
LEMMA MoveKeepsAcyclic ==
    ASSUME IInv, Acyclic, MoveIsSafe, NEW r \in Request, UpdateCategory(r)
    PROVE  Acyclic'
<1> DEFINE c == tx[r].node
           p == tx[r].under
<1>1. CASE tx[r].kind = "edit"
  BY <1>1 DEF UpdateCategory, Acyclic, Loop
<1>2. CASE tx[r].kind # "edit"
  <2>1. c \in Category /\ live' = live /\ parent' = [parent EXCEPT ![c] = p]
    BY <1>2, NodeType DEF UpdateCategory, IInv, At, NodeKinds
  <2>2. Root \notin live /\ live \subseteq Category
    BY CategoryTreeAssumption DEF IInv, StateOK
  <2> SUFFICES ASSUME NEW S \in SUBSET live, Loop(S)' PROVE FALSE
    BY <2>1 DEF Acyclic
  <2>3. S # {} /\ \A d \in S : parent'[d] \in S
    BY DEF Loop
  <2>4. \A d \in S : d # c => parent[d] \in S
    BY <2>1, <2>2, <2>3 DEF IInv, StateOK
  <2>5. CASE c \notin S
    <3>1. Loop(S)
      BY <2>3, <2>4, <2>5 DEF Loop
    <3> QED BY <3>1 DEF Acyclic
  <2>6. CASE c \in S
    <3>1. p \in S
      BY <2>1, <2>3, <2>6 DEF IInv, StateOK
    <3>2. p \in Category /\ p # Root
      BY <2>2, <3>1
    <3>3. tx[r].kind = "move"
      BY <1>2, <3>2 DEF UpdateCategory, IInv, WellFormed, At, ChildKinds
    <3>4. c \notin Chain(p)
      BY <3>3 DEF MoveIsSafe, UpdateCategory
    <3> DEFINE T == S \cap Chain(p)
    <3>5. p \in T
      BY <3>1, <3>2, ChainFacts DEF IInv
    <3>6. ASSUME NEW d \in T PROVE parent[d] \in T
      <4>1. d \in S /\ d # c /\ d \in Chain(p)
        BY <3>4
      <4>2. parent[d] \in S /\ parent[d] # Root
        BY <2>2, <2>4, <4>1
      <4>3. parent[d] \in Chain(p)
        BY <3>2, <4>1, <4>2, ChainFacts DEF IInv
      <4> QED BY <4>2, <4>3
    <3>7. Loop(T) /\ T \in SUBSET live
      BY <3>5, <3>6 DEF Loop
    <3> QED BY <3>7 DEF Acyclic
  <2> QED BY <2>5, <2>6
<1> QED BY <1>1, <1>2

LEMMA DeleteKeepsAcyclic ==
    ASSUME IInv, Acyclic, NEW r \in Request, DeleteCategory(r)
    PROVE  Acyclic'
<1> SUFFICES ASSUME NEW S \in SUBSET live', Loop(S)' PROVE FALSE
  BY DEF Acyclic
<1>1. \A d \in S : d \in live /\ parent'[d] = parent[d]
  BY DEF DeleteCategory, IInv, StateOK
<1>2. Loop(S)
  BY <1>1 DEF Loop
<1> QED BY <1>1, <1>2 DEF Acyclic

\* The chain of a row is made of rows.
LEMMA ChainOfRows ==
    ASSUME IInv, NEW c \in live
    PROVE  Chain(c) \subseteq live
<1>1. c \in Category /\ live \in SUBSET Category /\ ClosedUpwards(live)
  BY DEF IInv, StateOK, NoDanglingRow, ClosedUpwards
<1> QED BY <1>1, ChainWithin

\* If a step changes the parent of no row, or makes rows roots, chains of rows
\* only get shorter.
LEMMA ChainShrinks ==
    ASSUME IInv, NEW c \in live,
           \A d \in live : parent'[d] = parent[d] \/ parent'[d] = Root
    PROVE  Chain(c)' \subseteq Chain(c)
<1>1. c \in Category /\ Chain(c) \in SUBSET Category /\ c \in Chain(c)
  BY ChainFacts DEF IInv, StateOK, Chain
<1>2. \A d \in Chain(c) : parent'[d] \in Chain(c) \cup {Root}
  BY ChainOfRows, ChainFacts, <1>1 DEF IInv
<1> QED BY <1>1, <1>2, ChainWithin


-----------------------------------------------------------------------------
(* What one step of a request does to its own record and to the rows.      *)

\* A new request asks for a lock first, unless it creates a root.
Starts(r) ==
    /\ UNCHANGED tree
    /\ tx'[r].kind = "move" => tx'[r].pc = "lockNode"
    /\ tx'[r].kind = "createChild" => tx'[r].pc = "lockParent"

\* Statements that lock or look, other than Measure and CheckChain.
GoesOn(r) ==
    /\ UNCHANGED tree
    /\ tx'[r].kind = tx[r].kind /\ tx'[r].node = tx[r].node
    /\ tx'[r].under = tx[r].under /\ tx'[r].height = tx[r].height
    /\ tx[r].kind \in ChildKinds =>
          \/ tx'[r].pc = "measure"
          \/ /\ tx'[r].pc \in {"checkStock", "checkChain"}
             /\ tx[r].pc \in {"lockParent", "checkStock"}

Measures(r) ==
    /\ UNCHANGED tree
    /\ HeightEnds(tx[r].node) /\ HeightIs(tx[r].node, tx'[r].height)
    /\ tx'[r].height \in Heights
    /\ tx[r].kind = "move" /\ tx[r].pc = "measure" /\ tx'[r].pc = "lockParent"
    /\ tx'[r].kind = tx[r].kind /\ tx'[r].node = tx[r].node
    /\ tx'[r].under = tx[r].under

ChecksOut(r) ==
    /\ UNCHANGED tree
    /\ ~TooDeep(r) /\ ~ClosesLoop(r)
    /\ tx[r].pc = "checkChain" /\ tx'[r].pc = "write"
    /\ tx'[r].kind = tx[r].kind /\ tx'[r].node = tx[r].node
    /\ tx'[r].under = tx[r].under /\ tx'[r].height = tx[r].height

Ends(r) ==
    /\ tx'[r] = Idle
    /\ \/ live' = live /\ parent' = parent
       \/ CreateCategory(r) \/ UpdateCategory(r) \/ DeleteCategory(r)

LEMMA StepForms ==
    ASSUME IInv, NEW r \in Request, Begin(r) \/ Statement(r) \/ Rollback(r)
    PROVE  /\ \A q \in Request \ {r} : tx'[q] = tx[q]
           /\ Starts(r) \/ GoesOn(r) \/ Measures(r) \/ ChecksOut(r) \/ Ends(r)
<1> USE DEF At
<1>1. CASE Begin(r)
  <2>1. UNCHANGED tree
    BY <1>1 DEF Begin
  <2> QED BY <1>1, <2>1, RequestType DEF IInv, StateOK, Starts, NodeKinds
<1>2. CASE Refuse(r)
  BY <1>2 DEF Refuse, End, Ends, tree, IInv, StateOK
<1>3. CASE Measure(r)
  <2>1. PICK h \in Heights :
           /\ HeightIs(tx[r].node, h)
           /\ tx' = [tx EXCEPT ![r].pc = "lockParent", ![r].height = h]
    BY <1>3 DEF Measure
  <2>2. /\ UNCHANGED tree /\ HeightEnds(tx[r].node) /\ tx[r].pc = "measure"
        /\ tx[r].kind = "move"
    BY <1>3 DEF Measure, IInv, WellFormed
  <2> QED BY <2>1, <2>2 DEF Measures, IInv, StateOK, Transactions
<1>4. CASE CheckChain(r) /\ ~Refuse(r)
  <2>1. /\ UNCHANGED tree /\ ~TooDeep(r) /\ ~ClosesLoop(r)
        /\ tx[r].pc = "checkChain" /\ tx' = [tx EXCEPT ![r].pc = "write"]
    BY <1>4 DEF CheckChain, Goto
  <2> QED BY <2>1 DEF ChecksOut, IInv, StateOK, Transactions
<1>5. CASE /\ ~Refuse(r)
           /\ \/ LockNode(r) \/ LockParent(r) \/ CheckStock(r) \/ LockShared(r)
              \/ CheckLeaf(r) \/ CheckEmpty(r)
  <2>1. UNCHANGED tree /\ \E point \in Points :
           /\ tx' = [tx EXCEPT ![r].pc = point]
           /\ tx[r].kind \in ChildKinds =>
                 \/ point = "measure"
                 \/ /\ point \in {"checkStock", "checkChain"}
                    /\ tx[r].pc \in {"lockParent", "checkStock"}
    BY <1>5 DEF LockNode, LockParent, CheckStock, LockShared, CheckLeaf, CheckEmpty,
       LockForUpdate, LockForShare, Goto, AfterNode, Points, IInv, WellFormed,
       ChildKinds, NodeKinds
  <2> QED BY <2>1 DEF GoesOn, IInv, StateOK, Transactions
<1>6. CASE CreateCategory(r) \/ UpdateCategory(r) \/ DeleteCategory(r) \/ CreateProduct(r)
  BY <1>6 DEF CreateCategory, UpdateCategory, DeleteCategory, CreateProduct, End, Ends,
     IInv, StateOK
<1> QED BY <1>1, <1>2, <1>3, <1>4, <1>5, <1>6 DEF Statement, Rollback

\* A request that is under way remains of its kind until it ends.
LEMMA StatementKeepsKind ==
    ASSUME IInv, NEW r \in Request, Statement(r) \/ Rollback(r)
    PROVE  Busy(r) /\ (tx'[r] = Idle \/ tx'[r].kind = tx[r].kind)
<1> USE DEF At, Busy, IInv, StateOK, Transactions
<1>1. CASE Refuse(r) /\ Busy(r)
  BY <1>1 DEF Refuse, End
<1>2. CASE Measure(r)
  BY <1>2 DEF Measure
<1>3. CASE /\ ~Refuse(r)
           /\ \/ LockNode(r) \/ LockParent(r) \/ CheckStock(r) \/ CheckChain(r)
              \/ LockShared(r) \/ CheckLeaf(r) \/ CheckEmpty(r)
  <2>1. Busy(r) /\ \E point \in Points : tx' = [tx EXCEPT ![r].pc = point]
    BY <1>3 DEF LockNode, LockParent, CheckStock, CheckChain, LockShared, CheckLeaf,
       CheckEmpty, LockForUpdate, LockForShare, Goto, AfterNode, Points
  <2> QED BY <2>1
<1>4. CASE CreateCategory(r) \/ UpdateCategory(r) \/ DeleteCategory(r) \/ CreateProduct(r)
  BY <1>4 DEF CreateCategory, UpdateCategory, DeleteCategory, CreateProduct, End
<1> QED BY <1>1, <1>2, <1>3, <1>4 DEF Statement, Rollback, LockNode, LockParent, CheckStock,
        CheckChain, LockShared, CheckLeaf, CheckEmpty

\* No two moves are under way together.
OneMove == \A q, r \in Request :
    q # r /\ Busy(q) /\ Busy(r) => ~(tx[q].kind = "move" /\ tx[r].kind = "move")

\* No move is under way together with another move or with the creation of a
\* child.
MoveAlone == \A q, r \in Request :
    q # r /\ Busy(q) /\ Busy(r) /\ tx[q].kind = "move" => tx[r].kind \notin ChildKinds

\* What crossed does not name has not happened, and is not happening.
Crossings == ("loop" \notin crossed => OneMove) /\ ("depth" \notin crossed => MoveAlone)

LEMMA CrossingsStart == Init => Crossings
BY DEF Init, Crossings, OneMove, MoveAlone, Busy, At, Idle

LEMMA CrossingsStep ==
    ASSUME IInv, Crossings, [Next]_vars
    PROVE  Crossings' /\ crossed \subseteq crossed'
<1> USE DEF At, Busy
<1>1. CASE UNCHANGED vars
  BY <1>1 DEF vars, Crossings, OneMove, MoveAlone
<1>2. ASSUME NEW r \in Request, Begin(r), crossed' = crossed \cup Crossing(r, tx'[r].kind)
      PROVE  Crossings' /\ crossed \subseteq crossed'
  <2>1. \A q \in Request \ {r} : tx'[q] = tx[q]
    BY <1>2, StepForms
  <2>2. ASSUME "loop" \notin crossed', NEW q \in Request \ {r}, Busy(q)
        PROVE  ~(tx'[r].kind = "move" /\ tx[q].kind = "move")
    BY <1>2, <2>2 DEF Crossing
  <2>3. ASSUME "depth" \notin crossed', NEW q \in Request \ {r}, Busy(q)
        PROVE  /\ tx'[r].kind = "move" => tx[q].kind \notin ChildKinds
               /\ tx[q].kind = "move" => tx'[r].kind \notin ChildKinds
    BY <1>2, <2>3 DEF Crossing, ChildKinds
  <2>4. ASSUME "loop" \notin crossed' PROVE OneMove'
    BY <1>2, <2>1, <2>2, <2>4 DEF Crossings, OneMove
  <2>5. ASSUME "depth" \notin crossed' PROVE MoveAlone'
    BY <1>2, <2>1, <2>3, <2>5 DEF Crossings, MoveAlone
  <2> QED BY <1>2, <2>4, <2>5 DEF Crossings
<1>3. ASSUME NEW r \in Request, Statement(r) \/ Rollback(r), UNCHANGED crossed
      PROVE  Crossings' /\ crossed \subseteq crossed'
  <2>1. \A q \in Request \ {r} : tx'[q] = tx[q]
    BY <1>3, StepForms
  <2>2. Busy(r) /\ (tx'[r] = Idle \/ tx'[r].kind = tx[r].kind)
    BY <1>3, StatementKeepsKind
  <2> QED BY <1>3, <2>1, <2>2 DEF Crossings, OneMove, MoveAlone, Idle
<1> QED BY <1>1, <1>2, <1>3 DEF Next

\* Only a move puts a row under a new parent.
LEMMA OthersOnlyShrink ==
    ASSUME IInv, NEW r \in Request, tx[r].kind # "move",
           CreateCategory(r) \/ UpdateCategory(r) \/ DeleteCategory(r)
    PROVE  \A d \in live : parent'[d] = parent[d] \/ parent'[d] = Root
<1>1. CASE CreateCategory(r)
  BY <1>1 DEF CreateCategory, Known, IInv, StateOK
<1>2. CASE UpdateCategory(r)
  <2>1. tx[r].kind = "edit" \/ tx[r].under = Root
    BY <1>2 DEF UpdateCategory, IInv, WellFormed, StateOK, Transactions, At, ChildKinds
  <2> QED BY <1>2, <2>1 DEF UpdateCategory, IInv, StateOK
<1>3. CASE DeleteCategory(r)
  BY <1>3 DEF DeleteCategory, IInv, StateOK
<1> QED BY <1>1, <1>2, <1>3

\* The rows a request is about to use are there.
LEMMA UnderIsRow ==
    ASSUME IInv, NEW r \in Request, At(r, "write"), tx[r].kind \in ChildKinds
    PROVE  tx[r].under \in live
BY DEF IInv, LocksHeld, LocksExclude, WellFormed, At

LEMMA NodeIsRow ==
    ASSUME IInv, NEW r \in Request, tx[r].kind = "move", Busy(r), ~At(r, "lockNode")
    PROVE  tx[r].node \in live
BY NodeType DEF IInv, LocksHeld, LocksExclude, NodeKinds, At, Busy

LEMMA AcyclicStep ==
    ASSUME OneMove, IInv, Acyclic, MoveIsSafe, [Next]_vars
    PROVE  Acyclic' /\ MoveIsSafe'
<1> USE DEF At, Busy
<1>1. CASE UNCHANGED vars
  BY <1>1 DEF vars, Acyclic, Loop, MoveIsSafe, Chain, ClosedUpwards
<1>2. ASSUME NEW r \in Request, Begin(r) \/ Statement(r) \/ Rollback(r)
      PROVE  Acyclic' /\ MoveIsSafe'
  <2>1. /\ \A q \in Request \ {r} : tx'[q] = tx[q]
        /\ Starts(r) \/ GoesOn(r) \/ Measures(r) \/ ChecksOut(r) \/ Ends(r)
    BY <1>2, StepForms
  <2>2. Acyclic'
    <3>1. CASE live' = live /\ parent' = parent
      BY <3>1 DEF Acyclic, Loop
    <3>2. CASE CreateCategory(r) \/ UpdateCategory(r) \/ DeleteCategory(r)
      BY <3>2, CreateKeepsAcyclic, MoveKeepsAcyclic, DeleteKeepsAcyclic
    <3> QED BY <2>1, <3>1, <3>2 DEF Starts, GoesOn, Measures, ChecksOut, Ends, tree
  <2>3. ASSUME NEW q \in Request, tx'[q].pc = "write", tx'[q].kind = "move"
        PROVE  (tx[q].node \notin Chain(tx[q].under))'
    <3>1. CASE q = r
      <4>1. ChecksOut(r)
        BY <2>1, <2>3, <3>1 DEF Starts, GoesOn, Measures, Ends, Idle, ChildKinds
      <4> QED BY <3>1, <4>1, <2>3 DEF ChecksOut, ClosesLoop, Chain, ClosedUpwards, tree
    <3>2. CASE q # r
      <4>1. /\ tx'[q] = tx[q] /\ tx[q].pc = "write" /\ tx[q].kind = "move"
            /\ tx[q].node \notin Chain(tx[q].under)
        BY <2>1, <2>3, <3>2 DEF MoveIsSafe
      <4>2. PICK p \in live : p = tx[q].under
        BY <4>1, UnderIsRow DEF ChildKinds
      <4>3. CASE live' = live /\ parent' = parent
        <5>1. Chain(p)' = Chain(p)
          BY <4>3 DEF Chain, ClosedUpwards
        <5>2. tx[q].node \notin Chain(p)'
          BY <4>1, <4>2, <5>1
        <5> QED BY <4>1, <4>2, <5>2 DEF Chain
      <4>4. CASE CreateCategory(r) \/ UpdateCategory(r) \/ DeleteCategory(r)
        <5>1. tx[r].kind # "move"
          BY <3>2, <4>1, <4>4 DEF OneMove, CreateCategory, UpdateCategory, DeleteCategory
        <5>2. Chain(p)' \subseteq Chain(p)
          BY <4>4, <5>1, OthersOnlyShrink, ChainShrinks
        <5>3. tx[q].node \notin Chain(p)'
          BY <4>1, <4>2, <5>2
        <5> QED BY <4>1, <4>2, <5>3 DEF Chain
      <4> QED BY <2>1, <4>3, <4>4 DEF Starts, GoesOn, Measures, ChecksOut, Ends, tree
    <3> QED BY <3>1, <3>2
  <2> QED BY <2>2, <2>3 DEF MoveIsSafe
<1> QED BY <1>1, <1>2 DEF Next

\* As long as no two moves have been under way together the tree has no loop,
\* whatever else the requests do between the statements of a move: the race of
\* two moves is the only way to one.
THEOREM NoLoopWithoutTwoMoves == Spec => []AcyclicUntilMovesCross
<1> DEFINE Safe == "loop" \in crossed \/ (Acyclic /\ MoveIsSafe)
<1>1. Init => Crossings /\ Safe
  BY CrossingsStart DEF Init, Acyclic, Loop, MoveIsSafe, At, Idle
<1>2. IInv /\ (Crossings /\ Safe) /\ [Next]_vars => (Crossings /\ Safe)'
  <2> SUFFICES ASSUME IInv, Crossings, Safe, [Next]_vars PROVE (Crossings /\ Safe)'
    OBVIOUS
  <2>1. Crossings' /\ crossed \subseteq crossed'
    BY CrossingsStep
  <2>2. CASE "loop" \in crossed
    BY <2>1, <2>2
  <2>3. CASE "loop" \notin crossed
    <3>1. OneMove /\ Acyclic /\ MoveIsSafe
      BY <2>3 DEF Crossings
    <3> QED BY <2>1, <3>1, AcyclicStep
  <2> QED BY <2>2, <2>3
<1>3. Safe => AcyclicUntilMovesCross
  BY DEF AcyclicUntilMovesCross
<1> QED BY <1>1, <1>2, <1>3, Inductive, PTL DEF Spec

-----------------------------------------------------------------------------
(* No category deeper than MaxDepth, unless a move overlaps another move or *)
(* the creation of a child.                                                 *)

\* The way from d up to c: what a move of c lifts out of d's chain and hangs
\* under the new parent.
Between(c, d) == {x \in Chain(d) : c \in Chain(x)}

\* The height a move has measured still bounds its subtree.
Measured ==
    \A r \in Request :
        /\ tx[r].kind = "move"
        /\ tx[r].pc \in {"lockParent", "checkStock", "checkChain", "write"}
        => \A d \in Subtree(tx[r].node) :
              Cardinality(Between(tx[r].node, d)) <= tx[r].height + 1

\* What is about to be hung under a parent still fits there.
Fits ==
    \A r \in Request : tx[r].kind \in ChildKinds /\ At(r, "write") =>
        Cardinality(Chain(tx[r].under)) + 1 + tx[r].height <= MaxDepth

DInv == DepthBounded /\ Measured /\ Fits

LEMMA ChainFinite ==
    ASSUME NEW c, NEW S \in SUBSET Chain(c)
    PROVE  IsFiniteSet(S) /\ Cardinality(S) \in Nat
<1>1. S \in SUBSET Category
  BY DEF Chain
<1> QED BY <1>1, CategoryTreeAssumption, FS_Subset, FS_CardinalityType

LEMMA Smaller ==
    ASSUME NEW S \in SUBSET Category, NEW T \in SUBSET S
    PROVE  /\ Cardinality(T) \in Nat /\ Cardinality(S) \in Nat
           /\ Cardinality(T) <= Cardinality(S)
<1>1. IsFiniteSet(S)
  BY CategoryTreeAssumption, FS_Subset
<1> QED BY <1>1, FS_Subset, FS_CardinalityType

LEMMA UnionSize ==
    ASSUME NEW S \in SUBSET Category, NEW T \in SUBSET Category
    PROVE  /\ Cardinality(S) \in Nat /\ Cardinality(T) \in Nat
           /\ Cardinality(S \cup T) \in Nat
           /\ Cardinality(S \cup T) <= Cardinality(S) + Cardinality(T)
           /\ S \cap T = {} => Cardinality(S \cup T) = Cardinality(S) + Cardinality(T)
<1>1. IsFiniteSet(S) /\ IsFiniteSet(T)
  BY CategoryTreeAssumption, FS_Subset
<1>2. IsFiniteSet(S \cap T) /\ IsFiniteSet(S \cup T)
  BY <1>1, FS_Subset, FS_Union
<1>3. Cardinality(S \cup T) = Cardinality(S) + Cardinality(T) - Cardinality(S \cap T)
  BY <1>1, FS_Union
<1> QED BY <1>1, <1>2, <1>3, FS_CardinalityType, FS_EmptySet

\* A chain is its first category and the chain of the parent.
LEMMA ChainUnfold ==
    ASSUME StateOK, NEW c \in Category
    PROVE  /\ parent[c] = Root => Chain(c) = {c}
           /\ parent[c] # Root => Chain(c) \subseteq {c} \cup Chain(parent[c])
           /\ \A a \in Chain(c) : a \in Category /\ Chain(a) \subseteq Chain(c)
<1>1. c \in Chain(c) /\ Chain(c) \in SUBSET Category
  BY ChainFacts DEF Chain
<1>2. ASSUME parent[c] = Root PROVE Chain(c) = {c}
  <2>1. ClosedUpwards({c})
    BY <1>2 DEF ClosedUpwards
  <2> QED BY <1>1, <2>1, ChainWithin
<1>3. ASSUME parent[c] # Root PROVE Chain(c) \subseteq {c} \cup Chain(parent[c])
  <2> DEFINE p == parent[c]
             S == {c} \cup Chain(p)
  <2>1. p \in Category
    BY <1>3 DEF StateOK
  <2>2. S \in SUBSET Category /\ p \in S
    BY <2>1, ChainFacts DEF Chain
  <2>3. ClosedUpwards(S)
    BY <2>1, <2>2, ChainFacts DEF ClosedUpwards
  <2> QED BY <2>2, <2>3, ChainWithin
<1>4. ASSUME NEW a \in Chain(c) PROVE a \in Category /\ Chain(a) \subseteq Chain(c)
  <2>1. ClosedUpwards(Chain(c)) /\ a \in Category
    BY <1>1, ChainFacts DEF ClosedUpwards
  <2> QED BY <1>1, <2>1, ChainWithin
<1> QED BY <1>2, <1>3, <1>4

\* If subtree_height returns, it bounds the way up from every descendant: the
\* chain of the category itself and that way share only the category.
LEMMA HeightBoundsSubtree ==
    ASSUME StateOK, NEW c \in Category, HeightEnds(c), NEW h \in Nat, HeightIs(c, h),
           NEW d \in Subtree(c)
    PROVE  Cardinality(Between(c, d)) <= h + 1
<1> DEFINE B == Between(c, d) \ {c}
<1>1. /\ d \in Category /\ c \in Chain(d) /\ Chain(c) \subseteq Chain(d)
      /\ Chain(d) \in SUBSET Category
  BY ChainUnfold DEF Subtree, StateOK, Chain
<1>2. B \cap Chain(c) = {}
  <2> SUFFICES ASSUME NEW x \in Chain(c), x # c, c \in Chain(x) PROVE FALSE
    BY DEF Between
  <2>1. parent[c] # Root /\ x \in Chain(parent[c])
    BY ChainUnfold
  <2>2. parent[c] \in Category
    BY <2>1 DEF StateOK
  <2>3. c \in Chain(parent[c])
    BY <2>1, <2>2, ChainUnfold
  <2> QED BY <2>1, <2>3 DEF HeightEnds
<1>3. B \cup Chain(c) \in SUBSET Chain(d)
  BY <1>1 DEF Between
<1>4. Cardinality(B) + Cardinality(Chain(c)) <= Cardinality(Chain(d))
  <2>1. B \in SUBSET Category /\ Chain(c) \in SUBSET Category
    BY <1>1, <1>3
  <2>2. Cardinality(B \cup Chain(c)) = Cardinality(B) + Cardinality(Chain(c))
    BY <1>2, <2>1, UnionSize
  <2>3. Cardinality(B \cup Chain(c)) <= Cardinality(Chain(d))
    BY <1>1, <1>3, Smaller
  <2> QED BY <2>2, <2>3
<1>5. Cardinality(Chain(d)) - Cardinality(Chain(c)) <= h
  BY DEF HeightIs, LevelsBelow
<1>6. Cardinality(Between(c, d)) <= Cardinality(B) + 1
  <2>1. IsFiniteSet(B)
    BY ChainFinite DEF Between
  <2>2. Between(c, d) = B \cup {c}
    BY <1>1, ChainFacts DEF Between
  <2>3. Cardinality(B) \in Nat
    BY <2>1, FS_CardinalityType
  <2> HIDE DEF B
  <2>4. Cardinality(B \cup {c}) \in {Cardinality(B), Cardinality(B) + 1}
    BY <2>1, FS_AddElement
  <2> QED BY <2>2, <2>3, <2>4
<1>7. /\ Cardinality(B) \in Nat /\ Cardinality(Chain(c)) \in Nat
      /\ Cardinality(Chain(d)) \in Nat /\ Cardinality(Between(c, d)) \in Nat
  BY ChainFinite DEF Between
<1> HIDE DEF B
<1> QED BY <1>4, <1>5, <1>6, <1>7

-----------------------------------------------------------------------------
(* The tree after each kind of write.                                      *)

\* A new category hangs at the end of its parent's chain.
LEMMA NewChain ==
    ASSUME IInv, NEW r \in Request, CreateCategory(r), Fits
    PROVE  \E c \in Category \ live :
              /\ live' = live \cup {c}
              /\ Cardinality(Chain(c)') <= MaxDepth
              /\ Chain(c)' \subseteq {c} \cup live
              /\ tx[r].kind = "createRoot" => Chain(c)' = {c}
<1>1. PICK c \in Category \ Known : /\ live' = live \cup {c}
                                     /\ parent' = [parent EXCEPT ![c] = tx[r].under]
  BY DEF CreateCategory
<1>2. c \in Category \ live /\ parent'[c] = tx[r].under
  BY <1>1 DEF Known, IInv, StateOK
<1>3. \A d \in live : parent'[d] = parent[d] /\ d \in Category
  BY <1>1, <1>2 DEF IInv, StateOK
<1>4. c \in Chain(c)'
  BY <1>2 DEF Chain
<1>5. CASE tx[r].kind = "createRoot"
  <2>1. tx[r].under = Root
    BY <1>5 DEF CreateCategory, IInv, WellFormed, StateOK, Transactions, At, ChildKinds
  <2>2. Chain(c)' \subseteq {c}
    BY <1>2, <2>1, ChainWithin
  <2>3. Chain(c)' = {c} /\ Cardinality({c}) = 1
    BY <1>4, <2>2, FS_Singleton
  <2>4. Cardinality(Chain(c)') <= MaxDepth
    BY <2>3, CategoryTreeAssumption
  <2> QED BY <1>1, <1>2, <2>3, <2>4
<1>6. CASE tx[r].kind # "createRoot"
  <2>1. tx[r].kind \in ChildKinds /\ At(r, "write") /\ tx[r].kind = "createChild"
    BY <1>6 DEF CreateCategory, ChildKinds
  <2>2. PICK p \in live : p = tx[r].under
    BY <2>1, UnderIsRow
  <2> DEFINE S == {c} \cup Chain(p)
  <2>3. Chain(p) \subseteq live /\ p \in Chain(p) /\ S \in SUBSET Category
    BY <1>2, <1>3, <2>2, ChainOfRows, ChainFacts DEF IInv
  <2>4. \A a \in S : parent'[a] \in S \cup {Root}
    BY <1>2, <1>3, <2>2, <2>3, ChainFacts DEF IInv
  <2>5. Chain(c)' \subseteq S
    BY <1>2, <2>3, <2>4, ChainWithin
  <2>6. Cardinality(S) <= Cardinality(Chain(p)) + 1
    <3>1. Cardinality({c}) = 1 /\ {c} \in SUBSET Category
      BY <1>2, FS_Singleton
    <3>2. /\ Cardinality(S) <= Cardinality({c}) + Cardinality(Chain(p))
          /\ Cardinality(Chain(p)) \in Nat
      BY <2>3, <3>1, UnionSize
    <3> HIDE DEF S
    <3> QED BY <3>1, <3>2
  <2>7. Cardinality(Chain(c)') <= Cardinality(S) /\ Cardinality(Chain(c)') \in Nat
    BY <2>3, <2>5, Smaller
  <2>8. Cardinality(Chain(p)) + 1 + tx[r].height <= MaxDepth /\ tx[r].height \in Nat
    BY <2>1, <2>2, HeightsType DEF Fits, IInv, StateOK, Transactions
  <2>9. Cardinality(S) \in Nat /\ Cardinality(Chain(p)) \in Nat
    BY <2>3, Smaller
  <2> HIDE DEF S
  <2>10. Cardinality(Chain(c)') <= MaxDepth
    BY <2>6, <2>7, <2>8, <2>9, CategoryTreeAssumption
  <2>11. Chain(c)' \subseteq {c} \cup live
    BY <2>3, <2>5 DEF S
  <2> QED BY <1>1, <1>2, <1>6, <2>10, <2>11
<1> QED BY <1>5, <1>6

\* Below the moved category a chain is now the way up to it and the chain of
\* the new parent; elsewhere it has only got shorter.
LEMMA MovedChain ==
    ASSUME IInv, NEW r \in Request, UpdateCategory(r), tx[r].kind = "move",
           Measured, Fits, DepthBounded, NEW d \in live
    PROVE  Cardinality(Chain(d)') <= MaxDepth
<1>1. At(r, "write") /\ tx[r].kind \in ChildKinds
  BY DEF UpdateCategory, ChildKinds
<1>2. PICK p \in live : p = tx[r].under
  BY <1>1, UnderIsRow
<1>3. PICK c \in live : c = tx[r].node
  BY <1>1, NodeIsRow DEF At, Busy
<1>4. parent' = [parent EXCEPT ![c] = p] /\ d \in Category /\ c \in Category /\ p \in Category
  BY <1>2, <1>3 DEF UpdateCategory, IInv, StateOK
<1>5. /\ parent'[c] = p
      /\ \A a \in Category : a # c => parent'[a] = parent[a]
  BY <1>4 DEF IInv, StateOK
<1>6. Chain(d) \in SUBSET Category /\ Chain(p) \in SUBSET Category /\ p \in Chain(p)
  BY <1>4, ChainFacts DEF IInv, Chain
<1>7. CASE c \notin Chain(d)
  <2>1. \A a \in Chain(d) : parent'[a] \in Chain(d) \cup {Root}
    BY <1>4, <1>5, <1>6, <1>7, ChainFacts DEF IInv
  <2>2. Chain(d)' \subseteq Chain(d)
    BY <1>4, <1>6, <2>1, ChainFacts, ChainWithin DEF IInv
  <2> QED BY <1>6, <2>2, Smaller, CategoryTreeAssumption DEF DepthBounded
<1>8. CASE c \in Chain(d)
  <2> DEFINE B == Between(c, d)
             S == B \cup Chain(p)
  <2>1. d \in S /\ B \in SUBSET Category /\ S \in SUBSET Category
    BY <1>4, <1>6, <1>8, ChainFacts DEF Between, IInv
  <2>2. ASSUME NEW a \in S PROVE parent'[a] \in S \cup {Root}
    <3>1. CASE a = c
      BY <1>5, <1>6, <3>1
    <3>2. CASE a # c /\ a \in Chain(p)
      BY <1>4, <1>5, <1>6, <3>2, ChainFacts DEF IInv
    <3>3. CASE a # c /\ a \in B
      <4>1. a \in Chain(d) /\ c \in Chain(a) /\ a \in Category /\ parent'[a] = parent[a]
        BY <1>5, <1>6, <3>3 DEF Between
      <4>2. parent[a] # Root /\ c \in Chain(parent[a])
        BY <3>3, <4>1, ChainUnfold DEF IInv
      <4>3. parent[a] \in Chain(d)
        BY <1>4, <4>1, <4>2, ChainFacts DEF IInv
      <4> QED BY <4>1, <4>2, <4>3 DEF Between
    <3> QED BY <2>2, <3>1, <3>2, <3>3
  <2>3. Chain(d)' \subseteq S
    BY <1>4, <2>1, <2>2, ChainWithin
  <2>4. Cardinality(Chain(d)') <= Cardinality(S) /\ Cardinality(Chain(d)') \in Nat
    BY <2>1, <2>3, Smaller
  <2>5. /\ Cardinality(S) <= Cardinality(B) + Cardinality(Chain(p)) /\ Cardinality(S) \in Nat
        /\ Cardinality(B) \in Nat /\ Cardinality(Chain(p)) \in Nat
    BY <1>6, <2>1, UnionSize
  <2>6. Cardinality(B) <= tx[r].height + 1
    BY <1>1, <1>3, <1>8 DEF Measured, Subtree, At
  <2>7. Cardinality(Chain(p)) + 1 + tx[r].height <= MaxDepth /\ tx[r].height \in Nat
    BY <1>1, <1>2, HeightsType DEF Fits, IInv, StateOK, Transactions
  <2> HIDE DEF B, S
  <2> QED BY <2>4, <2>5, <2>6, <2>7, CategoryTreeAssumption
<1> QED BY <1>7, <1>8

\* While no move is under way with r, whatever r writes only shortens the
\* chains of the rows.
LEMMA WriteShrinks ==
    ASSUME IInv, NEW r \in Request, tx[r].kind # "move", Ends(r), NEW d \in live
    PROVE  Chain(d)' \subseteq Chain(d)
<1>1. CASE parent' = parent
  BY <1>1, ChainShrinks
<1>2. CASE CreateCategory(r) \/ UpdateCategory(r) \/ DeleteCategory(r)
  BY <1>2, OthersOnlyShrink, ChainShrinks
<1> QED BY <1>1, <1>2 DEF Ends

\* A descendant after such a write was a descendant before it, no farther away.
LEMMA WriteKeepsMeasure ==
    ASSUME IInv, NEW r \in Request, tx[r].kind \notin {"move", "createChild"},
           Busy(r), Ends(r), Fits,
           NEW c \in live, NEW d \in Subtree(c)'
    PROVE  d \in Subtree(c) /\ Between(c, d)' \subseteq Between(c, d)
<1>1. d \in live' /\ c \in Chain(d)'
  BY DEF Subtree
<1>2. d \in live
  <2>1. CASE CreateCategory(r)
    <3>1. PICK e \in Category \ live : live' = live \cup {e} /\ Chain(e)' = {e}
      BY <2>1, NewChain DEF CreateCategory
    <3> QED BY <1>1, <3>1
  <2>2. CASE live' = live \/ UpdateCategory(r) \/ DeleteCategory(r)
    BY <1>1, <2>2 DEF UpdateCategory, DeleteCategory
  <2> QED BY <2>1, <2>2 DEF Ends
<1>3. Chain(d)' \subseteq Chain(d) /\ Chain(d) \subseteq live
  BY <1>2, WriteShrinks, ChainOfRows
<1>4. \A x \in Chain(d) : Chain(x)' \subseteq Chain(x)
  BY <1>3, WriteShrinks
<1>5. ASSUME NEW x \in Between(c, d)' PROVE x \in Between(c, d)
  <2>1. x \in Chain(d)' /\ c \in Chain(x)'
    BY DEF Between
  <2> QED BY <1>3, <1>4, <2>1 DEF Between
<1> QED BY <1>1, <1>2, <1>3, <1>5 DEF Subtree

LEMMA DepthKept ==
    ASSUME MoveAlone, IInv, DInv, NEW r \in Request, Busy(r), Ends(r)
    PROVE  DepthBounded'
<1> SUFFICES ASSUME NEW d \in live' PROVE Cardinality(Chain(d)') <= MaxDepth
  BY DEF DepthBounded
<1>1. CASE d \notin live
  <2>1. CreateCategory(r)
    BY <1>1 DEF Ends, UpdateCategory, DeleteCategory
  <2>2. PICK e \in Category \ live : live' = live \cup {e} /\ Cardinality(Chain(e)') <= MaxDepth
    BY <2>1, NewChain DEF DInv
  <2> QED BY <1>1, <2>2
<1>2. CASE d \in live /\ tx[r].kind # "move"
  <2>1. Chain(d)' \subseteq Chain(d) /\ Chain(d) \in SUBSET Category
    BY <1>2, WriteShrinks DEF Chain
  <2> QED BY <1>2, <2>1, Smaller, CategoryTreeAssumption DEF DInv, DepthBounded
<1>3. CASE d \in live /\ tx[r].kind = "move"
  <2>1. CASE UpdateCategory(r)
    BY <1>3, <2>1, MovedChain DEF DInv
  <2>2. CASE ~UpdateCategory(r)
    <3>1. Chain(d)' \subseteq Chain(d) /\ Chain(d) \in SUBSET Category
      BY <1>3, <2>2, ChainShrinks DEF Ends, CreateCategory, DeleteCategory, Chain
    <3> QED BY <1>3, <3>1, Smaller, CategoryTreeAssumption DEF DInv, DepthBounded
  <2> QED BY <2>1, <2>2
<1> QED BY <1>1, <1>2, <1>3

-----------------------------------------------------------------------------
(* Every step, with no move beside a move or the creation of a child.      *)

LEMMA SameTree ==
    ASSUME live' = live, parent' = parent
    PROVE  /\ \A c : Chain(c)' = Chain(c)
           /\ \A c : Subtree(c)' = Subtree(c)
           /\ \A c, d : Between(c, d)' = Between(c, d)
           /\ DepthBounded' = DepthBounded
BY DEF Chain, ClosedUpwards, Subtree, Between, DepthBounded

\* What one request knows, for a request q and rows named apart from it.
LEMMA MeasuredStep ==
    ASSUME MoveAlone, IInv, DInv, NEW r \in Request,
           Begin(r) \/ Statement(r) \/ Rollback(r),
           Starts(r) \/ GoesOn(r) \/ Measures(r) \/ ChecksOut(r) \/ Ends(r),
           \A q \in Request \ {r} : tx'[q] = tx[q],
           NEW q \in Request, tx'[q].kind = "move",
           tx'[q].pc \in {"lockParent", "checkStock", "checkChain", "write"},
           NEW c \in Category, c = tx'[q].node, NEW d \in Subtree(c)'
    PROVE  Cardinality(Between(c, d)') <= tx'[q].height + 1
<1> USE DEF At, Busy
<1>1. CASE q = r
  <2>1. UNCHANGED <<live, parent>>
    BY <1>1 DEF Starts, GoesOn, Measures, ChecksOut, Ends, Idle, tree
  <2>2. d \in Subtree(c) /\ Between(c, d)' = Between(c, d)
    BY <2>1, SameTree
  <2>3. CASE Measures(r)
    <3>1. tx'[r].height \in Nat /\ HeightEnds(c) /\ HeightIs(c, tx'[r].height)
      BY <1>1, <2>3, HeightsType DEF Measures
    <3> QED BY <1>1, <2>2, <3>1, HeightBoundsSubtree DEF IInv
  <2>4. CASE GoesOn(r) \/ ChecksOut(r)
    <3>1. /\ tx[r].kind = "move" /\ tx[r].node = c /\ tx[r].height = tx'[r].height
          /\ tx[r].pc \in {"lockParent", "checkStock", "checkChain", "write"}
      BY <1>1, <2>4 DEF GoesOn, ChecksOut, ChildKinds
    <3> QED BY <1>1, <2>2, <3>1 DEF DInv, Measured
  <2> QED BY <1>1, <2>3, <2>4 DEF Starts, Ends, Idle
<1>2. CASE q # r
  <2>1. /\ tx'[q] = tx[q] /\ tx[q].kind = "move" /\ c = tx[q].node
        /\ tx[q].pc \in {"lockParent", "checkStock", "checkChain", "write"}
    BY <1>2
  <2>2. CASE UNCHANGED <<live, parent>>
    <3>1. d \in Subtree(c) /\ Between(c, d)' = Between(c, d)
      BY <2>2, SameTree
    <3> QED BY <2>1, <3>1 DEF DInv, Measured
  <2>3. CASE Ends(r) /\ ~UNCHANGED <<live, parent>>
    <3>1. tx[r].pc = "write"
      BY <2>3 DEF Ends, CreateCategory, UpdateCategory, DeleteCategory
    <3>2. tx[r].kind \notin {"move", "createChild"}
      BY <1>2, <2>1, <3>1 DEF MoveAlone, ChildKinds
    <3>3. c \in live
      BY <2>1, NodeIsRow
    <3>4. d \in Subtree(c) /\ Between(c, d)' \subseteq Between(c, d)
      BY <2>3, <3>1, <3>2, <3>3, WriteKeepsMeasure DEF DInv
    <3>5. Between(c, d) \in SUBSET Category /\ tx[q].height \in Nat
      BY HeightsType DEF Between, Chain, IInv, StateOK, Transactions
    <3>6. Cardinality(Between(c, d)) <= tx[q].height + 1
      BY <2>1, <3>4 DEF DInv, Measured
    <3>7. /\ Cardinality(Between(c, d)') <= Cardinality(Between(c, d))
          /\ Cardinality(Between(c, d)') \in Nat /\ Cardinality(Between(c, d)) \in Nat
      BY <3>4, <3>5, Smaller
    <3> QED BY <2>1, <3>5, <3>6, <3>7
  <2> QED BY <2>2, <2>3 DEF Starts, GoesOn, Measures, ChecksOut, tree
<1> QED BY <1>1, <1>2

LEMMA FitsStep ==
    ASSUME MoveAlone, IInv, DInv, NEW r \in Request,
           Begin(r) \/ Statement(r) \/ Rollback(r),
           Starts(r) \/ GoesOn(r) \/ Measures(r) \/ ChecksOut(r) \/ Ends(r),
           \A q \in Request \ {r} : tx'[q] = tx[q],
           NEW q \in Request, tx'[q].kind \in ChildKinds, tx'[q].pc = "write",
           NEW p \in Category, p = tx'[q].under
    PROVE  Cardinality(Chain(p)') + 1 + tx'[q].height <= MaxDepth
<1> USE DEF At, Busy
<1>1. CASE q = r
  <2>1. ChecksOut(r)
    BY <1>1 DEF Starts, GoesOn, Measures, Ends, Idle, ChildKinds
  <2>2. Chain(p)' = Chain(p) /\ Cardinality(Chain(p)) \in Nat
    BY <2>1, SameTree, ChainFinite DEF ChecksOut, tree
  <2>3. ~(Cardinality(Chain(p)) + 1 + tx'[q].height > MaxDepth)
    BY <1>1, <2>1 DEF ChecksOut, TooDeep
  <2>4. tx[q].height \in Nat /\ tx'[q].height = tx[q].height
    BY <1>1, <2>1, HeightsType DEF ChecksOut, IInv, StateOK, Transactions
  <2> QED BY <2>2, <2>3, <2>4, CategoryTreeAssumption
<1>2. CASE q # r
  <2>1. /\ tx'[q] = tx[q] /\ tx[q].kind \in ChildKinds /\ tx[q].pc = "write" /\ p = tx[q].under
        /\ p \in live
    BY <1>2, UnderIsRow
  <2>2. Cardinality(Chain(p)) + 1 + tx[q].height <= MaxDepth
    BY <2>1 DEF DInv, Fits
  <2>3. CASE UNCHANGED <<live, parent>>
    BY <2>1, <2>2, <2>3, SameTree
  <2>4. CASE Ends(r) /\ ~UNCHANGED <<live, parent>>
    <3>1. tx[r].pc = "write"
      BY <2>4 DEF Ends, CreateCategory, UpdateCategory, DeleteCategory
    <3>2. tx[r].kind # "move"
      BY <1>2, <2>1, <3>1 DEF MoveAlone, ChildKinds
    <3>3. Chain(p)' \subseteq Chain(p) /\ Chain(p) \in SUBSET Category
      BY <2>1, <2>4, <3>2, WriteShrinks DEF Chain
    <3>4. /\ Cardinality(Chain(p)') <= Cardinality(Chain(p))
          /\ Cardinality(Chain(p)') \in Nat /\ Cardinality(Chain(p)) \in Nat
      BY <3>3, Smaller
    <3>5. tx[q].height \in Nat
      BY HeightsType DEF IInv, StateOK, Transactions
    <3> QED BY <2>1, <2>2, <3>4, <3>5, CategoryTreeAssumption
  <2> QED BY <2>3, <2>4 DEF Starts, GoesOn, Measures, ChecksOut, tree
<1> QED BY <1>1, <1>2

LEMMA DepthStep ==
    ASSUME MoveAlone, IInv, DInv, [Next]_vars
    PROVE  DInv'
<1> USE DEF At, Busy
<1>1. CASE UNCHANGED vars
  BY <1>1 DEF vars, DInv, DepthBounded, Measured, Fits, Chain, ClosedUpwards, Subtree, Between
<1>2. ASSUME NEW r \in Request, Begin(r) \/ Statement(r) \/ Rollback(r)
      PROVE  DInv'
  <2>1. /\ \A q \in Request \ {r} : tx'[q] = tx[q]
        /\ Starts(r) \/ GoesOn(r) \/ Measures(r) \/ ChecksOut(r) \/ Ends(r)
    BY <1>2, StepForms
  <2>2. DepthBounded'
    <3>1. CASE live' = live /\ parent' = parent
      BY <3>1, SameTree DEF DInv
    <3>2. CASE Ends(r) /\ ~(live' = live /\ parent' = parent)
      BY <3>2, DepthKept DEF Ends, CreateCategory, UpdateCategory, DeleteCategory
    <3> QED BY <2>1, <3>1, <3>2 DEF Starts, GoesOn, Measures, ChecksOut, tree
  <2>3. IInv'
    BY <1>2, RequestStep
  <2>4. Measured'
    <3> SUFFICES ASSUME NEW q \in Request, tx'[q].kind = "move",
                        tx'[q].pc \in {"lockParent", "checkStock", "checkChain", "write"},
                        NEW d \in (Subtree(tx[q].node))'
                 PROVE  (Cardinality(Between(tx[q].node, d)) <= tx[q].height + 1)'
      BY DEF Measured
    <3>1. PICK c \in Category : c = tx'[q].node
      BY <2>3 DEF IInv, WellFormed, NodeKinds
    <3>2. d \in Subtree(c)'
      BY <3>1 DEF Subtree
    <3>3. Cardinality(Between(c, d)') <= tx'[q].height + 1
      BY <1>2, <2>1, <3>1, <3>2, MeasuredStep
    <3>4. Between(c, d)' = (Between(tx[q].node, d))'
      BY <3>1 DEF Between
    <3> QED BY <3>3, <3>4
  <2>5. Fits'
    <3> SUFFICES ASSUME NEW q \in Request, tx'[q].kind \in ChildKinds, tx'[q].pc = "write"
                 PROVE  (Cardinality(Chain(tx[q].under)) + 1 + tx[q].height <= MaxDepth)'
      BY DEF Fits
    <3>1. PICK p \in Category : p = tx'[q].under
      BY <2>3 DEF IInv, WellFormed
    <3>2. Cardinality(Chain(p)') + 1 + tx'[q].height <= MaxDepth
      BY <1>2, <2>1, <3>1, FitsStep
    <3>3. Chain(p)' = (Chain(tx[q].under))'
      BY <3>1 DEF Chain
    <3> QED BY <3>2, <3>3
  <2> QED BY <2>2, <2>4, <2>5 DEF DInv
<1> QED BY <1>1, <1>2 DEF Next

\* As long as no move has overlapped another move or the creation of a child, no
\* category lies deeper than MaxDepth: measuring the subtree before the new
\* parent is locked is enough against everything else that may happen.
THEOREM DepthHoldsWhenMovesAreAlone == Spec => []DepthBoundedUntilMovesCross
<1> DEFINE Bounded == "depth" \in crossed \/ DInv
<1>1. Init => Crossings /\ Bounded
  BY CrossingsStart DEF Init, DInv, DepthBounded, Measured, Fits, At, Idle, ChildKinds
<1>2. IInv /\ (Crossings /\ Bounded) /\ [Next]_vars => (Crossings /\ Bounded)'
  <2> SUFFICES ASSUME IInv, Crossings, Bounded, [Next]_vars PROVE (Crossings /\ Bounded)'
    OBVIOUS
  <2>1. Crossings' /\ crossed \subseteq crossed'
    BY CrossingsStep
  <2>2. CASE "depth" \in crossed
    BY <2>1, <2>2
  <2>3. CASE "depth" \notin crossed
    <3>1. MoveAlone /\ DInv
      BY <2>3 DEF Crossings
    <3> QED BY <2>1, <3>1, DepthStep
  <2> QED BY <2>2, <2>3
<1>3. Bounded => DepthBoundedUntilMovesCross
  BY DEF DepthBoundedUntilMovesCross, DInv
<1> QED BY <1>1, <1>2, <1>3, Inductive, PTL DEF Spec

=============================================================================
