------------------------- MODULE ProductRulesProofs --------------------------
(***************************************************************************)
(* Proofs about ProductLifecycle, for every set of products, variants,     *)
(* attributes and requests: as long as no change of the configuration      *)
(* overlaps a seller's request, every stored value follows the             *)
(* configuration and an active product keeps satisfying R14, whatever the  *)
(* sellers do to one another, and the members of the staff to one another. *)
(***************************************************************************)
EXTENDS ProductLifecycleProofs

-----------------------------------------------------------------------------
(* The inductive invariant, on top of IInv.                                *)

\* The requests that run enforce_product_invariants if the product is active.
EnforcedKinds == {"editProduct", "setValues", "createVariant", "updateVariant"}
Enforced(r) ==
    \/ tx[r].kind = "publish"
    \/ tx[r].kind \in EnforcedKinds /\ status[tx[r].product] = "active"

\* What a seller's request has validated is valid, and what it has found
\* complete is complete, until it commits.
SellerKnows(r) ==
    /\ At(r, "enforce") \/ At(r, "commit") =>
          /\ tx[r].kind \in {"createProduct", "setValues"} => ValidValues(tx[r].values)
          /\ tx[r].kind = "createVariant" => ValidOptions(tx[r].options)
    /\ At(r, "commit") /\ Enforced(r) => NoGaps(ValuesWritten(r), ShapesWritten(r))

Used(a) == Valued(a) \/ Varied(a)

\* An attribute that is about to be attached, turned into a variation or back,
\* or detached, is used by no product and no variant.
StaffKnows(r) ==
    /\ tx[r].kind = "detach" /\ At(r, "commit") => ~Used(tx[r].attribute)
    /\ At(r, "checkVaried") => ~Valued(tx[r].attribute)
    /\ At(r, "upsert") => ~Used(tx[r].attribute)
    /\ tx[r].kind = "putConfiguration" /\ At(r, "commit") =>
          \/ ~Used(tx[r].attribute)
          \/ tx[r].seen.attached /\ tx[r].seen.variation = tx[r].flags.variation

RInv == ValuesFollowConfiguration /\ \A r \in Request : SellerKnows(r) /\ StaffKnows(r)

-----------------------------------------------------------------------------
(* Steps that write no row.                                                *)

\* What another request knows of the rows does not change with them.
LEMMA QuietOthers ==
    ASSUME UNCHANGED rows, NEW q \in Request, tx'[q] = tx[q],
           SellerKnows(q), StaffKnows(q)
    PROVE  SellerKnows(q)' /\ StaffKnows(q)'
<1> USE DEF rows, product, variant
<1>1. SellerKnows(q)'
  BY DEF SellerKnows, At, Enforced, ValidValues, ValidOptions, NoGaps, ValuesWritten,
         ShapesWritten, Shape, LiveVariants
<1>2. StaffKnows(q)'
  BY DEF StaffKnows, At, Used, Valued, Varied, HasRow
<1> QED BY <1>1, <1>2

\* Such a step keeps the invariant if its own request knows what it must.
LEMMA QuietKeeps ==
    ASSUME IInv, RInv, UNCHANGED rows, NEW r \in Request,
           \A q \in Request \ {r} : tx'[q] = tx[q],
           SellerKnows(r)', StaffKnows(r)'
    PROVE  RInv'
<1>1. \A q \in Request : SellerKnows(q)' /\ StaffKnows(q)'
  BY QuietOthers DEF RInv
<1>2. ValuesFollowConfiguration'
  BY DEF RInv, ValuesFollowConfiguration, HasRow, ValidValues, ValidOptions, rows, product,
         variant
<1> QED BY <1>1, <1>2 DEF RInv

\* At the points where nothing has been checked yet there is nothing to know.
LEMMA NothingYet ==
    ASSUME NEW r \in Request, tx'[r].pc \notin {"enforce", "checkVaried", "commit", "upsert"}
    PROVE  SellerKnows(r)' /\ StaffKnows(r)'
BY DEF SellerKnows, StaffKnows, At

LEMMA RefuseKeeps ==
    ASSUME IInv, RInv, NEW r \in Request, Refuse(r)
    PROVE  RInv'
<1>1. UNCHANGED rows /\ tx'[r] = Idle /\ \A q \in Request \ {r} : tx'[q] = tx[q]
  BY DEF Refuse, End, IInv, TypeOK
<1> QED BY <1>1, NothingYet, QuietKeeps DEF Idle

LEMMA BeginKeeps ==
    ASSUME IInv, RInv, NEW r \in Request, Begin(r)
    PROVE  RInv'
<1>1. UNCHANGED rows
  BY DEF Begin
<1>2. tx \in [Request -> Transactions]
  BY DEF IInv, TypeOK
<1>3. ASSUME NEW request, Ask(r, request), request.pc \in {"validate", "lock", "readConfig"}
      PROVE  RInv'
  <2>1. tx'[r] = request /\ \A q \in Request \ {r} : tx'[q] = tx[q]
    BY <1>2, <1>3 DEF Ask
  <2> QED BY <1>1, <1>3, <2>1, NothingYet, QuietKeeps
<1>4. CASE AskSeller(r)
  BY <1>3, <1>4 DEF AskSeller, Idle
<1>5. CASE AskStaff(r)
  BY <1>3, <1>5 DEF AskStaff, Idle
<1> QED BY <1>4, <1>5 DEF Begin

\* A request that moves on between its checks changes none of its fields.
LEMMA MovesOn ==
    ASSUME IInv, NEW r \in Request, NEW point \in Points, Goto(r, point), UNCHANGED rows
    PROVE  /\ tx'[r].pc = point /\ tx'[r].kind = tx[r].kind
           /\ tx'[r].attribute = tx[r].attribute
           /\ \A q \in Request \ {r} : tx'[q] = tx[q]
           /\ (ValidValues(tx[r].values))' <=> ValidValues(tx[r].values)
           /\ (ValidOptions(tx[r].options))' <=> ValidOptions(tx[r].options)
           /\ (Used(tx[r].attribute))' <=> Used(tx[r].attribute)
           /\ Enforced(r)' <=> Enforced(r)
           /\ (NoGaps(ValuesWritten(r), ShapesWritten(r)))'
                 <=> NoGaps(ValuesWritten(r), ShapesWritten(r))
<1> USE DEF rows, product, variant
<1>1. /\ tx'[r].pc = point /\ tx'[r].kind = tx[r].kind /\ tx'[r].product = tx[r].product
      /\ tx'[r].variant = tx[r].variant /\ tx'[r].options = tx[r].options
      /\ tx'[r].sale = tx[r].sale /\ tx'[r].attribute = tx[r].attribute
      /\ tx'[r].values = tx[r].values
  BY GotoFields
<1>2. \A q \in Request \ {r} : tx'[q] = tx[q]
  BY DEF Goto, IInv, TypeOK
<1>3. /\ (ValidValues(tx[r].values))' <=> ValidValues(tx[r].values)
      /\ (ValidOptions(tx[r].options))' <=> ValidOptions(tx[r].options)
      /\ (Used(tx[r].attribute))' <=> Used(tx[r].attribute)
      /\ Enforced(r)' <=> Enforced(r)
  BY <1>1 DEF ValidValues, ValidOptions, Used, Valued, Varied, HasRow, Enforced
<1>4. /\ ValuesWritten(r)' = ValuesWritten(r)
      /\ ShapesWritten(r)' = ShapesWritten(r)
  BY <1>1 DEF ValuesWritten, ShapesWritten, Shape, LiveVariants
<1>5. (NoGaps(ValuesWritten(r), ShapesWritten(r)))'
         <=> NoGaps(ValuesWritten(r), ShapesWritten(r))
  BY <1>4 DEF NoGaps
<1> QED BY <1>1, <1>2, <1>3, <1>5

LEMMA LockKeeps ==
    ASSUME IInv, RInv, NEW r \in Request, LockProduct(r)
    PROVE  RInv'
<1>1. CASE Refuse(r)
  BY <1>1, RefuseKeeps
<1>2. CASE ~Refuse(r)
  <2> DEFINE point == AfterLock(tx[r].kind, tx[r].product)
  <2>1. Goto(r, point) /\ UNCHANGED rows /\ At(r, "lock")
    BY <1>2 DEF LockProduct
  <2>2. /\ point \in {"validate", "enforce", "commit", "decide"} /\ point \in Points
        /\ point \in {"enforce", "commit"} => tx[r].kind \in {"editProduct", "deleteProduct"}
        /\ point = "commit" => ~Enforced(r)
    BY DEF AfterLock, Checked, Points, Enforced, EnforcedKinds
  <2> HIDE DEF point
  <2>3. SellerKnows(r)' /\ StaffKnows(r)'
    BY <2>1, <2>2, MovesOn DEF SellerKnows, StaffKnows, At
  <2> QED BY <2>1, <2>2, <2>3, MovesOn, QuietKeeps
<1> QED BY <1>1, <1>2

LEMMA DecideKeeps ==
    ASSUME IInv, RInv, NEW r \in Request, DecideTransition(r) \/ DecideVariant(r)
    PROVE  RInv'
<1>1. CASE Refuse(r)
  BY <1>1, RefuseKeeps
<1>2. CASE ~Refuse(r)
  <2>1. PICK point \in {"enforce", "commit"} :
           /\ Goto(r, point) /\ UNCHANGED rows /\ At(r, "decide")
           /\ tx[r].kind \in {"publish", "unpublish", "updateVariant", "deleteVariant"}
           /\ point = "commit" => ~Enforced(r)
    BY <1>2 DEF DecideTransition, DecideVariant, Checked, Enforced, EnforcedKinds
  <2>2. point \in Points
    BY DEF Points
  <2>3. SellerKnows(r)' /\ StaffKnows(r)'
    BY <2>1, <2>2, MovesOn DEF SellerKnows, StaffKnows, At
  <2> QED BY <2>1, <2>2, <2>3, MovesOn, QuietKeeps
<1> QED BY <1>1, <1>2

LEMMA ValidateKeeps ==
    ASSUME IInv, RInv, NEW r \in Request, ValidateValues(r) \/ ValidateOptions(r)
    PROVE  RInv'
<1>1. CASE Refuse(r)
  BY <1>1, RefuseKeeps
<1>2. CASE ~Refuse(r)
  <2>1. PICK point \in {"enforce", "commit"} :
           /\ Goto(r, point) /\ UNCHANGED rows /\ At(r, "validate")
           /\ \/ /\ tx[r].kind \in {"createProduct", "setValues"}
                 /\ ValidValues(tx[r].values)
              \/ tx[r].kind = "createVariant" /\ ValidOptions(tx[r].options)
           /\ point = "commit" => ~Enforced(r)
    BY <1>2 DEF ValidateValues, ValidateOptions, Checked, Enforced, EnforcedKinds
  <2>2. point \in Points
    BY DEF Points
  <2>3. SellerKnows(r)' /\ StaffKnows(r)'
    BY <2>1, <2>2, MovesOn DEF SellerKnows, StaffKnows, At
  <2> QED BY <2>1, <2>2, <2>3, MovesOn, QuietKeeps
<1> QED BY <1>1, <1>2

LEMMA EnforceKeeps ==
    ASSUME IInv, RInv, NEW r \in Request, Enforce(r)
    PROVE  RInv'
<1>1. CASE Refuse(r)
  BY <1>1, RefuseKeeps
<1>2. CASE ~Refuse(r)
  <2>1. /\ Goto(r, "commit") /\ UNCHANGED rows /\ At(r, "enforce")
        /\ NoGaps(ValuesWritten(r), ShapesWritten(r))
    BY <1>2 DEF Enforce
  <2>2. "commit" \in Points /\ SellerKnows(r)
    BY DEF Points, RInv
  <2>3. tx[r].kind \notin StaffKinds
    BY <2>1 DEF IInv, WellFormed, At
  <2>4. SellerKnows(r)'
    BY <2>1, <2>2, MovesOn DEF SellerKnows, At
  <2>5. StaffKnows(r)'
    BY <2>1, <2>2, <2>3, MovesOn DEF StaffKnows, At, StaffKinds
  <2> QED BY <2>1, <2>2, <2>4, <2>5, MovesOn, QuietKeeps
<1> QED BY <1>1, <1>2

-----------------------------------------------------------------------------
(* The commits of sellers.                                                 *)

SellerCommit(r) ==
    \/ CreateProduct(r) \/ UpdateProduct(r) \/ DeleteProduct(r) \/ Transition(r)
    \/ CreateVariant(r) \/ UpdateVariant(r) \/ DeleteVariant(r)

LEMMA SellerCommits ==
    ASSUME IInv, NEW r \in Request, SellerCommit(r)
    PROVE  /\ At(r, "commit") /\ tx[r].kind \notin StaffKinds /\ End(r)
           /\ tx[r].product \in Product /\ tx'[r] = Idle
           /\ \A q \in Request \ {r} : tx'[q] = tx[q]
           /\ config' = config
<1>1. At(r, "commit") /\ tx[r].kind \notin StaffKinds /\ End(r) /\ config' = config
  BY DEF SellerCommit, CreateProduct, UpdateProduct, DeleteProduct, Transition,
         CreateVariant, UpdateVariant, DeleteVariant, StaffKinds
<1>2. tx'[r] = Idle
  BY <1>1 DEF End, IInv, TypeOK
<1> QED BY <1>1, <1>2, Committer

\* The rows of the other products are left alone.
LEMMA CommitLeaves ==
    ASSUME IInv, NEW r \in Request, SellerCommit(r),
           NEW p \in Product, p # tx[r].product
    PROVE  /\ status'[p] = status[p] /\ values'[p] = values[p]
           /\ p \in removed' <=> p \in removed
           /\ LiveVariants(p)' = LiveVariants(p)
           /\ \A v \in Variant : owner[v] = p => sale'[v] = sale[v] /\ options'[v] = options[v]
           /\ \A v \in Variant : owner'[v] = p <=> owner[v] = p
<1>1. TypeOK /\ p # None /\ tx[r].product \in Product
  BY SellerCommits, ProductLifecycleAssumption DEF IInv
<1>2. CASE CreateProduct(r) \/ UpdateProduct(r) \/ DeleteProduct(r) \/ Transition(r)
  BY <1>1, <1>2 DEF CreateProduct, UpdateProduct, DeleteProduct, Transition, TypeOK, variant,
     LiveVariants
<1>3. CASE CreateVariant(r)
  <2>1. tx[r].variant \in Variant /\ owner[tx[r].variant] = None
    BY <1>3, Committer DEF CreateVariant, StaffKinds, VariantKinds
  <2> QED BY <1>1, <1>3, <2>1 DEF CreateVariant, TypeOK, product, LiveVariants
<1>4. CASE UpdateVariant(r) \/ DeleteVariant(r)
  <2>1. tx[r].variant \in Variant /\ owner[tx[r].variant] = tx[r].product
    BY <1>4, Committer DEF UpdateVariant, DeleteVariant, StaffKinds, VariantKinds, VariantChanges
  <2> QED BY <1>1, <1>4, <2>1 DEF UpdateVariant, DeleteVariant, TypeOK, product, LiveVariants
<1> QED BY <1>2, <1>3, <1>4 DEF SellerCommit

\* What is new in the rows is what the request carried.
LEMMA CommitWrites ==
    ASSUME IInv, NEW r \in Request, SellerCommit(r)
    PROVE  /\ \A p \in Product : HasRow(p)' =>
                 \/ HasRow(p) /\ values'[p] = values[p]
                 \/ /\ tx[r].kind \in {"createProduct", "setValues"}
                    /\ values'[p] = tx[r].values
           /\ \A v \in Variant : owner'[v] # None =>
                 \/ owner[v] # None /\ options'[v] = options[v]
                 \/ tx[r].kind = "createVariant" /\ options'[v] = tx[r].options
<1>1. TypeOK
  BY DEF IInv
<1>2. CASE CreateProduct(r)
  BY <1>1, <1>2 DEF CreateProduct, TypeOK, variant, HasRow
<1>3. CASE UpdateProduct(r)
  BY <1>1, <1>3 DEF UpdateProduct, ValuesWritten, TypeOK, variant, HasRow
<1>4. CASE DeleteProduct(r)
  BY <1>4 DEF DeleteProduct, HasRow
<1>5. CASE Transition(r)
  <2>1. Live(tx[r].product)
    BY <1>5, Committer DEF Transition, StaffKinds
  <2> QED BY <1>1, <1>5, <2>1 DEF Transition, TypeOK, variant, HasRow, Live
<1>6. CASE CreateVariant(r)
  BY <1>1, <1>6 DEF CreateVariant, TypeOK, product, HasRow
<1>7. CASE UpdateVariant(r) \/ DeleteVariant(r)
  BY <1>1, <1>7 DEF UpdateVariant, DeleteVariant, product, HasRow
<1> QED BY <1>2, <1>3, <1>4, <1>5, <1>6, <1>7 DEF SellerCommit

\* Another seller's check of its own product is still good: the lock of the
\* product's row keeps the two apart.
LEMMA CommitKeepsKnowledge ==
    ASSUME IInv, NEW r \in Request, SellerCommit(r), NEW q \in Request \ {r},
           SellerKnows(q)
    PROVE  SellerKnows(q)'
<1>1. tx'[q] = tx[q] /\ config' = config /\ Holds(r, tx[r].product) /\ tx[r].product \in Product
  BY SellerCommits DEF Holds, At
<1>2. /\ (ValidValues(tx[q].values))' <=> ValidValues(tx[q].values)
      /\ (ValidOptions(tx[q].options))' <=> ValidOptions(tx[q].options)
  BY <1>1 DEF ValidValues, ValidOptions
<1>3. ASSUME At(q, "commit"), Enforced(q)'
      PROVE  /\ Enforced(q)
             /\ (NoGaps(ValuesWritten(q), ShapesWritten(q)))'
                   <=> NoGaps(ValuesWritten(q), ShapesWritten(q))
  <2>1. tx[q].kind \in EnforcedKinds \cup {"publish"}
    BY <1>1, <1>3 DEF Enforced
  <2>2. tx[q].kind \notin StaffKinds
    BY <2>1 DEF StaffKinds, EnforcedKinds
  <2>3. PICK p \in Product : p = tx[q].product
    BY <1>3, <2>2, Committer
  <2>4. p # tx[r].product
    BY <1>1, <1>3, <2>3 DEF IInv, Exclusive, Holds, At
  <2>5. /\ status'[p] = status[p] /\ values'[p] = values[p]
        /\ LiveVariants(p)' = LiveVariants(p)
        /\ \A v \in Variant : owner[v] = p => sale'[v] = sale[v] /\ options'[v] = options[v]
    BY <2>4, CommitLeaves
  <2>6. Enforced(q)
    BY <1>1, <1>3, <2>3, <2>5 DEF Enforced
  <2>7. ValuesWritten(q)' = ValuesWritten(q)
    BY <1>1, <2>3, <2>5 DEF ValuesWritten
  <2>8. tx[q].kind = "updateVariant" => tx[q].variant \in Variant /\ owner[tx[q].variant] = p
    BY <1>3, <2>2, <2>3, Committer DEF VariantKinds, VariantChanges
  <2>9. \A w \in LiveVariants(p) : Shape(w)' = Shape(w)
    BY <2>5 DEF Shape, LiveVariants
  <2>10. ShapesWritten(q)' = ShapesWritten(q)
    <3> DEFINE v == tx[q].variant
               written == CASE tx[q].kind = "createVariant" -> DOMAIN tx[q].options
                            [] tx[q].kind = "updateVariant" -> DOMAIN options[v]
                            [] OTHER -> {}
    <3>1. ShapesWritten(q) =
             {Shape(w) : w \in LiveVariants(p) \ {v}} \cup
             (IF v = None THEN {} ELSE {[status |-> tx[q].sale, attributes |-> written]})
      BY <2>3 DEF ShapesWritten
    <3>2. ShapesWritten(q)' =
             {Shape(w)' : w \in LiveVariants(p)' \ {v}} \cup
             (IF v = None THEN {} ELSE {[status |-> tx[q].sale, attributes |->
                 CASE tx[q].kind = "createVariant" -> DOMAIN tx[q].options
                   [] tx[q].kind = "updateVariant" -> DOMAIN options'[v]
                   [] OTHER -> {}]})
      BY <1>1, <2>3 DEF ShapesWritten, LiveVariants
    <3>3. {Shape(w)' : w \in LiveVariants(p)' \ {v}} = {Shape(w) : w \in LiveVariants(p) \ {v}}
      BY <2>5, <2>9
    <3>4. tx[q].kind = "updateVariant" => options'[v] = options[v]
      BY <2>5, <2>8
    <3> QED BY <3>1, <3>2, <3>3, <3>4
  <2>11. (NoGaps(ValuesWritten(q), ShapesWritten(q)))'
            <=> NoGaps(ValuesWritten(q), ShapesWritten(q))
    BY <1>1, <2>7, <2>10 DEF NoGaps
  <2> QED BY <2>6, <2>11
<1> QED BY <1>1, <1>2, <1>3 DEF SellerKnows, At

LEMMA SellerCommitKeeps ==
    ASSUME Apart, IInv, RInv, NEW r \in Request, SellerCommit(r)
    PROVE  RInv'
<1>1. /\ At(r, "commit") /\ tx[r].kind \notin StaffKinds /\ tx'[r] = Idle /\ config' = config
      /\ \A q \in Request \ {r} : tx'[q] = tx[q]
  BY SellerCommits
<1>2. SellerKnows(r)' /\ StaffKnows(r)'
  BY <1>1, NothingYet DEF Idle
<1>3. ASSUME NEW q \in Request \ {r} PROVE SellerKnows(q)' /\ StaffKnows(q)'
  <2>1. SellerKnows(q)'
    BY CommitKeepsKnowledge DEF RInv
  <2>2. ~At(q, "idle") => tx[q].kind \notin StaffKinds
    BY <1>1 DEF Apart, At
  <2>3. At(q, "upsert") \/ At(q, "checkVaried") => tx[q].kind \in StaffKinds
    BY StaffKind DEF At
  <2> QED BY <1>1, <2>1, <2>2, <2>3 DEF StaffKnows, At, StaffKinds
<1>4. ValuesFollowConfiguration'
  <2>1. SellerKnows(r)
    BY DEF RInv
  <2>2. ASSUME NEW p \in Product, HasRow(p)' PROVE ValidValues(values'[p])
    <3>1. CASE HasRow(p) /\ values'[p] = values[p]
      BY <3>1 DEF RInv, ValuesFollowConfiguration
    <3>2. CASE tx[r].kind \in {"createProduct", "setValues"} /\ values'[p] = tx[r].values
      BY <1>1, <2>1, <3>2 DEF SellerKnows
    <3> QED BY <2>2, <3>1, <3>2, CommitWrites
  <2>3. ASSUME NEW v \in Variant, owner'[v] # None PROVE ValidOptions(options'[v])
    <3>1. CASE owner[v] # None /\ options'[v] = options[v]
      BY <3>1 DEF RInv, ValuesFollowConfiguration
    <3>2. CASE tx[r].kind = "createVariant" /\ options'[v] = tx[r].options
      BY <1>1, <2>1, <3>2 DEF SellerKnows
    <3> QED BY <2>3, <3>1, <3>2, CommitWrites
  <2> QED BY <1>1, <2>2, <2>3 DEF ValuesFollowConfiguration, ValidValues, ValidOptions
<1> QED BY <1>2, <1>3, <1>4 DEF RInv

-----------------------------------------------------------------------------
(* The steps of the staff.                                                 *)

\* An attribute that is used is attached.
LEMMA UsedIsAttached ==
    ASSUME ValuesFollowConfiguration, NEW a, Used(a)
    PROVE  config[a].attached
BY DEF ValuesFollowConfiguration, ValidValues, ValidOptions, Used, Valued, Varied

LEMMA StaffReadsKeep ==
    ASSUME IInv, RInv, NEW r \in Request,
           ReadConfig(r) \/ CheckValued(r) \/ CheckVaried(r) \/ Upsert(r)
    PROVE  RInv'
<1>1. CASE Refuse(r)
  BY <1>1, RefuseKeeps
<1>2. CASE ~Refuse(r)
  <2>1. UNCHANGED rows /\ tx[r] \in Transactions /\ tx[r].kind \in StaffKinds
    BY <1>2, StaffKind DEF ReadConfig, CheckValued, CheckVaried, Upsert, At, IInv, TypeOK
  <2>2. \A q \in Request \ {r} : tx'[q] = tx[q]
    BY <1>2 DEF ReadConfig, CheckValued, CheckVaried, Upsert, Goto, IInv, TypeOK
  <2>3. /\ tx'[r].kind = tx[r].kind /\ tx'[r].attribute = tx[r].attribute
        /\ tx'[r].flags = tx[r].flags
    BY <1>2, <2>1 DEF ReadConfig, CheckValued, CheckVaried, Upsert, Goto, IInv, TypeOK, Transactions
  <2>4. \/ tx'[r].pc = "checkValued"
        \/ tx'[r].pc = "checkVaried" /\ ~Valued(tx[r].attribute)
        \/ tx'[r].pc = "upsert" /\ ~Used(tx[r].attribute)
        \/ tx'[r].pc = "commit" /\ ~Used(tx[r].attribute)
        \/ /\ tx'[r].pc = "commit" /\ tx[r].kind = "putConfiguration"
           /\ tx'[r].seen.attached /\ tx'[r].seen.variation = tx'[r].flags.variation
    <3>1. CASE ReadConfig(r)
      <4> DEFINE seen == config[tx[r].attribute]
      <4>1. /\ seen \in Flags /\ tx[r].flags \in Flags
            /\ Used(tx[r].attribute) => seen.attached
        BY <2>1, <3>1, StaffKind, UsedIsAttached DEF ReadConfig, At, RInv, Transactions
      <4>2. CASE tx[r].kind = "detach"
        <5>1. Goto(r, "checkValued")
          BY <1>2, <3>1, <4>2 DEF ReadConfig
        <5> QED BY <5>1 DEF Goto, IInv, TypeOK
      <4>3. CASE tx[r].kind = "putConfiguration"
        <5>1. tx' = [tx EXCEPT ![r].seen = seen,
                               ![r].pc = IF ~seen.attached THEN "upsert"
                                         ELSE IF seen.variation # tx[r].flags.variation
                                              THEN "checkValued" ELSE "commit"]
          BY <1>2, <3>1, <4>3 DEF ReadConfig
        <5>2. /\ tx'[r].seen = seen
              /\ tx'[r].pc = IF ~seen.attached THEN "upsert"
                             ELSE IF seen.variation # tx[r].flags.variation
                                  THEN "checkValued" ELSE "commit"
          BY <2>1, <5>1 DEF IInv, TypeOK, Transactions
        <5> QED BY <2>3, <4>1, <4>3, <5>2
      <4> QED BY <2>1, <4>2, <4>3 DEF StaffKinds
    <3>2. CASE CheckValued(r)
      <4>1. Goto(r, "checkVaried") /\ ~Valued(tx[r].attribute)
        BY <1>2, <3>2 DEF CheckValued
      <4> QED BY <4>1 DEF Goto, IInv, TypeOK
    <3>3. CASE CheckVaried(r)
      <4>1. Goto(r, "commit") /\ ~Used(tx[r].attribute)
        BY <1>2, <3>3 DEF CheckVaried, RInv, StaffKnows, Used
      <4> QED BY <4>1 DEF Goto, IInv, TypeOK
    <3>4. CASE Upsert(r)
      BY <2>1, <3>4 DEF Upsert, RInv, StaffKnows, IInv, TypeOK, Transactions
    <3> QED BY <1>2, <3>1, <3>2, <3>3, <3>4
  <2>5. /\ (Used(tx[r].attribute))' <=> Used(tx[r].attribute)
        /\ (Valued(tx[r].attribute))' <=> Valued(tx[r].attribute)
    BY <2>1, <2>3 DEF Used, Valued, Varied, HasRow, rows, product, variant
  <2>6. SellerKnows(r)' /\ StaffKnows(r)'
    BY <2>1, <2>3, <2>4, <2>5 DEF SellerKnows, StaffKnows, At, Enforced, EnforcedKinds, StaffKinds
  <2> QED BY <2>1, <2>2, <2>6, QuietKeeps
<1> QED BY <1>1, <1>2

\* A change of one row of the configuration, by a request with which no seller's
\* is under way.
LEMMA ConfigurationKeeps ==
    ASSUME Apart, IInv, RInv, NEW r \in Request, At(r, "commit"), tx[r].kind \in StaffKinds,
           End(r), UNCHANGED <<product, variant>>, NEW a \in Attribute, NEW row,
           config' = [config EXCEPT ![a] = row],
           ~Used(a) \/ (row.attached = config[a].attached /\ row.variation = config[a].variation)
    PROVE  RInv'
<1> USE DEF product, variant
<1>1. tx'[r] = Idle /\ \A q \in Request \ {r} : tx'[q] = tx[q]
  BY DEF End, IInv, TypeOK
<1>2. SellerKnows(r)' /\ StaffKnows(r)'
  BY <1>1, NothingYet DEF Idle
<1>3. ASSUME NEW q \in Request \ {r} PROVE SellerKnows(q)' /\ StaffKnows(q)'
  <2>1. ~At(q, "idle") => tx[q].kind \in StaffKinds
    BY DEF Apart, At
  <2>2. SellerKnows(q)'
    BY <1>1, <2>1 DEF SellerKnows, At, Enforced, EnforcedKinds, StaffKinds
  <2>3. StaffKnows(q)'
    BY <1>1 DEF RInv, StaffKnows, At, Used, Valued, Varied, HasRow
  <2> QED BY <2>2, <2>3
<1>4. \A b \in Attribute : Used(b) =>
         config'[b].attached = config[b].attached /\ config'[b].variation = config[b].variation
  BY DEF IInv, TypeOK
<1>5. ASSUME NEW p \in Product, HasRow(p), NEW b \in values[p]
      PROVE  config'[b].attached /\ ~config'[b].variation
  <2>1. b \in Attribute /\ Used(b)
    BY <1>5 DEF IInv, TypeOK, Used, Valued, Varied
  <2>2. config[b].attached /\ ~config[b].variation
    BY <1>5 DEF RInv, ValuesFollowConfiguration, ValidValues
  <2> QED BY <1>4, <2>1, <2>2
<1>6. ASSUME NEW v \in Variant, owner[v] # None, NEW b \in DOMAIN options[v]
      PROVE  config'[b].attached /\ config'[b].variation
  <2>1. b \in Attribute
    <3>1. options[v] \in Combinations
      BY DEF IInv, TypeOK
    <3> QED BY <3>1, CombinationDomain, ProductLifecycleAssumption
  <2>2. Used(b) /\ config[b].attached /\ config[b].variation
    BY <1>6 DEF RInv, ValuesFollowConfiguration, ValidOptions, Used, Valued, Varied
  <2> QED BY <1>4, <2>1, <2>2
<1>7. ValuesFollowConfiguration'
  BY <1>5, <1>6 DEF ValuesFollowConfiguration, HasRow, ValidValues, ValidOptions
<1> QED BY <1>2, <1>3, <1>7 DEF RInv

LEMMA StaffCommitKeeps ==
    ASSUME Apart, IInv, RInv, NEW r \in Request, PutConfiguration(r) \/ Detach(r)
    PROVE  RInv'
<1> DEFINE a == tx[r].attribute
           seen == tx[r].seen
<1>1. CASE Refuse(r)
  BY <1>1, RefuseKeeps
<1>2. CASE PutConfiguration(r) /\ ~Refuse(r)
  <2> DEFINE row == IF seen.attached THEN Merged(config[a], seen, tx[r].flags) ELSE tx[r].flags
  <2>1. /\ At(r, "commit") /\ tx[r].kind = "putConfiguration"
        /\ config' = [config EXCEPT ![a] = row] /\ seen.attached = config[a].attached
        /\ End(r) /\ UNCHANGED <<product, variant>>
    BY <1>2 DEF PutConfiguration
  <2>2. a \in Attribute
    BY <2>1 DEF IInv, WellFormed, At, StaffKinds
  <2>3. ~Used(a) \/ (seen.attached /\ seen.variation = tx[r].flags.variation)
    BY <2>1 DEF RInv, StaffKnows
  <2>4. ~Used(a) \/ (row.attached = config[a].attached /\ row.variation = config[a].variation)
    <3>1. config[a] \in Flags
      BY <2>2 DEF IInv, TypeOK
    <3>2. CASE Used(a)
      <4>1. config[a].attached = TRUE
        BY <3>1, <3>2, UsedIsAttached DEF RInv, Flags
      <4> QED BY <2>1, <2>3, <3>2, <4>1 DEF Merged
    <3> QED BY <3>2
  <2> HIDE DEF row, a
  <2> QED BY <2>1, <2>2, <2>4, ConfigurationKeeps DEF StaffKinds
<1>3. CASE Detach(r)
  <2>1. /\ At(r, "commit") /\ tx[r].kind = "detach"
        /\ config' = [config EXCEPT ![a] = Detached]
        /\ End(r) /\ UNCHANGED <<product, variant>>
    BY <1>3 DEF Detach
  <2>2. a \in Attribute /\ ~Used(a)
    BY <2>1 DEF IInv, WellFormed, At, StaffKinds, RInv, StaffKnows
  <2> HIDE DEF a
  <2> QED BY <2>1, <2>2, ConfigurationKeeps DEF StaffKinds
<1> QED BY <1>1, <1>2, <1>3

-----------------------------------------------------------------------------
(* The invariant.                                                          *)

LEMMA InitRInv == Init => RInv
BY DEF Init, RInv, ValuesFollowConfiguration, HasRow, SellerKnows, StaffKnows, At, Idle

LEMMA StepRInv ==
    ASSUME Apart, IInv, RInv, [Next]_vars
    PROVE  RInv'
<1>1. CASE UNCHANGED vars
  <2>1. UNCHANGED rows /\ \A q \in Request : tx'[q] = tx[q]
    BY <1>1 DEF vars, rows, product, variant
  <2>2. \A q \in Request : SellerKnows(q)' /\ StaffKnows(q)'
    BY <2>1, QuietOthers DEF RInv
  <2>3. ValuesFollowConfiguration'
    BY <2>1 DEF RInv, ValuesFollowConfiguration, HasRow, ValidValues, ValidOptions, rows,
       product, variant
  <2> QED BY <2>2, <2>3 DEF RInv
<1>2. ASSUME NEW r \in Request, Begin(r) \/ Rollback(r) PROVE RInv'
  BY <1>2, BeginKeeps, RefuseKeeps DEF Rollback
<1>3. ASSUME NEW r \in Request, SellerStep(r) PROVE RInv'
  BY <1>3, LockKeeps, DecideKeeps, ValidateKeeps, EnforceKeeps, SellerCommitKeeps
     DEF SellerStep, SellerCommit
<1>4. ASSUME NEW r \in Request, StaffStep(r) PROVE RInv'
  BY <1>4, StaffReadsKeep, StaffCommitKeeps DEF StaffStep
<1> QED BY <1>1, <1>2, <1>3, <1>4 DEF Next

\* Every value and every option that is stored is one the configuration asks
\* for, as long as the staff change it while no seller's request is under way:
\* used_in_category then sees every use there is.
THEOREM ValuesFollowWhenApart == Spec /\ []Apart => []ValuesFollowConfiguration
<1>1. Apart /\ IInv /\ RInv /\ [Next]_vars => RInv'
  BY StepRInv
<1>2. RInv => ValuesFollowConfiguration
  BY DEF RInv
<1> QED BY <1>1, <1>2, InitRInv, Inductive, PTL DEF Spec

-----------------------------------------------------------------------------
(* The rules of a published product.                                       *)

\* published_gaps is R14, once what was written is there: the values, and one
\* shape for each live variant.
LEMMA NoGapsIsComplete ==
    ASSUME IInv, IInv', config' = config, NEW p \in Product, NEW vals, NEW shapes,
           NoGaps(vals, shapes), values'[p] = vals,
           \A w \in LiveVariants(p)' : Shape(w)' \in shapes,
           \A s \in shapes : \E w \in LiveVariants(p)' : s = Shape(w)'
    PROVE  Complete(p)'
<1>1. {a \in Attribute : config'[a].required /\ ~config'[a].variation} \subseteq values'[p]
  BY DEF NoGaps
<1>2. ASSUME NEW v \in LiveVariants(p)'
      PROVE  {a \in Attribute : config'[a].required /\ config'[a].variation}
                \subseteq DOMAIN options'[v]
  <2>1. Shape(v)' \in shapes /\ Shape(v)'.attributes = DOMAIN options'[v]
    BY DEF Shape
  <2> QED BY <2>1 DEF NoGaps
<1>3. PICK v \in LiveVariants(p)' : Shape(v)' \in shapes /\ Shape(v)'.status = "active"
  BY DEF NoGaps
<1>4. v \in Variant /\ v \in OnSale(p)'
  BY <1>3 DEF OnSale, LiveVariants, Shape
<1>5. DOMAIN options'[v] \in SUBSET Select
  BY <1>4, CombinationDomain DEF IInv, TypeOK
<1>6. \A w \in LiveVariants(p)' : DOMAIN options'[w] = DOMAIN options'[v]
  <2> SUFFICES ASSUME NEW w \in LiveVariants(p)' PROVE DOMAIN options'[w] = DOMAIN options'[v]
    OBVIOUS
  <2>1. Shape(w)'.attributes = Shape(v)'.attributes
    BY <1>3 DEF NoGaps
  <2> QED BY <2>1 DEF Shape
<1>7. \E S \in SUBSET Select : \A w \in LiveVariants(p)' : DOMAIN options'[w] = S
  BY <1>5, <1>6
<1>8. OnSale(p)' # {}
  BY <1>4
<1> QED BY <1>1, <1>2, <1>7, <1>8 DEF Complete

\* A commit of a request that ran the check leaves its product complete.
LEMMA CommitCompletes ==
    ASSUME IInv, IInv', RInv, NEW r \in Request, SellerCommit(r), Enforced(r),
           NEW p \in Product, p = tx[r].product
    PROVE  Complete(p)'
<1>1. /\ At(r, "commit") /\ tx[r].kind \in EnforcedKinds \cup {"publish"} /\ config' = config
      /\ tx[r].kind \notin StaffKinds
  BY SellerCommits DEF Enforced
<1>2. NoGaps(ValuesWritten(r), ShapesWritten(r))
  BY <1>1 DEF RInv, SellerKnows
<1>3. TypeOK /\ OnlyRowsGo
  BY DEF IInv, Tables
<1>4. CASE tx[r].kind \in {"editProduct", "setValues", "publish"}
  <2>1. tx[r].variant = None
    BY <1>1, <1>4 DEF IInv, TypeOK, Transactions, WellFormed, At, VariantKinds, VariantChanges
  <2>2. ShapesWritten(r) = {Shape(w) : w \in LiveVariants(p)}
    <3>1. None \notin LiveVariants(p)
      BY ProductLifecycleAssumption DEF LiveVariants
    <3> QED BY <1>4, <2>1, <3>1 DEF ShapesWritten
  <2>3. UNCHANGED variant /\ values'[p] = ValuesWritten(r)
    BY <1>3, <1>4 DEF SellerCommit, CreateProduct, UpdateProduct, DeleteProduct, Transition,
       CreateVariant, UpdateVariant, DeleteVariant, ValuesWritten, TypeOK
  <2>4. LiveVariants(p)' = LiveVariants(p) /\ \A w \in LiveVariants(p) : Shape(w)' = Shape(w)
    BY <2>3 DEF LiveVariants, Shape, variant
  <2> QED BY <1>1, <1>2, <2>2, <2>3, <2>4, NoGapsIsComplete
<1>5. CASE tx[r].kind \in {"createVariant", "updateVariant"}
  <2>0. PICK v \in Variant : v = tx[r].variant
    BY <1>1, <1>5, Committer DEF VariantKinds, VariantChanges
  <2> DEFINE written == IF tx[r].kind = "createVariant" THEN DOMAIN tx[r].options
                        ELSE DOMAIN options[v]
             own == [status |-> tx[r].sale, attributes |-> written]
  <2>1. v # None /\ v \notin retired
    BY <2>0, <1>1, <1>3, <1>5, Committer, ProductLifecycleAssumption
       DEF VariantKinds, VariantChanges, OnlyRowsGo
  <2>2. ShapesWritten(r) = {Shape(w) : w \in LiveVariants(p) \ {v}} \cup {own}
    BY <1>5, <2>0, <2>1 DEF ShapesWritten
  <2>3. values'[p] = ValuesWritten(r) /\ retired' = retired
    BY <1>5 DEF SellerCommit, CreateProduct, UpdateProduct, DeleteProduct, Transition,
       CreateVariant, UpdateVariant, DeleteVariant, ValuesWritten, product
  <2>4. /\ owner'[v] = p /\ sale'[v] = tx[r].sale
        /\ DOMAIN options'[v] = written
        /\ \A w \in Variant \ {v} :
              owner'[w] = owner[w] /\ sale'[w] = sale[w] /\ options'[w] = options[w]
    <3>1. CASE CreateVariant(r)
      BY <1>3, <2>0, <3>1 DEF CreateVariant, TypeOK
    <3>2. CASE UpdateVariant(r)
      <4>1. owner[v] = p
        BY <1>1, <2>0, <3>2, Committer DEF UpdateVariant, VariantChanges
      <4> QED BY <1>3, <2>0, <3>2, <4>1 DEF UpdateVariant, TypeOK
    <3> QED BY <1>5, <3>1, <3>2 DEF SellerCommit, CreateProduct, UpdateProduct,
            DeleteProduct, Transition, DeleteVariant
  <2> HIDE DEF written
  <2>5. LiveVariants(p)' = (LiveVariants(p) \ {v}) \cup {v}
    BY <2>1, <2>3, <2>4 DEF LiveVariants
  <2>6. Shape(v)' = own
    BY <2>4 DEF Shape
  <2>7. \A w \in LiveVariants(p) \ {v} : Shape(w)' = Shape(w)
    BY <2>4 DEF LiveVariants, Shape
  <2> HIDE DEF own
  <2> QED BY <1>1, <1>2, <2>2, <2>3, <2>5, <2>6, <2>7, NoGapsIsComplete
<1> QED BY <1>1, <1>4, <1>5 DEF EnforcedKinds

\* Of the requests that leave their product active, only the deletion of a
\* variant does not run the check.
LEMMA CommitCases ==
    ASSUME IInv, NEW r \in Request, SellerCommit(r),
           NEW p \in Product, p = tx[r].product, IsActive(p)'
    PROVE  Enforced(r) \/ DeleteVariant(r)
<1>1. p \notin removed' /\ status'[p] = "active" /\ TypeOK
  BY DEF IsActive, Live, IInv
<1>2. ~CreateProduct(r) /\ ~DeleteProduct(r)
  BY <1>1 DEF CreateProduct, DeleteProduct, TypeOK
<1>3. CASE UpdateProduct(r) \/ CreateVariant(r) \/ UpdateVariant(r)
  BY <1>1, <1>3 DEF UpdateProduct, CreateVariant, UpdateVariant, product, Enforced, EnforcedKinds
<1>4. CASE Transition(r)
  BY <1>1, <1>4 DEF Transition, Target, TypeOK, Enforced
<1> QED BY <1>2, <1>3, <1>4 DEF SellerCommit

\* What does not touch a product and its variants does not edit it.
LEMMA QuietNotSaved ==
    ASSUME UNCHANGED <<product, variant>>, NEW p \in Product
    PROVE  /\ ~Saved(p)
           /\ config' = config /\ Complete(p) => Complete(p)'
BY DEF product, variant, Saved, Complete, OnSale, LiveVariants

LEMMA LeftNotSaved ==
    ASSUME IInv, NEW r \in Request, SellerCommit(r), NEW p \in Product, p # tx[r].product
    PROVE  /\ ~Saved(p)
           /\ Complete(p) => Complete(p)'
<1>1. /\ status'[p] = status[p] /\ values'[p] = values[p] /\ config' = config
      /\ LiveVariants(p)' = LiveVariants(p)
      /\ \A v \in Variant : owner[v] = p => sale'[v] = sale[v] /\ options'[v] = options[v]
      /\ \A v \in Variant : owner'[v] = p <=> owner[v] = p
  BY CommitLeaves, SellerCommits
<1>2. ~Saved(p)
  BY <1>1 DEF Saved
<1>3. \A v \in LiveVariants(p) : sale'[v] = sale[v] /\ options'[v] = options[v]
  BY <1>1 DEF LiveVariants
<1>4. OnSale(p)' = OnSale(p)
  BY <1>1, <1>3 DEF OnSale
<1>5. Complete(p) => Complete(p)'
  BY <1>1, <1>3, <1>4 DEF Complete
<1> QED BY <1>2, <1>5

\* The deletion of a variant leaves a complete product complete if it is still
\* on sale.
LEMMA DeletionKeepsComplete ==
    ASSUME IInv, IInv', NEW r \in Request, DeleteVariant(r),
           NEW p \in Product, IsActive(p)', Complete(p)
    PROVE  Complete(p)'
<1>1. UNCHANGED <<status, removed, values, owner, sale, options, config>>
  BY DEF DeleteVariant, product
<1>2. LiveVariants(p)' \subseteq LiveVariants(p)
  BY <1>1 DEF DeleteVariant, LiveVariants
<1>3. OnSale(p)' # {}
  BY DEF IInv, Tables, ActiveSells, IsActive
<1>4. \E S \in SUBSET Select : \A v \in LiveVariants(p)' : DOMAIN options'[v] = S
  BY <1>1, <1>2 DEF Complete
<1>5. \A v \in LiveVariants(p)' :
        {a \in Attribute : config'[a].required /\ config'[a].variation} \subseteq DOMAIN options'[v]
  BY <1>1, <1>2 DEF Complete
<1>6. {a \in Attribute : config'[a].required /\ ~config'[a].variation} \subseteq values'[p]
  BY <1>1 DEF Complete
<1> QED BY <1>3, <1>4, <1>5, <1>6 DEF Complete

Saves == \A p \in Product : IsActive(p)' /\ Saved(p) => Complete(p)'
NotPushedOut ==
    config' = config =>
        \A p \in Product : IsActive(p) /\ IsActive(p)' /\ Complete(p) => Complete(p)'

LEMMA RulesKept ==
    ASSUME IInv, IInv', RInv, [Next]_vars
    PROVE  Saves /\ NotPushedOut
<1>1. ASSUME UNCHANGED <<product, variant>> PROVE Saves /\ NotPushedOut
  BY <1>1, QuietNotSaved DEF Saves, NotPushedOut
<1>2. ASSUME NEW r \in Request, SellerCommit(r) PROVE Saves /\ NotPushedOut
  <2>1. ASSUME NEW p \in Product, IsActive(p)', Saved(p) PROVE Complete(p)'
    <3>1. p = tx[r].product
      BY <1>2, <2>1, LeftNotSaved
    <3>2. ~DeleteVariant(r)
      BY <2>1 DEF DeleteVariant, Saved, product
    <3> QED BY <1>2, <2>1, <3>1, <3>2, CommitCases, CommitCompletes
  <2>2. ASSUME NEW p \in Product, IsActive(p)', Complete(p) PROVE Complete(p)'
    <3>1. CASE p # tx[r].product
      BY <1>2, <2>2, <3>1, LeftNotSaved
    <3>2. CASE p = tx[r].product /\ Enforced(r)
      BY <1>2, <2>2, <3>2, CommitCompletes
    <3>3. CASE DeleteVariant(r)
      BY <2>2, <3>3, DeletionKeepsComplete
    <3> QED BY <1>2, <2>2, <3>1, <3>2, <3>3, CommitCases
  <2> QED BY <2>1, <2>2 DEF Saves, NotPushedOut
<1>3. CASE UNCHANGED vars
  BY <1>1, <1>3 DEF vars, product, variant
<1>4. ASSUME NEW r \in Request, Begin(r) \/ SellerStep(r) \/ StaffStep(r) \/ Rollback(r)
      PROVE  Saves /\ NotPushedOut
  BY <1>1, <1>2, <1>4, QuietStep DEF SellerStep, SellerCommit
<1> QED BY <1>3, <1>4 DEF Next

\* Whatever else the sellers do, a publication, a change of values, a new
\* variant and a changed status leave an active product with all that R14 asks,
\* as long as the configuration does not change under the request:
\* enforce_product_invariants has seen what is committed.  (delete_variant does
\* not call it, and is not among them.)
THEOREM SavesKeepRulesWhenApart == Spec /\ []Apart => SavesKeepTheRules
<1>1. Apart /\ IInv /\ RInv /\ [Next]_vars => RInv'
  BY StepRInv
<1>2. IInv /\ IInv' /\ RInv /\ [Next]_vars => [Saves]_vars
  BY RulesKept
<1>3. Spec /\ []Apart => [][Saves]_vars
  BY <1>1, <1>2, InitRInv, Inductive, PTL DEF Spec
<1> QED BY <1>3, PTL DEF SavesKeepTheRules, Saves

\* No request of a seller takes an active product that satisfies the rules out
\* of them, its last check and its commit apart as they are.
THEOREM NeverPushedOutWhenApart == Spec /\ []Apart => NeverPushedOut
<1>1. Apart /\ IInv /\ RInv /\ [Next]_vars => RInv'
  BY StepRInv
<1>2. IInv /\ IInv' /\ RInv /\ [Next]_vars => [NotPushedOut]_vars
  BY RulesKept
<1>3. Spec /\ []Apart => [][NotPushedOut]_vars
  BY <1>1, <1>2, InitRInv, Inductive, PTL DEF Spec
<1> QED BY <1>3, PTL DEF NeverPushedOut, NotPushedOut

=============================================================================
