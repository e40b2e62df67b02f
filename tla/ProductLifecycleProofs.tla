----------------------- MODULE ProductLifecycleProofs ------------------------
(***************************************************************************)
(* Proofs about ProductLifecycle, for every set of products, variants,     *)
(* attributes and requests: an active product keeps something to sell, its *)
(* variants are told apart by one set of attributes, what is deleted stays *)
(* as it was, and what a shop shows follows Listing.                       *)
(***************************************************************************)
EXTENDS ProductLifecycle, TLAPS

-----------------------------------------------------------------------------
(* The inductive invariant.                                                *)

VariantChanges == {"updateVariant", "deleteVariant"}
VariantKinds == {"createVariant"} \cup VariantChanges
StatusKinds == {"publish", "unpublish"}
SellerKinds == {"editProduct", "setValues", "deleteProduct"} \cup StatusKinds
               \cup VariantKinds

GoesOff(r) == tx[r].kind = "deleteVariant" \/ tx[r].sale = "inactive"

\* What a request is about, and the points it goes through.
WellFormed(r) ==
    ~At(r, "idle") =>
        /\ tx[r].kind \in SellerKinds \cup {"createProduct"} => tx[r].product \in Product
        /\ tx[r].kind \in StaffKinds =>
              /\ tx[r].product = None
              /\ tx[r].attribute \in Attribute
              /\ tx[r].pc \in {"readConfig", "checkValued", "checkVaried", "upsert", "commit"}
        /\ tx[r].kind \in VariantKinds <=> tx[r].variant \in Variant
        /\ tx[r].kind = "createProduct" => tx[r].pc \in {"validate", "commit"}
        /\ tx[r].kind \in SellerKinds =>
              tx[r].pc \in {"lock", "decide", "validate", "enforce", "commit"}

\* What a request knows of the rows it changes: those it may assume from the
\* start, and those it has checked under the lock.
Knows(r) ==
    ~At(r, "idle") =>
        /\ tx[r].kind = "createProduct" => ~HasRow(tx[r].product)
        /\ tx[r].kind \in SellerKinds => HasRow(tx[r].product)
        /\ tx[r].kind \in SellerKinds /\ ~At(r, "lock") => Live(tx[r].product)
        /\ tx[r].kind = "createVariant" => owner[tx[r].variant] = None
        /\ tx[r].kind \in VariantChanges => owner[tx[r].variant] = tx[r].product
        /\ At(r, "enforce") \/ At(r, "commit") =>
              /\ tx[r].kind = "createVariant" =>
                    ConsistentSet(tx[r].product, DOMAIN tx[r].options)
              /\ tx[r].kind \in VariantChanges =>
                    /\ tx[r].variant \notin retired
                    /\ GoesOff(r) => AnotherActive(tx[r].product, tx[r].variant)
              /\ tx[r].kind \in StatusKinds =>
                    <<status[tx[r].product], Target(tx[r].kind)>> \in Transitions
        /\ At(r, "commit") /\ tx[r].kind = "publish" => OnSale(tx[r].product) # {}

\* One request at a time is past the lock of a product, and an id goes to one
\* creation.
Exclusive ==
    \A q, r \in Request : q # r =>
        /\ \A p \in Product : ~(Holds(q, p) /\ Holds(r, p))
        /\ tx[q].kind = "createVariant" /\ tx[r].kind = "createVariant" =>
              tx[q].variant # tx[r].variant

\* Only a row can be deleted, and a variant is one of a product with a row.
OnlyRowsGo ==
    /\ \A v \in Variant : owner[v] # None => HasRow(owner[v])
    /\ \A p \in removed : HasRow(p)
    /\ \A v \in retired : owner[v] # None

Tables == ActiveSells /\ OneVariationSet /\ NoOrphanVariant /\ OnlyRowsGo

IInv ==
    /\ TypeOK
    /\ \A r \in Request : WellFormed(r) /\ Knows(r)
    /\ Exclusive
    /\ Tables

-----------------------------------------------------------------------------
(* Requests come and go.                                                   *)

LEMMA CombinationDomain ==
    ASSUME NEW o \in Combinations
    PROVE  DOMAIN o \subseteq Select
BY DEF Combinations

LEMMA EmptyCombination == NoOptions \in Combinations
<1>1. NoOptions \in [{} -> Option]
  BY DEF NoOptions
<1> QED BY <1>1 DEF Combinations

LEMMA IdleType == Idle \in Transactions
BY EmptyCombination DEF Idle, Transactions, Points, Kinds, Sales, Flags, Detached

\* What a request knows depends on the rows alone.
LEMMA SameRows ==
    ASSUME UNCHANGED <<product, variant>>, NEW q \in Request, tx'[q] = tx[q]
    PROVE  /\ WellFormed(q) => WellFormed(q)'
           /\ Knows(q) => Knows(q)'
<1> USE DEF product, variant
<1>1. WellFormed(q) => WellFormed(q)'
  BY DEF WellFormed, At
<1>2. Knows(q) => Knows(q)'
  BY DEF Knows, At, HasRow, Live, ConsistentSet, LiveVariants, OnSale, AnotherActive,
         GoesOff, Target
<1> QED BY <1>1, <1>2

LEMMA SameTables ==
    ASSUME Tables, UNCHANGED <<product, variant>>
    PROVE  Tables'
<1> USE DEF product, variant
<1>1. ActiveSells'
  BY DEF Tables, ActiveSells, Live, HasRow, OnSale, LiveVariants
<1>2. OneVariationSet'
  BY DEF Tables, OneVariationSet
<1>3. NoOrphanVariant'
  BY DEF Tables, NoOrphanVariant, Live, HasRow
<1>4. OnlyRowsGo'
  BY DEF Tables, OnlyRowsGo, HasRow
<1> QED BY <1>1, <1>2, <1>3, <1>4 DEF Tables

\* A request that begins or moves on without a commit keeps the invariant if
\* what it becomes is well-formed, knows what it must, and takes no product
\* from another.
LEMMA MoveOn ==
    ASSUME IInv, NEW r \in Request, NEW request \in Transactions,
           tx' = [tx EXCEPT ![r] = request], UNCHANGED rows,
           WellFormed(r)', Knows(r)',
           \A q \in Request \ {r} :
              /\ \A p \in Product : Holds(r, p)' => ~Holds(q, p)
              /\ request.kind = "createVariant" /\ tx[q].kind = "createVariant"
                    => request.variant # tx[q].variant
    PROVE  IInv'
<1>1. /\ tx'[r] = request
      /\ \A q \in Request \ {r} : tx'[q] = tx[q]
  BY DEF IInv, TypeOK
<1>2. TypeOK'
  BY DEF IInv, TypeOK, rows, product, variant
<1>3. \A q \in Request : WellFormed(q)' /\ Knows(q)'
  BY <1>1, SameRows DEF IInv, rows
<1>4. Exclusive'
  <2> SUFFICES ASSUME NEW q \in Request, NEW s \in Request, q # s
               PROVE  /\ \A p \in Product : ~(Holds(q, p)' /\ Holds(s, p)')
                      /\ tx'[q].kind = "createVariant" /\ tx'[s].kind = "createVariant" =>
                            tx'[q].variant # tx'[s].variant
    BY DEF Exclusive
  <2>1. CASE q = r
    BY <1>1, <2>1 DEF Holds
  <2>2. CASE s = r
    BY <1>1, <2>2 DEF Holds
  <2>3. CASE q # r /\ s # r
    BY <1>1, <2>3 DEF IInv, Exclusive, Holds
  <2> QED BY <2>1, <2>2, <2>3
<1>5. Tables'
  BY SameTables DEF IInv, rows
<1> QED BY <1>2, <1>3, <1>4, <1>5 DEF IInv

LEMMA IdleIsFine ==
    ASSUME NEW r \in Request, tx'[r] = Idle
    PROVE  /\ WellFormed(r)' /\ Knows(r)'
           /\ \A p : ~Holds(r, p)'
           /\ tx'[r].kind # "createVariant"
BY DEF WellFormed, Knows, At, Idle, Holds

LEMMA RefuseStep ==
    ASSUME IInv, NEW r \in Request, Refuse(r)
    PROVE  IInv'
<1>1. tx' = [tx EXCEPT ![r] = Idle] /\ tx'[r] = Idle
  BY DEF Refuse, End, IInv, TypeOK
<1>2. UNCHANGED rows
  BY DEF Refuse
<1> QED BY <1>1, <1>2, IdleType, IdleIsFine, MoveOn DEF Idle

\* A step that only moves a request to its next point.
LEMMA GotoStep ==
    ASSUME IInv, NEW r \in Request, NEW point \in Points, Goto(r, point),
           UNCHANGED rows, ~At(r, "idle"),
           WellFormed(r)', Knows(r)',
           \A q \in Request \ {r} : \A p \in Product : Holds(r, p)' => ~Holds(q, p)
    PROVE  IInv'
<1> DEFINE request == [tx[r] EXCEPT !.pc = point]
<1>1. tx[r] \in Transactions
  BY DEF IInv, TypeOK
<1>2. request \in Transactions
  BY <1>1 DEF Transactions
<1>3. tx' = [tx EXCEPT ![r] = request]
  BY DEF Goto
<1>4. request.kind = tx[r].kind /\ request.variant = tx[r].variant
  BY <1>1 DEF Transactions
<1>5. \A q \in Request \ {r} :
         request.kind = "createVariant" /\ tx[q].kind = "createVariant"
            => request.variant # tx[q].variant
  BY <1>4 DEF IInv, Exclusive
<1> HIDE DEF request
<1> QED BY <1>2, <1>3, <1>5, MoveOn

\* The fields a Goto leaves alone.
LEMMA GotoFields ==
    ASSUME IInv, NEW r \in Request, NEW point \in Points, Goto(r, point)
    PROVE  /\ tx'[r].pc = point
           /\ tx'[r].kind = tx[r].kind /\ tx'[r].product = tx[r].product
           /\ tx'[r].variant = tx[r].variant /\ tx'[r].options = tx[r].options
           /\ tx'[r].sale = tx[r].sale /\ tx'[r].attribute = tx[r].attribute
           /\ tx'[r].values = tx[r].values
BY DEF IInv, TypeOK, Transactions, Goto

-----------------------------------------------------------------------------
(* The beginning of a request.                                             *)

\* A variant that has a row has a product that has one.
LEMMA OwnerHasRow ==
    ASSUME IInv, NEW v \in Variant, owner[v] # None
    PROVE  owner[v] \in Product /\ HasRow(owner[v])
BY DEF IInv, TypeOK, Tables, OnlyRowsGo

LEMMA AskProduct ==
    ASSUME IInv, NEW r \in Request, UNCHANGED rows, NEW request \in Transactions,
           Ask(r, request), request.pc = "lock",
           request.kind \in {"editProduct", "setValues", "deleteProduct"} \cup StatusKinds,
           request.product \in Product, HasRow(request.product), request.variant = None
    PROVE  IInv'
<1>1. tx' = [tx EXCEPT ![r] = request] /\ tx'[r] = request
  BY DEF Ask, IInv, TypeOK
<1>2. WellFormed(r)'
  BY <1>1, ProductLifecycleAssumption
     DEF WellFormed, At, SellerKinds, StatusKinds, VariantKinds, VariantChanges, StaffKinds
<1>3. Knows(r)'
  BY <1>1 DEF Knows, At, HasRow, rows, product, StatusKinds, VariantChanges
<1>4. \A q \in Request \ {r} :
         /\ \A s \in Product : Holds(r, s)' => ~Holds(q, s)
         /\ request.kind = "createVariant" /\ tx[q].kind = "createVariant"
               => request.variant # tx[q].variant
  BY <1>1 DEF Holds, StatusKinds
<1> QED BY <1>1, <1>2, <1>3, <1>4, MoveOn

LEMMA AskVariant ==
    ASSUME IInv, NEW r \in Request, UNCHANGED rows, NEW request \in Transactions,
           Ask(r, request), request.pc = "lock", request.kind \in VariantKinds,
           request.product \in Product, HasRow(request.product),
           request.variant \in Variant,
           IF request.kind = "createVariant" THEN NewVariant(request.variant)
           ELSE owner[request.variant] = request.product
    PROVE  IInv'
<1>1. tx' = [tx EXCEPT ![r] = request] /\ tx'[r] = request
  BY DEF Ask, IInv, TypeOK
<1>2. WellFormed(r)'
  BY <1>1
     DEF WellFormed, At, SellerKinds, StatusKinds, VariantKinds, VariantChanges, StaffKinds
<1>3. Knows(r)'
  BY <1>1 DEF Knows, At, HasRow, rows, product, variant, NewVariant, VariantKinds,
              VariantChanges
<1>4. \A q \in Request \ {r} :
         /\ \A t \in Product : Holds(r, t)' => ~Holds(q, t)
         /\ request.kind = "createVariant" /\ tx[q].kind = "createVariant"
               => request.variant # tx[q].variant
  BY <1>1 DEF Holds, NewVariant
<1> QED BY <1>1, <1>2, <1>3, <1>4, MoveOn

LEMMA AskNewProduct ==
    ASSUME IInv, NEW r \in Request, UNCHANGED rows, NEW request \in Transactions,
           Ask(r, request), request.pc = "validate", request.kind = "createProduct",
           request.product \in Product, NewProduct(request.product),
           request.variant = None
    PROVE  IInv'
<1>1. tx' = [tx EXCEPT ![r] = request] /\ tx'[r] = request
  BY DEF Ask, IInv, TypeOK
<1>2. WellFormed(r)'
  BY <1>1, ProductLifecycleAssumption
     DEF WellFormed, At, SellerKinds, StatusKinds, VariantKinds, VariantChanges, StaffKinds
<1>3. Knows(r)'
  BY <1>1 DEF Knows, At, HasRow, rows, product, NewProduct, SellerKinds, StatusKinds,
              VariantKinds, VariantChanges
<1>4. \A q \in Request \ {r} :
         /\ \A s \in Product : Holds(r, s)' => ~Holds(q, s)
         /\ request.kind = "createVariant" /\ tx[q].kind = "createVariant"
               => request.variant # tx[q].variant
  BY <1>1 DEF Holds, NewProduct
<1> QED BY <1>1, <1>2, <1>3, <1>4, MoveOn

LEMMA AskConfiguration ==
    ASSUME IInv, NEW r \in Request, UNCHANGED rows, NEW request \in Transactions,
           Ask(r, request), request.pc = "readConfig", request.kind \in StaffKinds,
           request.attribute \in Attribute, request.product = None, request.variant = None
    PROVE  IInv'
<1>1. tx' = [tx EXCEPT ![r] = request] /\ tx'[r] = request
  BY DEF Ask, IInv, TypeOK
<1>2. WellFormed(r)'
  BY <1>1, ProductLifecycleAssumption
     DEF WellFormed, At, SellerKinds, StatusKinds, VariantKinds, VariantChanges, StaffKinds
<1>3. Knows(r)'
  BY <1>1 DEF Knows, At, SellerKinds, StatusKinds, VariantKinds, VariantChanges, StaffKinds
<1>4. \A q \in Request \ {r} :
         /\ \A s \in Product : Holds(r, s)' => ~Holds(q, s)
         /\ request.kind = "createVariant" /\ tx[q].kind = "createVariant"
               => request.variant # tx[q].variant
  BY <1>1 DEF Holds, StaffKinds
<1> QED BY <1>1, <1>2, <1>3, <1>4, MoveOn

LEMMA BeginStep ==
    ASSUME IInv, NEW r \in Request, Begin(r)
    PROVE  IInv'
<1>1. UNCHANGED rows
  BY DEF Begin
<1>2. CASE AskSeller(r)
  <2>1. ASSUME NEW p \in Product, NEW S \in SUBSET Attribute, NewProduct(p),
               Ask(r, [Idle EXCEPT !.pc = "validate", !.kind = "createProduct",
                                   !.product = p, !.values = S])
        PROVE  IInv'
    <3> DEFINE request == [Idle EXCEPT !.pc = "validate", !.kind = "createProduct",
                                       !.product = p, !.values = S]
    <3>1. request \in Transactions
      BY IdleType DEF Transactions, Points, Kinds
    <3>2. /\ request.pc = "validate" /\ request.kind = "createProduct"
          /\ request.product = p /\ request.variant = None
      BY DEF Idle
    <3> QED BY <1>1, <2>1, <3>1, <3>2, AskNewProduct
  <2>2. ASSUME NEW p \in Product,
               NEW kind \in {"editProduct", "deleteProduct", "publish", "unpublish"},
               HasRow(p),
               Ask(r, [Idle EXCEPT !.pc = "lock", !.kind = kind, !.product = p])
        PROVE  IInv'
    <3> DEFINE request == [Idle EXCEPT !.pc = "lock", !.kind = kind, !.product = p]
    <3>1. request \in Transactions
      BY IdleType DEF Transactions, Points, Kinds
    <3>2. /\ request.pc = "lock" /\ request.kind = kind
          /\ request.product = p /\ request.variant = None
      BY DEF Idle
    <3> QED BY <1>1, <2>2, <3>1, <3>2, AskProduct DEF StatusKinds
  <2>3. ASSUME NEW p \in Product, NEW S \in SUBSET Attribute, HasRow(p),
               Ask(r, [Idle EXCEPT !.pc = "lock", !.kind = "setValues", !.product = p,
                                   !.values = S])
        PROVE  IInv'
    <3> DEFINE request == [Idle EXCEPT !.pc = "lock", !.kind = "setValues",
                                       !.product = p, !.values = S]
    <3>1. request \in Transactions
      BY IdleType DEF Transactions, Points, Kinds
    <3>2. /\ request.pc = "lock" /\ request.kind = "setValues"
          /\ request.product = p /\ request.variant = None
      BY DEF Idle
    <3> QED BY <1>1, <2>3, <3>1, <3>2, AskProduct
  <2>4. ASSUME NEW p \in Product, NEW v \in Variant, NEW o \in Combinations,
               NEW s \in Sales, HasRow(p), NewVariant(v),
               Ask(r, [Idle EXCEPT !.pc = "lock", !.kind = "createVariant",
                           !.product = p, !.variant = v, !.options = o, !.sale = s])
        PROVE  IInv'
    <3> DEFINE request == [Idle EXCEPT !.pc = "lock", !.kind = "createVariant",
                              !.product = p, !.variant = v, !.options = o, !.sale = s]
    <3>1. request \in Transactions
      BY IdleType DEF Transactions, Points, Kinds
    <3>2. /\ request.pc = "lock" /\ request.kind = "createVariant"
          /\ request.product = p /\ request.variant = v
      BY DEF Idle
    <3> QED BY <1>1, <2>4, <3>1, <3>2, AskVariant DEF VariantKinds
  <2>5. ASSUME NEW v \in Variant, NEW s \in Sales, owner[v] # None,
               Ask(r, [Idle EXCEPT !.pc = "lock", !.kind = "updateVariant",
                           !.product = owner[v], !.variant = v, !.sale = s])
        PROVE  IInv'
    <3> DEFINE request == [Idle EXCEPT !.pc = "lock", !.kind = "updateVariant",
                              !.product = owner[v], !.variant = v, !.sale = s]
    <3>1. request \in Transactions
      BY <2>5, IdleType, OwnerHasRow DEF Transactions, Points, Kinds
    <3>2. /\ request.pc = "lock" /\ request.kind = "updateVariant"
          /\ request.product = owner[v] /\ request.variant = v
      BY DEF Idle
    <3> QED BY <1>1, <2>5, <3>1, <3>2, OwnerHasRow, AskVariant
            DEF VariantKinds, VariantChanges
  <2>6. ASSUME NEW v \in Variant, owner[v] # None,
               Ask(r, [Idle EXCEPT !.pc = "lock", !.kind = "deleteVariant",
                           !.product = owner[v], !.variant = v])
        PROVE  IInv'
    <3> DEFINE request == [Idle EXCEPT !.pc = "lock", !.kind = "deleteVariant",
                              !.product = owner[v], !.variant = v]
    <3>1. request \in Transactions
      BY <2>6, IdleType, OwnerHasRow DEF Transactions, Points, Kinds
    <3>2. /\ request.pc = "lock" /\ request.kind = "deleteVariant"
          /\ request.product = owner[v] /\ request.variant = v
      BY DEF Idle
    <3> QED BY <1>1, <2>6, <3>1, <3>2, OwnerHasRow, AskVariant
            DEF VariantKinds, VariantChanges
  <2> QED BY <1>2, <2>1, <2>2, <2>3, <2>4, <2>5, <2>6 DEF AskSeller
<1>3. CASE AskStaff(r)
  <2>1. ASSUME NEW a \in Attribute, NEW f \in Flags,
               Ask(r, [Idle EXCEPT !.pc = "readConfig", !.kind = "putConfiguration",
                                   !.attribute = a, !.flags = f])
        PROVE  IInv'
    <3> DEFINE request == [Idle EXCEPT !.pc = "readConfig", !.kind = "putConfiguration",
                                       !.attribute = a, !.flags = f]
    <3>1. request \in Transactions
      BY IdleType DEF Transactions, Points, Kinds
    <3>2. /\ request.pc = "readConfig" /\ request.kind = "putConfiguration"
          /\ request.attribute = a /\ request.product = None /\ request.variant = None
      BY DEF Idle
    <3> QED BY <1>1, <2>1, <3>1, <3>2, AskConfiguration DEF StaffKinds
  <2>2. ASSUME NEW a \in Attribute,
               Ask(r, [Idle EXCEPT !.pc = "readConfig", !.kind = "detach",
                                   !.attribute = a])
        PROVE  IInv'
    <3> DEFINE request == [Idle EXCEPT !.pc = "readConfig", !.kind = "detach",
                                       !.attribute = a]
    <3>1. request \in Transactions
      BY IdleType DEF Transactions, Points, Kinds
    <3>2. /\ request.pc = "readConfig" /\ request.kind = "detach"
          /\ request.attribute = a /\ request.product = None /\ request.variant = None
      BY DEF Idle
    <3> QED BY <1>1, <2>2, <3>1, <3>2, AskConfiguration DEF StaffKinds
  <2> QED BY <1>3, <2>1, <2>2 DEF AskStaff
<1> QED BY <1>2, <1>3 DEF Begin

-----------------------------------------------------------------------------
(* The steps between the beginning and the commit.                         *)

\* The product of a request that waits for its lock goes to it alone.
LEMMA LockProductStep ==
    ASSUME IInv, NEW r \in Request, LockProduct(r)
    PROVE  IInv'
<1>1. CASE Refuse(r)
  BY <1>1, RefuseStep
<1>2. CASE ~Refuse(r)
  <2> DEFINE p == tx[r].product
             point == AfterLock(tx[r].kind, p)
  <2>1. /\ At(r, "lock") /\ Live(p) /\ Goto(r, point) /\ UNCHANGED rows
        /\ \A q \in Request \ {r} : ~Holds(q, p)
    BY <1>2 DEF LockProduct
  <2>2. /\ tx[r].kind \in SellerKinds /\ p \in Product
        /\ WellFormed(r) /\ Knows(r)
    BY <2>1 DEF IInv, TypeOK, Transactions, WellFormed, At, StaffKinds, SellerKinds, Kinds,
                StatusKinds, VariantKinds, VariantChanges
  <2>3. /\ point \in {"validate", "decide", "enforce", "commit"}
        /\ point \in {"enforce", "commit"} => tx[r].kind \in {"editProduct", "deleteProduct"}
    BY <2>2 DEF AfterLock, Checked, SellerKinds, StatusKinds, VariantKinds, VariantChanges
  <2>4. point \in Points
    BY <2>3 DEF Points
  <2> HIDE DEF point
  <2>5. /\ tx'[r].pc = point /\ tx'[r].kind = tx[r].kind /\ tx'[r].product = p
        /\ tx'[r].variant = tx[r].variant /\ tx'[r].attribute = tx[r].attribute
    BY <2>1, <2>4, GotoFields
  <2>6. WellFormed(r)'
    BY <2>1, <2>2, <2>3, <2>5 DEF WellFormed, At, SellerKinds, StaffKinds, StatusKinds,
                                  VariantKinds, VariantChanges
  <2>7. Knows(r)'
    BY <2>1, <2>2, <2>3, <2>5
       DEF Knows, At, SellerKinds, StatusKinds, VariantKinds, VariantChanges,
           HasRow, Live, rows, product, variant
  <2>8. \A q \in Request \ {r} : \A s \in Product : Holds(r, s)' => ~Holds(q, s)
    BY <2>1, <2>5 DEF Holds
  <2> QED BY <2>1, <2>4, <2>6, <2>7, <2>8, GotoStep DEF At
<1> QED BY <1>1, <1>2

\* A request that holds its product and goes on to another point under it.
LEMMA HeldStep ==
    ASSUME IInv, NEW r \in Request, NEW point \in {"enforce", "commit"}, Goto(r, point),
           UNCHANGED rows, At(r, "decide") \/ At(r, "validate") \/ At(r, "enforce"),
           tx[r].kind = "createProduct" => point = "commit",
           Knows(r)'
    PROVE  IInv'
<1>1. /\ WellFormed(r) /\ point \in Points /\ ~At(r, "idle")
      /\ tx[r].pc \in {"decide", "validate", "enforce"}
  BY DEF IInv, Points, At
<1>2. /\ tx'[r].pc = point /\ tx'[r].kind = tx[r].kind
      /\ tx'[r].product = tx[r].product
      /\ tx'[r].variant = tx[r].variant /\ tx'[r].attribute = tx[r].attribute
  BY <1>1, GotoFields
<1>3. WellFormed(r)'
  BY <1>1, <1>2 DEF WellFormed, At, SellerKinds, StaffKinds, StatusKinds, VariantKinds,
                    VariantChanges
<1>4. \A q \in Request \ {r} : \A s \in Product : Holds(r, s)' => ~Holds(q, s)
  BY <1>1, <1>2 DEF IInv, Exclusive, Holds
<1> QED BY <1>1, <1>3, <1>4, GotoStep

LEMMA DecideTransitionStep ==
    ASSUME IInv, NEW r \in Request, DecideTransition(r)
    PROVE  IInv'
<1>1. CASE Refuse(r)
  BY <1>1, RefuseStep
<1>2. CASE ~Refuse(r)
  <2> DEFINE point == IF tx[r].kind = "publish" THEN "enforce" ELSE "commit"
  <2>1. /\ At(r, "decide") /\ tx[r].kind \in StatusKinds
        /\ <<status[tx[r].product], Target(tx[r].kind)>> \in Transitions
        /\ Goto(r, point) /\ UNCHANGED rows
    BY <1>2 DEF DecideTransition, StatusKinds
  <2>2. point \in {"enforce", "commit"} /\ point \in Points
    BY DEF Points
  <2>3. /\ tx'[r].pc = point /\ tx'[r].kind = tx[r].kind
        /\ tx'[r].product = tx[r].product
    BY <2>1, <2>2, GotoFields
  <2>4. Knows(r)
    BY DEF IInv
  <2>5. Knows(r)'
    BY <2>1, <2>3, <2>4 DEF Knows, At, SellerKinds, StatusKinds, VariantKinds,
                            VariantChanges, HasRow, Live, Target, rows, product, variant
  <2> QED BY <2>1, <2>2, <2>5, HeldStep DEF StatusKinds
<1> QED BY <1>1, <1>2

LEMMA DecideVariantStep ==
    ASSUME IInv, NEW r \in Request, DecideVariant(r)
    PROVE  IInv'
<1>1. CASE Refuse(r)
  BY <1>1, RefuseStep
<1>2. CASE ~Refuse(r)
  <2> DEFINE p == tx[r].product
             v == tx[r].variant
             point == IF tx[r].kind = "deleteVariant" THEN "commit" ELSE Checked(p)
  <2>1. /\ At(r, "decide") /\ tx[r].kind \in VariantChanges
        /\ v \notin retired
        /\ GoesOff(r) => AnotherActive(p, v)
        /\ Goto(r, point) /\ UNCHANGED rows
    BY <1>2 DEF DecideVariant, VariantChanges, GoesOff
  <2>2. point \in {"enforce", "commit"} /\ point \in Points
    BY DEF Points, Checked
  <2> HIDE DEF point
  <2>3. /\ tx'[r].pc = point /\ tx'[r].kind = tx[r].kind /\ tx'[r].product = p
        /\ tx'[r].variant = v /\ tx'[r].sale = tx[r].sale
    BY <2>1, <2>2, GotoFields
  <2>4. Knows(r)
    BY DEF IInv
  <2>5. AnotherActive(p, v)' <=> AnotherActive(p, v)
    BY <2>1, <2>3 DEF AnotherActive, OnSale, LiveVariants, rows, product, variant
  <2>6. /\ AnotherActive(tx[r].product, tx[r].variant)' <=> AnotherActive(p, v)
        /\ GoesOff(r)' <=> GoesOff(r)
    BY <2>1, <2>3 DEF AnotherActive, OnSale, LiveVariants, rows, product, variant, GoesOff
  <2>7. Knows(r)'
    BY <2>1, <2>3, <2>4, <2>6 DEF Knows, At, SellerKinds, StatusKinds, VariantKinds,
                            VariantChanges, HasRow, Live, rows, product, variant
  <2> QED BY <2>1, <2>2, <2>7, HeldStep DEF VariantChanges
<1> QED BY <1>1, <1>2

LEMMA ValidateValuesStep ==
    ASSUME IInv, NEW r \in Request, ValidateValues(r)
    PROVE  IInv'
<1>1. CASE Refuse(r)
  BY <1>1, RefuseStep
<1>2. CASE ~Refuse(r)
  <2> DEFINE point == IF tx[r].kind = "createProduct" THEN "commit"
                      ELSE Checked(tx[r].product)
  <2>1. /\ At(r, "validate") /\ tx[r].kind \in {"createProduct", "setValues"}
        /\ Goto(r, point) /\ UNCHANGED rows
    BY <1>2 DEF ValidateValues
  <2>2. point \in {"enforce", "commit"} /\ point \in Points
    BY DEF Points, Checked
  <2>3. tx[r].kind = "createProduct" => point = "commit"
    OBVIOUS
  <2> HIDE DEF point
  <2>4. /\ tx'[r].pc = point /\ tx'[r].kind = tx[r].kind
        /\ tx'[r].product = tx[r].product
    BY <2>1, <2>2, GotoFields
  <2>5. Knows(r)
    BY DEF IInv
  <2>6. Knows(r)'
    BY <2>1, <2>4, <2>5 DEF Knows, At, SellerKinds, StatusKinds, VariantKinds,
                            VariantChanges, HasRow, Live, rows, product, variant
  <2> QED BY <2>1, <2>2, <2>3, <2>6, HeldStep
<1> QED BY <1>1, <1>2

LEMMA ValidateOptionsStep ==
    ASSUME IInv, NEW r \in Request, ValidateOptions(r)
    PROVE  IInv'
<1>1. CASE Refuse(r)
  BY <1>1, RefuseStep
<1>2. CASE ~Refuse(r)
  <2> DEFINE p == tx[r].product
             o == tx[r].options
             point == Checked(p)
  <2>1. /\ At(r, "validate") /\ tx[r].kind = "createVariant"
        /\ ConsistentSet(p, DOMAIN o)
        /\ Goto(r, point) /\ UNCHANGED rows
    BY <1>2 DEF ValidateOptions
  <2>2. point \in {"enforce", "commit"} /\ point \in Points
    BY DEF Points, Checked
  <2> HIDE DEF point
  <2>3. /\ tx'[r].pc = point /\ tx'[r].kind = tx[r].kind /\ tx'[r].product = p
        /\ tx'[r].variant = tx[r].variant /\ tx'[r].options = o
    BY <2>1, <2>2, GotoFields
  <2>4. ConsistentSet(tx[r].product, DOMAIN tx[r].options)'
    BY <2>1, <2>3 DEF ConsistentSet, LiveVariants, rows, variant
  <2>5. Knows(r)
    BY DEF IInv
  <2>6. Knows(r)'
    BY <2>1, <2>3, <2>4, <2>5 DEF Knows, At, SellerKinds, StatusKinds, VariantKinds,
                            VariantChanges, HasRow, Live, rows, product, variant
  <2> QED BY <2>1, <2>2, <2>6, HeldStep
<1> QED BY <1>1, <1>2

\* Under the lock of a product, enforce_product_invariants finds an active
\* variant: of those that are there if nothing was written to variants.
LEMMA EnforceStep ==
    ASSUME IInv, NEW r \in Request, Enforce(r)
    PROVE  IInv'
<1>1. CASE Refuse(r)
  BY <1>1, RefuseStep
<1>2. CASE ~Refuse(r)
  <2> DEFINE p == tx[r].product
  <2>1. /\ At(r, "enforce") /\ Goto(r, "commit") /\ UNCHANGED rows
        /\ NoGaps(ValuesWritten(r), ShapesWritten(r))
    BY <1>2 DEF Enforce
  <2>2. WellFormed(r) /\ Knows(r) /\ tx[r].kind \in SellerKinds
    BY <2>1 DEF IInv, TypeOK, Transactions, WellFormed, At, StaffKinds, SellerKinds, Kinds,
                StatusKinds, VariantKinds, VariantChanges
  <2>3. /\ tx'[r].pc = "commit" /\ tx'[r].kind = tx[r].kind /\ tx'[r].product = p
        /\ tx'[r].variant = tx[r].variant /\ tx'[r].options = tx[r].options
        /\ tx'[r].sale = tx[r].sale
    BY <2>1, GotoFields DEF Points
  <2>4. tx[r].kind = "publish" => OnSale(p) # {}
    <3>1. SUFFICES ASSUME tx[r].kind = "publish"
                   PROVE  OnSale(p) # {}
      OBVIOUS
    <3>2. tx[r].variant = None
      BY <2>1, <2>2, <3>1 DEF WellFormed, At, IInv, TypeOK, Transactions, VariantKinds,
                              VariantChanges
    <3>3. ShapesWritten(r) = {Shape(w) : w \in LiveVariants(p) \ {None}}
      BY <3>1, <3>2 DEF ShapesWritten
    <3>4. PICK s \in ShapesWritten(r) : s.status = "active"
      BY <2>1 DEF NoGaps
    <3>5. PICK w \in LiveVariants(p) : s = Shape(w)
      BY <3>3, <3>4
    <3> QED BY <3>4, <3>5 DEF Shape, OnSale
  <2>5. /\ ConsistentSet(p, DOMAIN tx[r].options)
              => ConsistentSet(tx[r].product, DOMAIN tx[r].options)'
        /\ AnotherActive(p, tx[r].variant)
              => AnotherActive(tx[r].product, tx[r].variant)'
        /\ OnSale(tx[r].product)' = OnSale(p)
        /\ GoesOff(r)' <=> GoesOff(r)
    BY <2>1, <2>3 DEF ConsistentSet, AnotherActive, OnSale, LiveVariants, GoesOff, rows,
                      product, variant
  <2>6. Knows(r)'
    BY <2>1, <2>2, <2>3, <2>4, <2>5
       DEF Knows, At, SellerKinds, StatusKinds, VariantKinds, VariantChanges, HasRow, Live,
           Target, rows, product, variant
  <2> QED BY <2>1, <2>6, HeldStep
<1> QED BY <1>1, <1>2

\* The staff's steps before their commit change what they have read, no more.
LEMMA StaffPointStep ==
    ASSUME IInv, NEW r \in Request, NEW point \in {"checkValued", "checkVaried", "upsert", "commit"},
           NEW seen \in Flags, ~At(r, "idle"), tx[r].kind \in StaffKinds,
           tx' = [tx EXCEPT ![r] = [tx[r] EXCEPT !.seen = seen, !.pc = point]],
           UNCHANGED rows
    PROVE  IInv'
<1> DEFINE request == [tx[r] EXCEPT !.seen = seen, !.pc = point]
<1>1. tx[r] \in Transactions
  BY DEF IInv, TypeOK
<1>2. request \in Transactions
  BY <1>1 DEF Transactions, Points
<1>3. /\ request.pc = point /\ request.kind = tx[r].kind
      /\ request.product = tx[r].product /\ request.variant = tx[r].variant
      /\ request.attribute = tx[r].attribute
  BY <1>1 DEF Transactions
<1>4. tx'[r] = request
  BY DEF IInv, TypeOK
<1>5. WellFormed(r) /\ Knows(r)
  BY DEF IInv
<1> HIDE DEF request
<1>6. WellFormed(r)'
  BY <1>3, <1>4, <1>5 DEF WellFormed, At, SellerKinds, StaffKinds, StatusKinds,
                          VariantKinds, VariantChanges
<1>7. Knows(r)'
  BY <1>3, <1>4, <1>5 DEF Knows, At, SellerKinds, StaffKinds, StatusKinds, VariantKinds,
                          VariantChanges
<1>8. \A q \in Request \ {r} :
         /\ \A s \in Product : Holds(r, s)' => ~Holds(q, s)
         /\ request.kind = "createVariant" /\ tx[q].kind = "createVariant"
               => request.variant # tx[q].variant
  BY <1>3, <1>4, <1>5, ProductLifecycleAssumption DEF Holds, WellFormed, StaffKinds
<1>9. tx' = [tx EXCEPT ![r] = request]
  BY DEF request
<1> QED BY <1>2, <1>6, <1>7, <1>8, <1>9, MoveOn

LEMMA StaffKind ==
    ASSUME IInv, NEW r \in Request,
           tx[r].pc \in {"readConfig", "checkValued", "checkVaried", "upsert"}
    PROVE  tx[r].kind \in StaffKinds /\ config[tx[r].attribute] \in Flags
           /\ tx[r].seen \in Flags
<1>1. tx[r].kind \in StaffKinds
  BY DEF IInv, TypeOK, Transactions, Kinds, WellFormed, At, SellerKinds, StaffKinds,
         StatusKinds, VariantKinds, VariantChanges
<1>2. tx[r].attribute \in Attribute
  BY <1>1 DEF IInv, WellFormed, At
<1> QED BY <1>1, <1>2 DEF IInv, TypeOK, Transactions

LEMMA ReadConfigStep ==
    ASSUME IInv, NEW r \in Request, ReadConfig(r)
    PROVE  IInv'
<1>1. CASE Refuse(r)
  BY <1>1, RefuseStep
<1>2. CASE ~Refuse(r)
  <2> DEFINE seen == config[tx[r].attribute]
             flips == seen.variation # tx[r].flags.variation
             put == IF ~seen.attached THEN "upsert"
                    ELSE IF flips THEN "checkValued" ELSE "commit"
  <2>1. /\ At(r, "readConfig") /\ UNCHANGED rows
        /\ \/ Goto(r, "checkValued")
           \/ tx' = [tx EXCEPT ![r].seen = seen, ![r].pc = put]
    BY <1>2 DEF ReadConfig
  <2>2. /\ tx[r].kind \in StaffKinds /\ seen \in Flags /\ tx[r].seen \in Flags
        /\ ~At(r, "idle")
    BY <2>1, StaffKind DEF At
  <2>3. CASE Goto(r, "checkValued")
    <3>1. tx[r] \in Transactions
      BY DEF IInv, TypeOK
    <3>2. [tx[r] EXCEPT !.seen = tx[r].seen, !.pc = "checkValued"] = [tx[r] EXCEPT !.pc = "checkValued"]
      BY <3>1 DEF Transactions
    <3>3. tx' = [tx EXCEPT ![r] = [tx[r] EXCEPT !.seen = tx[r].seen, !.pc = "checkValued"]]
      BY <2>3, <3>2 DEF Goto
    <3> QED BY <2>1, <2>2, <3>3, StaffPointStep
  <2>4. CASE tx' = [tx EXCEPT ![r].seen = seen, ![r].pc = put]
    <3>1. put \in {"checkValued", "upsert", "commit"}
      OBVIOUS
    <3> HIDE DEF put, seen
    <3>2. tx' = [tx EXCEPT ![r] = [tx[r] EXCEPT !.seen = seen, !.pc = put]]
      BY <2>4 DEF IInv, TypeOK
    <3> QED BY <2>1, <2>2, <3>1, <3>2, StaffPointStep
  <2> QED BY <2>1, <2>3, <2>4
<1> QED BY <1>1, <1>2

LEMMA CheckUsedStep ==
    ASSUME IInv, NEW r \in Request, CheckValued(r) \/ CheckVaried(r)
    PROVE  IInv'
<1>1. CASE Refuse(r)
  BY <1>1, RefuseStep
<1>2. CASE ~Refuse(r)
  <2>1. PICK point \in {"checkVaried", "commit"} :
            /\ tx[r].pc \in {"checkValued", "checkVaried"}
            /\ UNCHANGED rows /\ Goto(r, point)
    BY <1>2 DEF CheckValued, CheckVaried, At
  <2>2. tx[r].kind \in StaffKinds /\ tx[r].seen \in Flags /\ ~At(r, "idle")
    BY <2>1, StaffKind DEF At
  <2>3. tx[r] \in Transactions
    BY DEF IInv, TypeOK
  <2>4. [tx[r] EXCEPT !.seen = tx[r].seen, !.pc = point] = [tx[r] EXCEPT !.pc = point]
    BY <2>3 DEF Transactions
  <2>5. tx' = [tx EXCEPT ![r] = [tx[r] EXCEPT !.seen = tx[r].seen, !.pc = point]]
    BY <2>1, <2>4 DEF Goto
  <2> QED BY <2>1, <2>2, <2>5, StaffPointStep
<1> QED BY <1>1, <1>2

LEMMA UpsertStep ==
    ASSUME IInv, NEW r \in Request, Upsert(r)
    PROVE  IInv'
<1> DEFINE seen == config[tx[r].attribute]
<1>1. At(r, "upsert") /\ UNCHANGED rows /\ tx' = [tx EXCEPT ![r].seen = seen, ![r].pc = "commit"]
  BY DEF Upsert
<1>2. tx[r].kind \in StaffKinds /\ seen \in Flags /\ ~At(r, "idle")
  BY <1>1, StaffKind DEF At
<1> HIDE DEF seen
<1>3. tx' = [tx EXCEPT ![r] = [tx[r] EXCEPT !.seen = seen, !.pc = "commit"]]
  BY <1>1 DEF IInv, TypeOK
<1> QED BY <1>1, <1>2, <1>3, StaffPointStep

-----------------------------------------------------------------------------
(* The commits.                                                            *)

\* The end of a request that changed rows: the others know what they knew.
LEMMA CommitStep ==
    ASSUME IInv, NEW r \in Request, End(r), TypeOK', Tables',
           \A q \in Request \ {r} : Knows(q)'
    PROVE  IInv'
<1>1. tx'[r] = Idle /\ \A q \in Request \ {r} : tx'[q] = tx[q]
  BY DEF End, IInv, TypeOK
<1>2. \A q \in Request : WellFormed(q)'
  <2>1. WellFormed(r)'
    BY <1>1, IdleIsFine
  <2>2. \A q \in Request \ {r} : WellFormed(q)'
    BY <1>1 DEF IInv, WellFormed, At
  <2> QED BY <2>1, <2>2
<1>3. \A q \in Request : Knows(q)'
  BY <1>1, IdleIsFine
<1>4. Exclusive'
  <2> SUFFICES ASSUME NEW q \in Request, NEW s \in Request, q # s
               PROVE  /\ \A p \in Product : ~(Holds(q, p)' /\ Holds(s, p)')
                      /\ tx'[q].kind = "createVariant" /\ tx'[s].kind = "createVariant" =>
                            tx'[q].variant # tx'[s].variant
    BY DEF Exclusive
  <2>1. CASE q = r \/ s = r
    BY <1>1, <2>1, IdleIsFine
  <2>2. CASE q # r /\ s # r
    BY <1>1, <2>2 DEF IInv, Exclusive, Holds
  <2> QED BY <2>1, <2>2
<1> QED BY <1>2, <1>3, <1>4 DEF IInv

\* A commit by the holder of product p touches p and its variants.
OnlyTouches(p, created) ==
    /\ \A s \in Product \ {p} :
          /\ status'[s] = status[s] /\ (s \in removed' <=> s \in removed)
          /\ LiveVariants(s)' = LiveVariants(s)
          /\ OnSale(s)' = OnSale(s)
          /\ \A v \in LiveVariants(s) : options'[v] = options[v] /\ sale'[v] = sale[v]
    /\ \A s \in Product : HasRow(s) => HasRow(s)'
    /\ \A v \in Variant : v # created => owner'[v] = owner[v]
    /\ \A v \in Variant : owner[v] \in Product \ {p} =>
          (v \in retired' <=> v \in retired) /\ sale'[v] = sale[v]

LEMMA OthersKnow ==
    ASSUME IInv, NEW r \in Request, At(r, "commit"), tx[r].product \in Product,
           OnlyTouches(tx[r].product,
                       IF tx[r].kind = "createVariant" THEN tx[r].variant ELSE None),
           NEW q \in Request \ {r}, tx'[q] = tx[q]
    PROVE  Knows(q)'
<1> DEFINE p == tx[r].product
           created == IF tx[r].kind = "createVariant" THEN tx[r].variant ELSE None
           s == tx[q].product
<1>1. WellFormed(q) /\ Knows(q) /\ WellFormed(r) /\ Knows(r)
  BY DEF IInv
<1>2. ASSUME ~At(q, "idle"), tx[q].kind \in SellerKinds, ~At(q, "lock")
      PROVE  s \in Product \ {p}
  <2>1. s \in Product /\ Holds(q, s) /\ Holds(r, p)
    BY <1>1, <1>2 DEF WellFormed, At, Holds
  <2> QED BY <2>1 DEF IInv, Exclusive
<1>3. ASSUME ~At(q, "idle"), tx[q].kind = "createProduct"
      PROVE  s \in Product \ {p}
  <2>1. s \in Product /\ Holds(q, s) /\ Holds(r, p)
    BY <1>1, <1>3 DEF WellFormed, At, Holds
  <2> QED BY <2>1 DEF IInv, Exclusive
<1>4. ASSUME ~At(q, "idle"), tx[q].kind \in VariantKinds
      PROVE  owner'[tx[q].variant] = owner[tx[q].variant]
  <2>1. tx[q].variant \in Variant /\ tx[q].variant # None
    BY <1>1, <1>4, ProductLifecycleAssumption DEF WellFormed
  <2>2. tx[q].variant # created
    <3>1. CASE tx[q].kind = "createVariant"
      BY <2>1, <3>1 DEF IInv, Exclusive
    <3>2. CASE tx[q].kind \in VariantChanges
      BY <1>1, <1>4, <2>1, <3>2, ProductLifecycleAssumption
         DEF Knows, WellFormed, At, SellerKinds, VariantKinds, VariantChanges
    <3> QED BY <1>4, <3>1, <3>2 DEF VariantKinds
  <2> QED BY <2>1, <2>2 DEF OnlyTouches
<1>5. ASSUME ~At(q, "idle"), tx[q].kind \in SellerKinds
      PROVE  status'[s] # "none"
  <2>1. s \in Product /\ HasRow(s)
    BY <1>1, <1>5 DEF Knows, WellFormed
  <2> QED BY <2>1 DEF OnlyTouches, HasRow
<1>6. ASSUME NEW t \in Product \ {p}, t = s
      PROVE  /\ ConsistentSet(t, DOMAIN tx[q].options)
                   => ConsistentSet(tx[q].product, DOMAIN tx[q].options)'
             /\ Live(t) => Live(tx[q].product)'
             /\ HasRow(tx[q].product)' <=> HasRow(t)
             /\ tx[q].variant \in Variant /\ owner[tx[q].variant] = t
                  => /\ tx[q].variant \notin retired => tx'[q].variant \notin retired'
                     /\ AnotherActive(t, tx[q].variant)
                           => AnotherActive(tx[q].product, tx[q].variant)'
             /\ OnSale(tx[q].product)' = OnSale(t)
             /\ status'[t] = status[t]
  BY <1>6 DEF OnlyTouches, ConsistentSet, Live, HasRow, AnotherActive, OnSale, LiveVariants
<1> QED
  <2>1. CASE At(q, "idle")
    BY <2>1 DEF Knows, At
  <2>2. CASE ~At(q, "idle") /\ tx[q].kind \in SellerKinds /\ ~At(q, "lock")
    <3>1. s \in Product \ {p}
      BY <1>2, <2>2
    <3> QED BY <1>1, <1>4, <1>6, <2>2, <3>1
            DEF Knows, WellFormed, At, SellerKinds, StatusKinds, VariantKinds,
                VariantChanges, GoesOff, Target, HasRow
  <2>3. CASE ~At(q, "idle") /\ tx[q].kind \in SellerKinds /\ At(q, "lock")
    BY <1>1, <1>4, <1>5, <2>3
       DEF Knows, At, SellerKinds, StatusKinds, VariantKinds, VariantChanges, HasRow
  <2>4. CASE ~At(q, "idle") /\ tx[q].kind = "createProduct"
    <3>1. s \in Product \ {p}
      BY <1>3, <2>4
    <3> QED BY <1>1, <1>6, <2>4, <3>1
            DEF Knows, At, SellerKinds, StatusKinds, VariantKinds, VariantChanges
  <2>5. CASE ~At(q, "idle") /\ tx[q].kind \in StaffKinds
    BY <2>5 DEF Knows, At, SellerKinds, StatusKinds, VariantKinds, VariantChanges,
                StaffKinds
  <2>6. tx[q].kind \in SellerKinds \cup StaffKinds \cup {"createProduct"}
    BY DEF IInv, TypeOK, Transactions, Kinds, SellerKinds, StaffKinds, StatusKinds,
           VariantKinds, VariantChanges
  <2> QED BY <2>1, <2>2, <2>3, <2>4, <2>5, <2>6

\* What a request knows when it commits a change of a product.
LEMMA Committer ==
    ASSUME IInv, NEW r \in Request, At(r, "commit"), tx[r].kind \notin StaffKinds
    PROVE  /\ tx[r].product \in Product
           /\ tx[r] \in Transactions
           /\ tx[r].kind = "createProduct" => ~HasRow(tx[r].product)
           /\ tx[r].kind # "createProduct" => Live(tx[r].product)
           /\ tx[r].kind \in VariantKinds =>
                 /\ tx[r].variant \in Variant
                 /\ tx[r].options \in Combinations
                 /\ tx[r].sale \in Sales
           /\ tx[r].kind = "createVariant" =>
                 /\ owner[tx[r].variant] = None
                 /\ ConsistentSet(tx[r].product, DOMAIN tx[r].options)
           /\ tx[r].kind \in VariantChanges =>
                 /\ owner[tx[r].variant] = tx[r].product
                 /\ tx[r].variant \notin retired
                 /\ GoesOff(r) => AnotherActive(tx[r].product, tx[r].variant)
           /\ tx[r].kind \in StatusKinds =>
                 <<status[tx[r].product], Target(tx[r].kind)>> \in Transitions
           /\ tx[r].kind = "publish" => OnSale(tx[r].product) # {}
           /\ End(r) => \A q \in Request \ {r} : tx'[q] = tx[q]
<1>1. tx[r] \in Transactions /\ WellFormed(r) /\ Knows(r) /\ ~At(r, "idle")
  BY DEF IInv, TypeOK, At
<1>2. tx[r].kind \in SellerKinds \cup {"createProduct"}
  BY <1>1 DEF Transactions, Kinds, SellerKinds, StaffKinds, StatusKinds, VariantKinds,
              VariantChanges
<1>3. tx[r].product \in Product
  BY <1>1, <1>2 DEF WellFormed
<1>4. /\ tx[r].kind = "createProduct" => ~HasRow(tx[r].product)
      /\ tx[r].kind # "createProduct" => Live(tx[r].product)
  BY <1>1, <1>2 DEF Knows, At
<1>5. tx[r].kind \in VariantKinds =>
         /\ tx[r].variant \in Variant
         /\ tx[r].options \in Combinations
         /\ tx[r].sale \in Sales
  BY <1>1 DEF WellFormed, Transactions
<1>6. tx[r].kind = "createVariant" =>
         /\ owner[tx[r].variant] = None
         /\ ConsistentSet(tx[r].product, DOMAIN tx[r].options)
  BY <1>1 DEF Knows
<1>7. tx[r].kind \in VariantChanges =>
         /\ owner[tx[r].variant] = tx[r].product
         /\ tx[r].variant \notin retired
         /\ GoesOff(r) => AnotherActive(tx[r].product, tx[r].variant)
  BY <1>1 DEF Knows
<1>8. /\ tx[r].kind \in StatusKinds =>
            <<status[tx[r].product], Target(tx[r].kind)>> \in Transitions
      /\ tx[r].kind = "publish" => OnSale(tx[r].product) # {}
  BY <1>1 DEF Knows
<1>9. End(r) => \A q \in Request \ {r} : tx'[q] = tx[q]
  BY DEF End, IInv, TypeOK
<1> QED BY <1>1, <1>3, <1>4, <1>5, <1>6, <1>7, <1>8, <1>9

LEMMA EndType ==
    ASSUME TypeOK, NEW r \in Request, End(r)
    PROVE  tx' \in [Request -> Transactions]
BY IdleType DEF TypeOK, End

LEMMA CreateProductStep ==
    ASSUME IInv, NEW r \in Request, CreateProduct(r)
    PROVE  IInv'
<1> DEFINE p == tx[r].product
<1>1. /\ At(r, "commit") /\ tx[r].kind = "createProduct"
      /\ status' = [status EXCEPT ![p] = "draft"]
      /\ values' = [values EXCEPT ![p] = tx[r].values]
      /\ End(r) /\ UNCHANGED <<removed, owner, sale, retired, options, config>>
  BY DEF CreateProduct, variant
<1>2. /\ p \in Product /\ ~HasRow(p) /\ tx[r].values \subseteq Attribute
      /\ \A q \in Request \ {r} : tx'[q] = tx[q]
  BY <1>1, Committer DEF StaffKinds, Transactions
<1>3. TypeOK /\ Tables
  BY DEF IInv
<1> HIDE DEF p
<1>4. TypeOK'
  BY <1>1, <1>2, <1>3, EndType DEF TypeOK, Statuses
<1>5. Tables'
  <2>1. ActiveSells'
    BY <1>1, <1>2, <1>3 DEF TypeOK, Tables, ActiveSells, Live, HasRow, OnSale, LiveVariants
  <2>2. OneVariationSet'
    BY <1>1, <1>3 DEF Tables, OneVariationSet
  <2>3. NoOrphanVariant'
    BY <1>1, <1>2, <1>3 DEF TypeOK, Tables, NoOrphanVariant, Live, HasRow
  <2>4. OnlyRowsGo'
    BY <1>1, <1>2, <1>3 DEF TypeOK, Tables, OnlyRowsGo, HasRow
  <2> QED BY <2>1, <2>2, <2>3, <2>4 DEF Tables
<1>6. OnlyTouches(p, None)
  BY <1>1, <1>2, <1>3 DEF TypeOK, OnlyTouches, HasRow, LiveVariants, OnSale
<1>7. \A q \in Request \ {r} : Knows(q)'
  BY <1>1, <1>2, <1>6, OthersKnow DEF p
<1> QED BY <1>1, <1>4, <1>5, <1>7, CommitStep

LEMMA UpdateProductStep ==
    ASSUME IInv, NEW r \in Request, UpdateProduct(r)
    PROVE  IInv'
<1> DEFINE p == tx[r].product
<1>1. /\ At(r, "commit") /\ tx[r].kind \in {"editProduct", "setValues"}
      /\ values' = [values EXCEPT ![p] = ValuesWritten(r)]
      /\ End(r) /\ UNCHANGED <<status, removed, owner, sale, retired, options, config>>
  BY DEF UpdateProduct, variant
<1>2. /\ p \in Product /\ tx[r].values \subseteq Attribute
      /\ \A q \in Request \ {r} : tx'[q] = tx[q]
  BY <1>1, Committer DEF StaffKinds, Transactions
<1>3. TypeOK /\ Tables
  BY DEF IInv
<1>4. ValuesWritten(r) \subseteq Attribute
  BY <1>2, <1>3 DEF ValuesWritten, TypeOK
<1> HIDE DEF p
<1>5. TypeOK'
  BY <1>1, <1>2, <1>3, <1>4, EndType DEF TypeOK
<1>6. Tables'
  <2>1. ActiveSells'
    BY <1>1, <1>3 DEF Tables, ActiveSells, Live, HasRow, OnSale, LiveVariants
  <2>2. OneVariationSet' /\ NoOrphanVariant' /\ OnlyRowsGo'
    BY <1>1, <1>3 DEF Tables, OneVariationSet, NoOrphanVariant, OnlyRowsGo, Live, HasRow
  <2> QED BY <2>1, <2>2 DEF Tables
<1>7. OnlyTouches(p, None)
  BY <1>1 DEF OnlyTouches, HasRow, LiveVariants, OnSale
<1>8. \A q \in Request \ {r} : Knows(q)'
  BY <1>1, <1>2, <1>7, OthersKnow DEF p
<1> QED BY <1>1, <1>5, <1>6, <1>8, CommitStep

LEMMA DeleteProductStep ==
    ASSUME IInv, NEW r \in Request, DeleteProduct(r)
    PROVE  IInv'
<1> DEFINE p == tx[r].product
<1>1. /\ At(r, "commit") /\ tx[r].kind = "deleteProduct"
      /\ removed' = removed \cup {p}
      /\ retired' = retired \cup LiveVariants(p)
      /\ End(r) /\ UNCHANGED <<status, values, owner, sale, options, config>>
  BY DEF DeleteProduct
<1>2. /\ p \in Product /\ Live(p)
      /\ \A q \in Request \ {r} : tx'[q] = tx[q]
  BY <1>1, Committer DEF StaffKinds
<1>3. TypeOK /\ Tables
  BY DEF IInv
<1> HIDE DEF p
<1>4. TypeOK'
  BY <1>1, <1>2, <1>3, EndType DEF TypeOK, LiveVariants
<1>5. \A s \in Product \ {p} : LiveVariants(s)' = LiveVariants(s) /\ OnSale(s)' = OnSale(s)
  BY <1>1 DEF LiveVariants, OnSale
<1>6. Tables'
  <2>1. ActiveSells'
    BY <1>1, <1>3, <1>5 DEF Tables, ActiveSells, Live, HasRow
  <2>2. OneVariationSet'
    BY <1>1, <1>3 DEF Tables, OneVariationSet
  <2>3. NoOrphanVariant'
    BY <1>1, <1>3 DEF Tables, NoOrphanVariant, Live, HasRow, LiveVariants
  <2>4. OnlyRowsGo'
    BY <1>1, <1>2, <1>3, ProductLifecycleAssumption
       DEF Tables, OnlyRowsGo, HasRow, Live, LiveVariants
  <2> QED BY <2>1, <2>2, <2>3, <2>4 DEF Tables
<1>7. OnlyTouches(p, None)
  BY <1>1, <1>2, <1>5 DEF OnlyTouches, HasRow, LiveVariants
<1>8. \A q \in Request \ {r} : Knows(q)'
  BY <1>1, <1>2, <1>7, OthersKnow DEF p
<1> QED BY <1>1, <1>4, <1>6, <1>8, CommitStep

LEMMA TransitionStep ==
    ASSUME IInv, NEW r \in Request, Transition(r)
    PROVE  IInv'
<1> DEFINE p == tx[r].product
<1>1. /\ At(r, "commit") /\ tx[r].kind \in StatusKinds
      /\ status' = [status EXCEPT ![p] = Target(tx[r].kind)]
      /\ End(r) /\ UNCHANGED <<removed, values, owner, sale, retired, options, config>>
  BY DEF Transition, StatusKinds, variant
<1>2. /\ p \in Product /\ Live(p)
      /\ tx[r].kind = "publish" => OnSale(p) # {}
      /\ \A q \in Request \ {r} : tx'[q] = tx[q]
  BY <1>1, Committer DEF StaffKinds, StatusKinds
<1>3. /\ Target(tx[r].kind) \in {"active", "inactive"}
      /\ Target(tx[r].kind) = "active" => OnSale(p) # {}
  BY <1>2 DEF Target
<1>4. TypeOK /\ Tables
  BY DEF IInv
<1> HIDE DEF p
<1>5. TypeOK'
  BY <1>1, <1>2, <1>3, <1>4, EndType DEF TypeOK, Statuses
<1>6. \A s \in Product : LiveVariants(s)' = LiveVariants(s) /\ OnSale(s)' = OnSale(s)
  BY <1>1 DEF LiveVariants, OnSale
<1>7. Tables'
  <2>1. ActiveSells'
    BY <1>1, <1>2, <1>3, <1>4, <1>6 DEF TypeOK, Tables, ActiveSells, Live, HasRow
  <2>2. OneVariationSet'
    BY <1>1, <1>4 DEF Tables, OneVariationSet
  <2>3. NoOrphanVariant' /\ OnlyRowsGo'
    BY <1>1, <1>2, <1>3, <1>4 DEF TypeOK, Tables, NoOrphanVariant, OnlyRowsGo, Live, HasRow
  <2> QED BY <2>1, <2>2, <2>3 DEF Tables
<1>8. OnlyTouches(p, None)
  BY <1>1, <1>3, <1>4, <1>6 DEF TypeOK, OnlyTouches, HasRow
<1>9. \A q \in Request \ {r} : Knows(q)'
  BY <1>1, <1>2, <1>8, OthersKnow DEF p, StatusKinds
<1> QED BY <1>1, <1>5, <1>7, <1>9, CommitStep

LEMMA CreateVariantStep ==
    ASSUME IInv, NEW r \in Request, CreateVariant(r)
    PROVE  IInv'
<1> DEFINE p == tx[r].product
           v == tx[r].variant
           o == tx[r].options
<1>1. /\ At(r, "commit") /\ tx[r].kind = "createVariant"
      /\ owner' = [owner EXCEPT ![v] = p]
      /\ sale' = [sale EXCEPT ![v] = tx[r].sale]
      /\ options' = [options EXCEPT ![v] = o]
      /\ End(r) /\ UNCHANGED <<status, removed, values, retired, config>>
  BY DEF CreateVariant, product
<1>2. /\ p \in Product /\ Live(p) /\ v \in Variant /\ owner[v] = None
      /\ o \in Combinations /\ tx[r].sale \in Sales
      /\ ConsistentSet(p, DOMAIN o)
      /\ \A q \in Request \ {r} : tx'[q] = tx[q]
  BY <1>1, Committer DEF StaffKinds, VariantKinds
<1>3. TypeOK /\ Tables
  BY DEF IInv
<1> HIDE DEF p, v, o
<1>4. TypeOK'
  BY <1>1, <1>2, <1>3, EndType DEF TypeOK
<1>5. \A s \in Product \ {p} : LiveVariants(s)' = LiveVariants(s) /\ OnSale(s)' = OnSale(s)
  BY <1>1, <1>2, <1>3, ProductLifecycleAssumption DEF TypeOK, LiveVariants, OnSale
<1>6. \A s \in Product : OnSale(s) \subseteq OnSale(s)'
  BY <1>1, <1>2, <1>3, ProductLifecycleAssumption DEF TypeOK, LiveVariants, OnSale
<1>7. Tables'
  <2>1. ActiveSells'
    BY <1>1, <1>3, <1>6 DEF Tables, ActiveSells, Live, HasRow
  <2>2. OneVariationSet'
    BY <1>1, <1>2, <1>3, ProductLifecycleAssumption
       DEF TypeOK, Tables, OneVariationSet, ConsistentSet, LiveVariants
  <2>3. NoOrphanVariant'
    BY <1>1, <1>2, <1>3 DEF TypeOK, Tables, NoOrphanVariant, Live, HasRow
  <2>4. OnlyRowsGo'
    BY <1>1, <1>2, <1>3, ProductLifecycleAssumption
       DEF TypeOK, Tables, OnlyRowsGo, HasRow, Live
  <2> QED BY <2>1, <2>2, <2>3, <2>4 DEF Tables
<1>8. OnlyTouches(p, v)
  BY <1>1, <1>2, <1>3, <1>5, ProductLifecycleAssumption
     DEF TypeOK, OnlyTouches, HasRow, LiveVariants
<1>9. \A q \in Request \ {r} : Knows(q)'
  BY <1>1, <1>2, <1>8, OthersKnow DEF p, v
<1> QED BY <1>1, <1>4, <1>7, <1>9, CommitStep

\* A variant that is switched off or deleted leaves another one on sale.
LEMMA UpdateVariantStep ==
    ASSUME IInv, NEW r \in Request, UpdateVariant(r)
    PROVE  IInv'
<1> DEFINE p == tx[r].product
           v == tx[r].variant
<1>1. /\ At(r, "commit") /\ tx[r].kind = "updateVariant"
      /\ sale' = [sale EXCEPT ![v] = tx[r].sale]
      /\ End(r) /\ UNCHANGED <<status, removed, values, owner, retired, options, config>>
  BY DEF UpdateVariant, product
<1>2. /\ p \in Product /\ Live(p) /\ v \in Variant /\ owner[v] = p /\ v \notin retired
      /\ tx[r].sale \in Sales
      /\ tx[r].sale = "inactive" => AnotherActive(p, v)
      /\ \A q \in Request \ {r} : tx'[q] = tx[q]
  BY <1>1, Committer DEF StaffKinds, VariantKinds, VariantChanges, GoesOff
<1>3. TypeOK /\ Tables
  BY DEF IInv
<1> HIDE DEF p, v
<1>4. TypeOK'
  BY <1>1, <1>2, <1>3, EndType DEF TypeOK
<1>5. \A s \in Product \ {p} : LiveVariants(s)' = LiveVariants(s) /\ OnSale(s)' = OnSale(s)
  BY <1>1, <1>2, <1>3 DEF TypeOK, LiveVariants, OnSale
<1>6. \A s \in Product : s = p =>
         /\ OnSale(s) \ {v} \subseteq OnSale(s)'
         /\ tx[r].sale = "active" => v \in OnSale(s)'
         /\ sale[v] # "active" => OnSale(s) = OnSale(s) \ {v}
  BY <1>1, <1>2, <1>3 DEF TypeOK, LiveVariants, OnSale
<1>7. Tables'
  <2>1. ActiveSells'
    <3> SUFFICES ASSUME NEW s \in Product, (Live(s) /\ status[s] = "active")'
                 PROVE  OnSale(s)' # {}
      BY DEF ActiveSells
    <3>1. OnSale(s) # {} /\ status[s] = "active"
      BY <1>1, <1>3 DEF Tables, ActiveSells, Live, HasRow
    <3>2. CASE s # p
      BY <1>5, <3>1, <3>2
    <3>3. CASE s = p
      BY <1>2, <1>6, <3>1, <3>3 DEF AnotherActive, Sales
    <3> QED BY <3>2, <3>3
  <2>2. OneVariationSet' /\ NoOrphanVariant' /\ OnlyRowsGo'
    BY <1>1, <1>3 DEF Tables, OneVariationSet, NoOrphanVariant, OnlyRowsGo, Live, HasRow
  <2> QED BY <2>1, <2>2 DEF Tables
<1>8. OnlyTouches(p, None)
  BY <1>1, <1>2, <1>3, <1>5 DEF TypeOK, OnlyTouches, HasRow, LiveVariants
<1>9. \A q \in Request \ {r} : Knows(q)'
  BY <1>1, <1>2, <1>8, OthersKnow DEF p
<1> QED BY <1>1, <1>4, <1>7, <1>9, CommitStep

LEMMA DeleteVariantStep ==
    ASSUME IInv, NEW r \in Request, DeleteVariant(r)
    PROVE  IInv'
<1> DEFINE p == tx[r].product
           v == tx[r].variant
<1>1. /\ At(r, "commit") /\ tx[r].kind = "deleteVariant"
      /\ retired' = retired \cup {v}
      /\ End(r) /\ UNCHANGED <<status, removed, values, owner, sale, options, config>>
  BY DEF DeleteVariant, product
<1>2. /\ p \in Product /\ Live(p) /\ v \in Variant /\ owner[v] = p
      /\ AnotherActive(p, v)
      /\ \A q \in Request \ {r} : tx'[q] = tx[q]
  BY <1>1, Committer DEF StaffKinds, VariantKinds, VariantChanges, GoesOff
<1>3. TypeOK /\ Tables
  BY DEF IInv
<1> HIDE DEF p, v
<1>4. TypeOK'
  BY <1>1, <1>2, <1>3, EndType DEF TypeOK
<1>5. \A s \in Product \ {p} : LiveVariants(s)' = LiveVariants(s) /\ OnSale(s)' = OnSale(s)
  BY <1>1, <1>2 DEF LiveVariants, OnSale
<1>6. \A s \in Product : OnSale(s) \ {v} \subseteq OnSale(s)'
  BY <1>1 DEF LiveVariants, OnSale
<1>7. sale[v] # "active" => OnSale(p) = OnSale(p) \ {v}
  BY DEF OnSale
<1>8. Tables'
  <2>1. ActiveSells'
    <3> SUFFICES ASSUME NEW s \in Product, (Live(s) /\ status[s] = "active")'
                 PROVE  OnSale(s)' # {}
      BY DEF ActiveSells
    <3>1. OnSale(s) # {} /\ status[s] = "active"
      BY <1>1, <1>3 DEF Tables, ActiveSells, Live, HasRow
    <3>2. CASE s # p
      BY <1>5, <3>1, <3>2
    <3>3. CASE s = p
      BY <1>2, <1>6, <1>7, <3>1, <3>3 DEF AnotherActive
    <3> QED BY <3>2, <3>3
  <2>2. OneVariationSet' /\ NoOrphanVariant'
    BY <1>1, <1>3 DEF Tables, OneVariationSet, NoOrphanVariant, Live, HasRow
  <2>3. OnlyRowsGo'
    BY <1>1, <1>2, <1>3, ProductLifecycleAssumption DEF Tables, OnlyRowsGo, HasRow
  <2> QED BY <2>1, <2>2, <2>3 DEF Tables
<1>9. OnlyTouches(p, None)
  BY <1>1, <1>2, <1>5 DEF OnlyTouches, HasRow, LiveVariants
<1>10. \A q \in Request \ {r} : Knows(q)'
  BY <1>1, <1>2, <1>9, OthersKnow DEF p
<1> QED BY <1>1, <1>4, <1>8, <1>10, CommitStep

\* The staff's commits leave every product and variant alone.
LEMMA ConfigurationStep ==
    ASSUME IInv, NEW r \in Request, End(r), UNCHANGED <<product, variant>>,
           config' \in [Attribute -> Flags]
    PROVE  IInv'
<1>1. \A q \in Request \ {r} : tx'[q] = tx[q] /\ Knows(q)
  BY DEF End, IInv, TypeOK
<1>2. \A q \in Request \ {r} : Knows(q)'
  BY <1>1, SameRows
<1>3. Tables'
  BY SameTables DEF IInv
<1>4. TypeOK'
  BY EndType DEF IInv, TypeOK, product, variant
<1> QED BY <1>2, <1>3, <1>4, CommitStep

LEMMA PutConfigurationStep ==
    ASSUME IInv, NEW r \in Request, PutConfiguration(r)
    PROVE  IInv'
<1>1. CASE Refuse(r)
  BY <1>1, RefuseStep
<1>2. CASE ~Refuse(r)
  <2> DEFINE a == tx[r].attribute
             row == IF tx[r].seen.attached THEN Merged(config[a], tx[r].seen, tx[r].flags)
                    ELSE tx[r].flags
  <2>1. /\ At(r, "commit") /\ tx[r].kind = "putConfiguration"
        /\ config' = [config EXCEPT ![a] = row]
        /\ End(r) /\ UNCHANGED <<product, variant>>
    BY <1>2 DEF PutConfiguration
  <2>2. a \in Attribute /\ tx[r] \in Transactions /\ config \in [Attribute -> Flags]
    BY <2>1 DEF IInv, TypeOK, WellFormed, At, StaffKinds
  <2>3. row \in Flags
    BY <2>2 DEF Merged, Flags, Transactions
  <2> HIDE DEF row
  <2>4. config' \in [Attribute -> Flags]
    BY <2>1, <2>2, <2>3
  <2> QED BY <2>1, <2>4, ConfigurationStep
<1> QED BY <1>1, <1>2

LEMMA DetachStep ==
    ASSUME IInv, NEW r \in Request, Detach(r)
    PROVE  IInv'
<1>1. /\ config' = [config EXCEPT ![tx[r].attribute] = Detached]
      /\ End(r) /\ UNCHANGED <<product, variant>>
  BY DEF Detach
<1>2. config' \in [Attribute -> Flags]
  BY <1>1 DEF IInv, TypeOK, Detached, Flags
<1> QED BY <1>1, <1>2, ConfigurationStep

-----------------------------------------------------------------------------
(* The invariant, and what follows from it.                                *)

LEMMA InitIInv == Init => IInv
<1> SUFFICES ASSUME Init PROVE IInv
  OBVIOUS
<1>1. TypeOK
  BY IdleType, EmptyCombination
     DEF Init, TypeOK, Statuses, Sales, Flags, Detached
<1>2. \A r \in Request : WellFormed(r) /\ Knows(r)
  BY DEF Init, WellFormed, Knows, At, Idle
<1>3. Exclusive
  BY DEF Init, Exclusive, Holds, Idle
<1>4. Tables
  BY DEF Init, Tables, ActiveSells, OneVariationSet, NoOrphanVariant, OnlyRowsGo, Live, HasRow
<1> QED BY <1>1, <1>2, <1>3, <1>4 DEF IInv

LEMMA StepIInv == IInv /\ [Next]_vars => IInv'
<1> SUFFICES ASSUME IInv, [Next]_vars PROVE IInv'
  OBVIOUS
<1>1. CASE UNCHANGED vars
  <2>1. TypeOK' /\ UNCHANGED <<product, variant>> /\ tx' = tx
    BY <1>1 DEF IInv, TypeOK, vars, product, variant
  <2>2. \A r \in Request : WellFormed(r)' /\ Knows(r)'
    BY <2>1, SameRows DEF IInv
  <2>3. Exclusive'
    BY <2>1 DEF IInv, Exclusive, Holds
  <2>4. Tables'
    BY <2>1, SameTables DEF IInv
  <2> QED BY <2>1, <2>2, <2>3, <2>4 DEF IInv
<1>2. ASSUME NEW r \in Request, Begin(r) PROVE IInv'
  BY <1>2, BeginStep
<1>3. ASSUME NEW r \in Request, SellerStep(r) PROVE IInv'
  BY <1>3, LockProductStep, DecideTransitionStep, DecideVariantStep, ValidateValuesStep,
     ValidateOptionsStep, EnforceStep, CreateProductStep, UpdateProductStep,
     DeleteProductStep, TransitionStep, CreateVariantStep, UpdateVariantStep,
     DeleteVariantStep DEF SellerStep
<1>4. ASSUME NEW r \in Request, StaffStep(r) PROVE IInv'
  BY <1>4, ReadConfigStep, CheckUsedStep, UpsertStep, PutConfigurationStep, DetachStep
     DEF StaffStep
<1>5. ASSUME NEW r \in Request, Rollback(r) PROVE IInv'
  BY <1>5, RefuseStep DEF Rollback
<1> QED BY <1>1, <1>2, <1>3, <1>4, <1>5 DEF Next

LEMMA Inductive == Spec => []IInv
BY InitIInv, StepIInv, PTL DEF Spec

\* Every variable keeps its shape, whatever the requests do.
THEOREM TypeCorrect == Spec => []TypeOK
<1>1. IInv => TypeOK
  BY DEF IInv
<1> QED BY <1>1, Inductive, PTL

\* An active product has an active variant: _require_another_active and
\* enforce_product_invariants run under the lock of the product's row, so no
\* two requests can each leave the other's variant as the last one.
THEOREM ActiveProductsSell == Spec => []ActiveSells
<1>1. IInv => ActiveSells
  BY DEF IInv, Tables
<1> QED BY <1>1, Inductive, PTL

\* The live variants of a product share one set of attributes: under the lock,
\* the set that _require_consistent_set compared with is still the set there is.
THEOREM VariantsAgree == Spec => []OneVariationSet
<1>1. IInv => OneVariationSet
  BY DEF IInv, Tables
<1> QED BY <1>1, Inductive, PTL

\* No live variant is left behind by the deletion of its product.
THEOREM VariantsHaveProducts == Spec => []NoOrphanVariant
<1>1. IInv => NoOrphanVariant
  BY DEF IInv, Tables
<1> QED BY <1>1, Inductive, PTL

\* The steps that write no product and no variant.
LEMMA QuietStep ==
    ASSUME NEW r \in Request,
           \/ Begin(r) \/ Rollback(r) \/ StaffStep(r)
           \/ LockProduct(r) \/ DecideTransition(r) \/ DecideVariant(r)
           \/ ValidateValues(r) \/ ValidateOptions(r) \/ Enforce(r)
    PROVE  UNCHANGED <<product, variant>>
<1>1. Refuse(r) => UNCHANGED <<product, variant>>
  BY DEF Refuse, rows
<1>2. CASE Begin(r) \/ Rollback(r)
  BY <1>1, <1>2 DEF Begin, Rollback, rows
<1>3. CASE StaffStep(r)
  BY <1>1, <1>3 DEF StaffStep, ReadConfig, CheckValued, CheckVaried, Upsert,
                      PutConfiguration, Detach, rows
<1>4. CASE LockProduct(r) \/ DecideTransition(r) \/ DecideVariant(r)
  BY <1>1, <1>4 DEF LockProduct, DecideTransition, DecideVariant, rows
<1>5. CASE ValidateValues(r) \/ ValidateOptions(r) \/ Enforce(r)
  BY <1>1, <1>5 DEF ValidateValues, ValidateOptions, Enforce, rows
<1> QED BY <1>2, <1>3, <1>4, <1>5

Kept ==
    /\ \A p \in removed : /\ p \in removed'
                          /\ status'[p] = status[p]
                          /\ values'[p] = values[p]
    /\ \A v \in retired : /\ v \in retired'
                          /\ sale'[v] = sale[v]
                          /\ options'[v] = options[v]

LEMMA KeptStep == IInv /\ [Next]_vars => Kept
<1> SUFFICES ASSUME IInv, [Next]_vars PROVE Kept
  OBVIOUS
<1>1. TypeOK /\ OnlyRowsGo
  BY DEF IInv, Tables
<1>2. ASSUME UNCHANGED <<product, variant>> PROVE Kept
  BY <1>2 DEF Kept, product, variant
<1>3. CASE UNCHANGED vars
  BY <1>2, <1>3 DEF vars, product, variant
<1>4. ASSUME NEW r \in Request, CreateProduct(r) PROVE Kept
  <2>1. ~HasRow(tx[r].product)
    BY <1>4, Committer DEF CreateProduct, StaffKinds
  <2> QED BY <1>1, <1>4, <2>1 DEF CreateProduct, Kept, OnlyRowsGo, TypeOK, variant
<1>5. ASSUME NEW r \in Request, UpdateProduct(r) \/ Transition(r) PROVE Kept
  <2>1. Live(tx[r].product)
    BY <1>5, Committer DEF UpdateProduct, Transition, StaffKinds
  <2> QED BY <1>1, <1>5, <2>1 DEF UpdateProduct, Transition, Kept, Live, TypeOK, variant
<1>6. ASSUME NEW r \in Request, DeleteProduct(r) \/ DeleteVariant(r) PROVE Kept
  BY <1>6 DEF DeleteProduct, DeleteVariant, Kept, product
<1>7. ASSUME NEW r \in Request, CreateVariant(r) PROVE Kept
  <2>1. owner[tx[r].variant] = None
    BY <1>7, Committer DEF CreateVariant, StaffKinds
  <2> QED BY <1>1, <1>7, <2>1 DEF CreateVariant, Kept, OnlyRowsGo, TypeOK, product
<1>8. ASSUME NEW r \in Request, UpdateVariant(r) PROVE Kept
  <2>1. tx[r].variant \notin retired
    BY <1>8, Committer DEF UpdateVariant, StaffKinds, VariantChanges
  <2> QED BY <1>1, <1>8, <2>1 DEF UpdateVariant, Kept, TypeOK, product
<1>9. ASSUME NEW r \in Request, Begin(r) \/ SellerStep(r) \/ StaffStep(r) \/ Rollback(r)
      PROVE  Kept
  BY <1>2, <1>4, <1>5, <1>6, <1>7, <1>8, <1>9, QuietStep DEF SellerStep
<1> QED BY <1>3, <1>9 DEF Next

\* What is deleted softly stays as it was when it was deleted, whichever
\* requests were under way.
THEOREM DeletedRowsStay == Spec => DeletedRowsAreKept
<1>1. IInv /\ [Next]_vars => [Kept]_vars
  BY KeptStep
<1>2. Spec => [][Kept]_vars
  BY <1>1, Inductive, PTL DEF Spec
<1> QED BY <1>2, PTL DEF DeletedRowsAreKept, Kept

-----------------------------------------------------------------------------
(* The implementation of Listing.                                          *)

LEMMA ListingInit == Init => Shown!Init
<1> SUFFICES ASSUME Init PROVE Shown!Init
  OBVIOUS
<1>1. Phase = [p \in Product |-> "none"]
  BY DEF Init, Phase
<1>2. Offers = [p \in Product |-> {}]
  BY ProductLifecycleAssumption DEF Init, Offers, OnSale, LiveVariants
<1> QED BY <1>1, <1>2 DEF Shown!Init

LEMMA ListingStep == IInv /\ [Next]_vars => [Shown!Next]_(Shown!vars)
<1> SUFFICES ASSUME IInv, [Next]_vars PROVE Shown!Next \/ UNCHANGED <<Phase, Offers>>
  BY DEF Shown!vars
<1>1. TypeOK /\ Tables
  BY DEF IInv
<1>2. ASSUME UNCHANGED <<product, variant>> PROVE UNCHANGED <<Phase, Offers>>
  BY <1>2 DEF Phase, Offers, OnSale, LiveVariants, product, variant
<1>3. ASSUME NEW r \in Request, CreateProduct(r) PROVE Shown!Next
  <2> DEFINE p == tx[r].product
  <2>1. p \in Product /\ ~HasRow(p)
    BY <1>3, Committer DEF CreateProduct, StaffKinds
  <2>2. p \notin removed
    BY <1>1, <2>1 DEF Tables, OnlyRowsGo
  <2> HIDE DEF p
  <2>3. status' = [status EXCEPT ![p] = "draft"] /\ UNCHANGED <<removed, owner, sale, retired>>
    BY <1>3 DEF CreateProduct, variant, p
  <2>4. Phase[p] = "none" /\ Phase' = [Phase EXCEPT ![p] = "draft"]
    BY <1>1, <2>1, <2>2, <2>3 DEF TypeOK, Phase, HasRow
  <2>5. UNCHANGED Offers
    BY <2>3 DEF Offers, OnSale, LiveVariants
  <2>6. Shown!Create(p)
    BY <2>4, <2>5 DEF Shown!Create
  <2> QED BY <2>1, <2>6 DEF Shown!Next
<1>4. ASSUME NEW r \in Request, UpdateProduct(r) PROVE UNCHANGED <<Phase, Offers>>
  BY <1>4 DEF UpdateProduct, variant, Phase, Offers, OnSale, LiveVariants
<1>5. ASSUME NEW r \in Request, Transition(r) PROVE Shown!Next
  <2> DEFINE p == tx[r].product
  <2>1. /\ p \in Product /\ Live(p) /\ tx[r].kind \in StatusKinds
        /\ <<status[p], Target(tx[r].kind)>> \in Transitions
        /\ tx[r].kind = "publish" => OnSale(p) # {}
    BY <1>5, Committer DEF Transition, StaffKinds, StatusKinds
  <2> HIDE DEF p
  <2>2. /\ status' = [status EXCEPT ![p] = Target(tx[r].kind)]
        /\ UNCHANGED <<removed, owner, sale, retired>>
    BY <1>5 DEF Transition, variant, p
  <2>3. Phase[p] = status[p] /\ Phase' = [Phase EXCEPT ![p] = Target(tx[r].kind)]
    BY <1>1, <2>1, <2>2 DEF TypeOK, Phase, Live
  <2>4. UNCHANGED Offers
    BY <2>2 DEF Offers, OnSale, LiveVariants
  <2>5. Offers[p] = OnSale(p)
    BY <2>1 DEF Offers
  <2>6. CASE tx[r].kind = "publish"
    <3>1. Shown!Publish(p)
      BY <2>1, <2>3, <2>4, <2>5, <2>6 DEF Shown!Publish, Target, Transitions
    <3> QED BY <2>1, <3>1 DEF Shown!Next
  <2>7. CASE tx[r].kind = "unpublish"
    <3>1. Shown!Unpublish(p)
      BY <2>1, <2>3, <2>4, <2>7 DEF Shown!Unpublish, Target, Transitions
    <3> QED BY <2>1, <3>1 DEF Shown!Next
  <2> QED BY <2>1, <2>6, <2>7 DEF StatusKinds
<1>6. ASSUME NEW r \in Request, DeleteProduct(r) PROVE Shown!Next
  <2> DEFINE p == tx[r].product
  <2>1. p \in Product /\ Live(p)
    BY <1>6, Committer DEF DeleteProduct, StaffKinds
  <2> HIDE DEF p
  <2>2. /\ removed' = removed \cup {p} /\ retired' = retired \cup LiveVariants(p)
        /\ UNCHANGED <<status, owner, sale>>
    BY <1>6 DEF DeleteProduct, p
  <2>3. /\ Phase[p] \in {"draft", "active", "inactive"}
        /\ Phase' = [Phase EXCEPT ![p] = "gone"]
    BY <1>1, <2>1, <2>2 DEF TypeOK, Phase, Live, HasRow, Statuses
  <2>4. \A s \in Product : OnSale(s)' = IF s = p THEN {} ELSE OnSale(s)
    BY <2>2 DEF OnSale, LiveVariants
  <2>5. Offers' = [Offers EXCEPT ![p] = {}]
    BY <2>1, <2>4 DEF Offers
  <2>6. Shown!Delete(p)
    BY <2>3, <2>5 DEF Shown!Delete
  <2> QED BY <2>1, <2>6 DEF Shown!Next
<1>7. ASSUME NEW r \in Request, CreateVariant(r) PROVE Shown!Next \/ UNCHANGED <<Phase, Offers>>
  <2> DEFINE p == tx[r].product
             v == tx[r].variant
             s == tx[r].sale
  <2>1. p \in Product /\ Live(p) /\ v \in Variant /\ owner[v] = None /\ s \in Sales
    BY <1>7, Committer DEF CreateVariant, StaffKinds, VariantKinds
  <2> HIDE DEF p, v, s
  <2>2. /\ owner' = [owner EXCEPT ![v] = p] /\ sale' = [sale EXCEPT ![v] = s]
        /\ UNCHANGED <<status, removed, retired>>
    BY <1>7 DEF CreateVariant, product, p, v, s
  <2>3. v \notin retired
    BY <1>1, <2>1 DEF Tables, OnlyRowsGo
  <2>4. /\ Phase[p] \in {"draft", "active", "inactive"}
        /\ UNCHANGED Phase
    BY <1>1, <2>1, <2>2 DEF TypeOK, Phase, Live, HasRow, Statuses
  <2>5. \A q \in Product : v \notin Offers[q]
    BY <2>1, ProductLifecycleAssumption DEF Offers, OnSale, LiveVariants
  <2>6. \A q \in Product :
           OnSale(q)' = IF q = p /\ s = "active" THEN OnSale(q) \cup {v} ELSE OnSale(q)
    BY <1>1, <2>1, <2>2, <2>3, ProductLifecycleAssumption DEF TypeOK, OnSale, LiveVariants
  <2>7. CASE s = "active"
    <3>1. Offers' = [Offers EXCEPT ![p] = @ \cup {v}]
      BY <2>1, <2>6, <2>7 DEF Offers
    <3>2. Shown!Offer(p, v)
      BY <2>4, <2>5, <3>1 DEF Shown!Offer
    <3> QED BY <2>1, <3>2 DEF Shown!Next
  <2>8. CASE s # "active"
    BY <2>4, <2>6, <2>8 DEF Offers
  <2> QED BY <2>7, <2>8
<1>8. ASSUME NEW r \in Request, UpdateVariant(r) PROVE Shown!Next \/ UNCHANGED <<Phase, Offers>>
  <2> DEFINE p == tx[r].product
             v == tx[r].variant
             s == tx[r].sale
  <2>1. /\ p \in Product /\ Live(p) /\ v \in Variant /\ owner[v] = p /\ v \notin retired
        /\ s \in Sales
        /\ s = "inactive" => AnotherActive(p, v)
    BY <1>8, Committer DEF UpdateVariant, StaffKinds, VariantKinds, VariantChanges, GoesOff
  <2> HIDE DEF p, v, s
  <2>2. sale' = [sale EXCEPT ![v] = s] /\ UNCHANGED <<status, removed, owner, retired>>
    BY <1>8 DEF UpdateVariant, product, v, s
  <2>3. /\ Phase[p] \in {"draft", "active", "inactive"} /\ Phase[p] = status[p]
        /\ UNCHANGED Phase
    BY <1>1, <2>1, <2>2 DEF TypeOK, Phase, Live, HasRow, Statuses
  <2>4. \A q \in Product :
           OnSale(q)' = IF q = p THEN IF s = "active" THEN OnSale(q) \cup {v} ELSE OnSale(q) \ {v}
                        ELSE OnSale(q)
    BY <1>1, <2>1, <2>2 DEF TypeOK, OnSale, LiveVariants, Sales
  <2>5. CASE sale[v] = s
    <3>1. \A q \in Product : OnSale(q)' = OnSale(q)
      BY <1>1, <2>1, <2>2, <2>5 DEF TypeOK, OnSale, LiveVariants
    <3> QED BY <2>3, <3>1 DEF Offers
  <2>6. CASE sale[v] # s /\ s = "active"
    <3>1. Offers' = [Offers EXCEPT ![p] = @ \cup {v}]
      BY <2>1, <2>4, <2>6 DEF Offers
    <3>2. \A q \in Product : v \notin Offers[q]
      BY <2>6 DEF Offers, OnSale
    <3>3. Shown!Offer(p, v)
      BY <2>3, <3>1, <3>2 DEF Shown!Offer
    <3> QED BY <2>1, <3>3 DEF Shown!Next
  <2>7. CASE sale[v] # s /\ s = "inactive"
    <3>1. Offers' = [Offers EXCEPT ![p] = @ \ {v}]
      BY <2>1, <2>4, <2>7 DEF Offers
    <3>2. sale[v] = "active"
      BY <1>1, <2>1, <2>7 DEF TypeOK, Sales
    <3>3. Phase[p] = "active" => Offers[p] \ {v} # {}
      BY <2>1, <2>3, <2>7, <3>2 DEF AnotherActive, Offers
    <3>4. Shown!Withdraw(p, v)
      BY <2>3, <3>1, <3>3 DEF Shown!Withdraw
    <3> QED BY <2>1, <3>4 DEF Shown!Next
  <2> QED BY <2>1, <2>5, <2>6, <2>7 DEF Sales
<1>9. ASSUME NEW r \in Request, DeleteVariant(r) PROVE Shown!Next
  <2> DEFINE p == tx[r].product
             v == tx[r].variant
  <2>1. /\ p \in Product /\ Live(p) /\ v \in Variant /\ owner[v] = p /\ v \notin retired
        /\ AnotherActive(p, v)
    BY <1>9, Committer DEF DeleteVariant, StaffKinds, VariantKinds, VariantChanges, GoesOff
  <2> HIDE DEF p, v
  <2>2. retired' = retired \cup {v} /\ UNCHANGED <<status, removed, owner, sale>>
    BY <1>9 DEF DeleteVariant, product, v
  <2>3. /\ Phase[p] \in {"draft", "active", "inactive"} /\ Phase[p] = status[p]
        /\ UNCHANGED Phase
    BY <1>1, <2>1, <2>2 DEF TypeOK, Phase, Live, HasRow, Statuses
  <2>4. \A q \in Product : OnSale(q)' = IF q = p THEN OnSale(q) \ {v} ELSE OnSale(q)
    BY <1>1, <2>1, <2>2 DEF TypeOK, OnSale, LiveVariants
  <2>5. Offers' = [Offers EXCEPT ![p] = @ \ {v}]
    BY <2>1, <2>4 DEF Offers
  <2>6. Phase[p] = "active" => Offers[p] \ {v} # {}
    <3>1. Phase[p] = "active" => OnSale(p) # {}
      BY <1>1, <2>1, <2>3 DEF Tables, ActiveSells
    <3>2. sale[v] # "active" => v \notin OnSale(p)
      BY DEF OnSale
    <3> QED BY <2>1, <2>3, <3>1, <3>2 DEF AnotherActive, Offers
  <2>7. Shown!Withdraw(p, v)
    BY <2>3, <2>5, <2>6 DEF Shown!Withdraw
  <2> QED BY <2>1, <2>7 DEF Shown!Next
<1>10. ASSUME NEW r \in Request, Begin(r) \/ SellerStep(r) \/ StaffStep(r) \/ Rollback(r)
       PROVE  Shown!Next \/ UNCHANGED <<Phase, Offers>>
  BY <1>2, <1>3, <1>4, <1>5, <1>6, <1>7, <1>8, <1>9, <1>10, QuietStep DEF SellerStep
<1>11. CASE UNCHANGED vars
  BY <1>2, <1>11 DEF vars, product, variant
<1> QED BY <1>10, <1>11 DEF Next

\* What a shop shows follows Listing: every commit is one of its operations
\* or shows nothing new, and every other step shows nothing at all.
THEOREM ImplementsTheListing == Spec => ImplementsListing
<1>1. Init => Shown!Init
  BY ListingInit
<1>2. IInv /\ [Next]_vars => [Shown!Next]_(Shown!vars)
  BY ListingStep
<1> QED BY <1>1, <1>2, Inductive, PTL DEF Spec, ImplementsListing, Shown!Spec
=============================================================================
