-------------------------- MODULE ProductLifecycle --------------------------
(***************************************************************************)
(* The products of one category, their attribute values and their variants *)
(* (SKUs), as the members of the shops change them, and the attribute      *)
(* configuration of the category, as the platform's staff change it.       *)
(*                                                                         *)
(* Every request is one PostgreSQL transaction at READ COMMITTED.  A       *)
(* request that changes a product locks its row FOR UPDATE first           *)
(* (product_repository.get_product); a request that changes the            *)
(* configuration locks nothing, and nothing locks the configuration.  A    *)
(* step of this module is the lock, one read of data that others may       *)
(* change, or the last write with the commit; what a request writes is     *)
(* seen by the others at its commit.                                       *)
(*                                                                         *)
(* products.category_id never changes, so one category stands for all.     *)
(* SKU codes, prices, stock and texts are left out: the unique index on    *)
(* the SKU and the checks on single fields may only refuse a request,      *)
(* which Rollback covers.                                                  *)
(***************************************************************************)
EXTENDS FiniteSets

CONSTANTS
    Product,    \* the ids a product may get
    Variant,    \* the ids a variant may get
    Attribute,  \* the attributes of the catalog
    Select,     \* those whose data_type is SELECT
    Option,     \* the options of a SELECT attribute
    Request,    \* the requests that may be in flight at the same time
    None        \* no product, no variant, no attribute

ASSUME ProductLifecycleAssumption ==
    /\ None \notin Product \cup Variant \cup Attribute
    /\ Select \subseteq Attribute

VARIABLES
    status,     \* products.status, "none" while there is no row
    removed,    \* the products whose deleted_at is set
    values,     \* the attributes each product has a value for
    owner,      \* product_variants.product_id, None while there is no row
    sale,       \* product_variants.status
    retired,    \* the variants whose deleted_at is set
    options,    \* the option each variant has for each of its attributes
    config,     \* the category's row for each attribute
    tx          \* what each request has still to do and has read so far

vars == <<status, removed, values, owner, sale, retired, options, config, tx>>
product == <<status, removed, values>>
variant == <<owner, sale, retired, options>>
rows == <<product, variant, config>>

-----------------------------------------------------------------------------
(* What the tables say.                                                    *)

Statuses == {"draft", "active", "inactive"}
Sales == {"active", "inactive"}
Combinations == UNION {[S -> Option] : S \in SUBSET Select}
NoOptions == [a \in {} |-> None]

\* A row of category_attributes; without the row both flags are FALSE.
Flags == [attached : BOOLEAN, required : BOOLEAN, variation : BOOLEAN]
Detached == [attached |-> FALSE, required |-> FALSE, variation |-> FALSE]

HasRow(p) == status[p] # "none"
Live(p) == HasRow(p) /\ p \notin removed
LiveVariants(p) == {v \in Variant : owner[v] = p /\ v \notin retired}
OnSale(p) == {v \in LiveVariants(p) : sale[v] = "active"}

\* Mutant: rows deleted softly do not count.
ValuedByLive(a) == \E p \in Product : Live(p) /\ a \in values[p]

\* The two questions of used_in_category: rows deleted softly count.
Valued(a) == \E p \in Product : HasRow(p) /\ a \in values[p]
Varied(a) == \E v \in Variant : owner[v] # None /\ a \in DOMAIN options[v]

-----------------------------------------------------------------------------
(* The rules, of utils/catalog.py and product_rules.py.                    *)

Shape(v) == [status |-> sale[v], attributes |-> DOMAIN options[v]]

\* Mutant: variants are not asked for the required variation attributes.
NoGapsInValues(vals, shapes) ==
    /\ \A a \in Attribute : config[a].required /\ ~config[a].variation => a \in vals
    /\ \E s \in shapes : s.status = "active"
    /\ \A s, t \in shapes : s.attributes = t.attributes

\* published_gaps finds nothing for a product with these attribute values and
\* live variants of these shapes.
NoGaps(vals, shapes) ==
    /\ \A a \in Attribute : config[a].required =>
          IF config[a].variation THEN \A s \in shapes : a \in s.attributes
                                 ELSE a \in vals
    /\ \E s \in shapes : s.status = "active"
    /\ \A s, t \in shapes : s.attributes = t.attributes

\* _validated_values and _validated_options, against the configuration.
ValidValues(S) == \A a \in S : config[a].attached /\ ~config[a].variation
ValidOptions(o) == \A a \in DOMAIN o : config[a].attached /\ config[a].variation

\* Mutant: only the variants on sale are compared with.
ConsistentOnSale(p, attributes) ==
    \A v \in OnSale(p) : DOMAIN options[v] = attributes

\* variation_sets_consistent, over the live variants.
ConsistentSet(p, attributes) ==
    \A v \in LiveVariants(p) : DOMAIN options[v] = attributes

\* The unique index variants_product_combo_live.
NewCombination(p, o) == \A v \in LiveVariants(p) : options[v] # o

\* Mutant: the variant that goes is counted as another one.
AnyActive(p, v) ==
    status[p] = "active" /\ sale[v] = "active" => OnSale(p) # {}

\* _require_another_active
AnotherActive(p, v) ==
    status[p] = "active" /\ sale[v] = "active" => OnSale(p) \ {v} # {}

Transitions == {<<"draft", "active">>, <<"inactive", "active">>, <<"active", "inactive">>}

-----------------------------------------------------------------------------
(* Requests.                                                               *)

Kinds == {"createProduct", "editProduct", "setValues", "deleteProduct", "publish",
          "unpublish", "createVariant", "updateVariant", "deleteVariant",
          "putConfiguration", "detach"}

\* What a request does next.
Points == {"idle", "lock", "decide", "validate", "enforce", "commit",
           "readConfig", "checkValued", "checkVaried", "upsert"}

Idle == [pc |-> "idle", kind |-> "editProduct", product |-> None, variant |-> None,
         values |-> {}, options |-> NoOptions, sale |-> "active",
         attribute |-> None, flags |-> Detached, seen |-> Detached]

Transactions ==
    [pc : Points, kind : Kinds, product : Product \cup {None},
     variant : Variant \cup {None}, values : SUBSET Attribute,
     options : Combinations, sale : Sales, attribute : Attribute \cup {None},
     flags : Flags, seen : Flags]

Init ==
    /\ status = [p \in Product |-> "none"]
    /\ removed = {}
    /\ values = [p \in Product |-> {}]
    /\ owner = [v \in Variant |-> None]
    /\ sale = [v \in Variant |-> "active"]
    /\ retired = {}
    /\ options = [v \in Variant |-> NoOptions]
    /\ config = [a \in Attribute |-> Detached]
    /\ tx = [r \in Request |-> Idle]

At(r, point) == tx[r].pc = point
Goto(r, point) == tx' = [tx EXCEPT ![r].pc = point]
End(r) == tx' = [tx EXCEPT ![r] = Idle]

\* An error raised by the service: the transaction is rolled back.
Refuse(r) == End(r) /\ UNCHANGED rows

\* Bound: an id is used once, and a creation starts only while one is left.
NewProduct(p) == ~HasRow(p) /\ \A r \in Request : tx[r].product # p
NewVariant(v) == owner[v] = None /\ \A r \in Request : tx[r].variant # v

Ask(r, request) == tx' = [tx EXCEPT ![r] = request]

\* (An edit of a variant that leaves the status alone is one that sets the
\* status it has.)
AskSeller(r) ==
    \/ \E p \in Product, S \in SUBSET Attribute :
          /\ NewProduct(p)
          /\ Ask(r, [Idle EXCEPT !.pc = "validate", !.kind = "createProduct",
                                 !.product = p, !.values = S])
    \/ \E p \in Product, kind \in {"editProduct", "deleteProduct", "publish", "unpublish"} :
          /\ HasRow(p)
          /\ Ask(r, [Idle EXCEPT !.pc = "lock", !.kind = kind, !.product = p])
    \/ \E p \in Product, S \in SUBSET Attribute :
          /\ HasRow(p)
          /\ Ask(r, [Idle EXCEPT !.pc = "lock", !.kind = "setValues", !.product = p,
                                 !.values = S])
    \/ \E p \in Product, v \in Variant, o \in Combinations, s \in Sales :
          /\ HasRow(p) /\ NewVariant(v)
          /\ Ask(r, [Idle EXCEPT !.pc = "lock", !.kind = "createVariant", !.product = p,
                                 !.variant = v, !.options = o, !.sale = s])
    \/ \E v \in Variant, s \in Sales :
          /\ owner[v] # None
          /\ Ask(r, [Idle EXCEPT !.pc = "lock", !.kind = "updateVariant",
                                 !.product = owner[v], !.variant = v, !.sale = s])
    \/ \E v \in Variant :
          /\ owner[v] # None
          /\ Ask(r, [Idle EXCEPT !.pc = "lock", !.kind = "deleteVariant",
                                 !.product = owner[v], !.variant = v])

\* (put_configuration refuses a variation that is not a SELECT at once.)
AskStaff(r) ==
    \/ \E a \in Attribute, f \in Flags :
          /\ f.attached /\ (f.variation => a \in Select)
          /\ Ask(r, [Idle EXCEPT !.pc = "readConfig", !.kind = "putConfiguration",
                                 !.attribute = a, !.flags = f])
    \/ \E a \in Attribute :
          Ask(r, [Idle EXCEPT !.pc = "readConfig", !.kind = "detach", !.attribute = a])

Begin(r) == At(r, "idle") /\ (AskSeller(r) \/ AskStaff(r)) /\ UNCHANGED rows

\* PostgreSQL refuses the write (a SKU the shop already uses, a deadlock), a
\* field of the request is refused, or the connection is lost.
Rollback(r) == ~At(r, "idle") /\ Refuse(r)

-----------------------------------------------------------------------------
(* The steps of a request that changes a product.                          *)

\* The request holds the lock of the product's row.
Holds(r, p) ==
    /\ tx[r].product = p
    /\ tx[r].pc \in {"decide", "validate", "enforce", "commit"}

\* Mutant: a change of an active product is not checked, only publish is.
Unchecked(p) == "commit"

\* Where a write to a product goes on: through enforce_product_invariants if
\* the product is active.
Checked(p) == IF status[p] = "active" THEN "enforce" ELSE "commit"

AfterLock(kind, p) ==
    CASE kind \in {"setValues", "createVariant"} -> "validate"
      [] kind = "editProduct" -> Checked(p)
      [] kind = "deleteProduct" -> "commit"
      [] OTHER -> "decide"

\* Mutant: the row is read without FOR UPDATE.
ReadProduct(r) ==
    /\ At(r, "lock")
    /\ \/ ~Live(tx[r].product) /\ Refuse(r)
       \/ /\ Live(tx[r].product)
          /\ Goto(r, AfterLock(tx[r].kind, tx[r].product))
          /\ UNCHANGED rows

\* get_product(lock=True): a live product, once no one else holds its row.
LockProduct(r) ==
    /\ At(r, "lock")
    /\ \/ ~Live(tx[r].product) /\ Refuse(r)
       \/ /\ Live(tx[r].product)
          /\ \A q \in Request \ {r} : ~Holds(q, tx[r].product)
          /\ Goto(r, AfterLock(tx[r].kind, tx[r].product))
          /\ UNCHANGED rows

Target(kind) == IF kind = "publish" THEN "active" ELSE "inactive"

\* Mutant: any product may be published or unpublished.
DecideAnyTransition(r) ==
    /\ At(r, "decide") /\ tx[r].kind \in {"publish", "unpublish"}
    /\ Goto(r, IF tx[r].kind = "publish" THEN "enforce" ELSE "commit")
    /\ UNCHANGED rows

\* _transition, up to the check of the pair of statuses.
DecideTransition(r) ==
    /\ At(r, "decide") /\ tx[r].kind \in {"publish", "unpublish"}
    /\ LET pair == <<status[tx[r].product], Target(tx[r].kind)>> IN
       \/ pair \notin Transitions /\ Refuse(r)
       \/ /\ pair \in Transitions
          /\ Goto(r, IF tx[r].kind = "publish" THEN "enforce" ELSE "commit")
          /\ UNCHANGED rows

\* update_variant and delete_variant, up to _require_another_active.
DecideVariant(r) ==
    /\ At(r, "decide") /\ tx[r].kind \in {"updateVariant", "deleteVariant"}
    /\ LET v == tx[r].variant
           p == tx[r].product
           goesOff == tx[r].kind = "deleteVariant" \/ tx[r].sale = "inactive"
           refused == v \in retired \/ (goesOff /\ ~AnotherActive(p, v))
       IN
       \/ refused /\ Refuse(r)
       \/ /\ ~refused
          /\ Goto(r, IF tx[r].kind = "deleteVariant" THEN "commit" ELSE Checked(p))
          /\ UNCHANGED rows

\* _validated_values.
ValidateValues(r) ==
    /\ At(r, "validate") /\ tx[r].kind \in {"createProduct", "setValues"}
    /\ \/ ~ValidValues(tx[r].values) /\ Refuse(r)
       \/ /\ ValidValues(tx[r].values)
          /\ Goto(r, IF tx[r].kind = "createProduct" THEN "commit"
                     ELSE Checked(tx[r].product))
          /\ UNCHANGED rows

\* _validated_options, _require_consistent_set and the index on combinations.
ValidateOptions(r) ==
    /\ At(r, "validate") /\ tx[r].kind = "createVariant"
    /\ LET p == tx[r].product
           o == tx[r].options
           valid == ValidOptions(o) /\ ConsistentSet(p, DOMAIN o) /\ NewCombination(p, o)
       IN
       \/ ~valid /\ Refuse(r)
       \/ valid /\ Goto(r, Checked(p)) /\ UNCHANGED rows

\* What the transaction itself sees after its own writes.
ValuesWritten(r) == IF tx[r].kind = "setValues" THEN tx[r].values
                    ELSE values[tx[r].product]
ShapesWritten(r) ==
    LET p == tx[r].product
        v == tx[r].variant
        written == CASE tx[r].kind = "createVariant" -> DOMAIN tx[r].options
                     [] tx[r].kind = "updateVariant" -> DOMAIN options[v]
                     [] OTHER -> {}
    IN  {Shape(w) : w \in LiveVariants(p) \ {v}} \cup
        (IF v = None THEN {} ELSE {[status |-> tx[r].sale, attributes |-> written]})

\* enforce_product_invariants, after the writes and before the commit.
Enforce(r) ==
    /\ At(r, "enforce")
    /\ LET complete == NoGaps(ValuesWritten(r), ShapesWritten(r)) IN
       \/ ~complete /\ Refuse(r)
       \/ complete /\ Goto(r, "commit") /\ UNCHANGED rows

CreateProduct(r) ==
    /\ At(r, "commit") /\ tx[r].kind = "createProduct"
    /\ status' = [status EXCEPT ![tx[r].product] = "draft"]
    /\ values' = [values EXCEPT ![tx[r].product] = tx[r].values]
    /\ End(r)
    /\ UNCHANGED <<removed, variant, config>>

UpdateProduct(r) ==
    /\ At(r, "commit") /\ tx[r].kind \in {"editProduct", "setValues"}
    /\ values' = [values EXCEPT ![tx[r].product] = ValuesWritten(r)]
    /\ End(r)
    /\ UNCHANGED <<status, removed, variant, config>>

\* Mutant: the variants are not deleted with their product.
DeleteProductAlone(r) ==
    /\ At(r, "commit") /\ tx[r].kind = "deleteProduct"
    /\ removed' = removed \cup {tx[r].product}
    /\ End(r)
    /\ UNCHANGED <<status, values, variant, config>>

DeleteProduct(r) ==
    /\ At(r, "commit") /\ tx[r].kind = "deleteProduct"
    /\ removed' = removed \cup {tx[r].product}
    /\ retired' = retired \cup LiveVariants(tx[r].product)
    /\ End(r)
    /\ UNCHANGED <<status, values, owner, sale, options, config>>

\* Mutant: the name of the operation is stored instead of the status.
StoreOperation(r) ==
    /\ At(r, "commit") /\ tx[r].kind \in {"publish", "unpublish"}
    /\ status' = [status EXCEPT ![tx[r].product] = tx[r].kind]
    /\ End(r)
    /\ UNCHANGED <<removed, values, variant, config>>

Transition(r) ==
    /\ At(r, "commit") /\ tx[r].kind \in {"publish", "unpublish"}
    /\ status' = [status EXCEPT ![tx[r].product] = Target(tx[r].kind)]
    /\ End(r)
    /\ UNCHANGED <<removed, values, variant, config>>

CreateVariant(r) ==
    /\ At(r, "commit") /\ tx[r].kind = "createVariant"
    /\ owner' = [owner EXCEPT ![tx[r].variant] = tx[r].product]
    /\ sale' = [sale EXCEPT ![tx[r].variant] = tx[r].sale]
    /\ options' = [options EXCEPT ![tx[r].variant] = tx[r].options]
    /\ End(r)
    /\ UNCHANGED <<product, retired, config>>

UpdateVariant(r) ==
    /\ At(r, "commit") /\ tx[r].kind = "updateVariant"
    /\ sale' = [sale EXCEPT ![tx[r].variant] = tx[r].sale]
    /\ End(r)
    /\ UNCHANGED <<product, owner, retired, options, config>>

DeleteVariant(r) ==
    /\ At(r, "commit") /\ tx[r].kind = "deleteVariant"
    /\ retired' = retired \cup {tx[r].variant}
    /\ End(r)
    /\ UNCHANGED <<product, owner, sale, options, config>>

-----------------------------------------------------------------------------
(* The steps of a request that changes the configuration.                  *)

\* put_configuration and detach, up to get_config.  A row that is found stays
\* in the session: later reads by key return it as it was.
ReadConfig(r) ==
    /\ At(r, "readConfig")
    /\ LET seen == config[tx[r].attribute]
           flips == seen.variation # tx[r].flags.variation
       IN
       \/ tx[r].kind = "detach" /\ ~seen.attached /\ Refuse(r)
       \/ /\ tx[r].kind = "detach" /\ seen.attached
          /\ Goto(r, "checkValued")
          /\ UNCHANGED rows
       \/ /\ tx[r].kind = "putConfiguration"
          /\ tx' = [tx EXCEPT ![r].seen = seen,
                              ![r].pc = IF ~seen.attached THEN "upsert"
                                        ELSE IF flips THEN "checkValued" ELSE "commit"]
          /\ UNCHANGED rows

CheckValued(r) ==
    /\ At(r, "checkValued")
    /\ \/ Valued(tx[r].attribute) /\ Refuse(r)
       \/ ~Valued(tx[r].attribute) /\ Goto(r, "checkVaried") /\ UNCHANGED rows

CheckVaried(r) ==
    /\ At(r, "checkVaried")
    /\ \/ Varied(tx[r].attribute) /\ Refuse(r)
       \/ ~Varied(tx[r].attribute) /\ Goto(r, "commit") /\ UNCHANGED rows

\* upsert_config asks again for a row that was not there.
Upsert(r) ==
    /\ At(r, "upsert")
    /\ tx' = [tx EXCEPT ![r].seen = config[tx[r].attribute], ![r].pc = "commit"]
    /\ UNCHANGED rows

\* The UPDATE names the columns whose value differs from the one that was read.
Merged(row, seen, flags) ==
    [attached |-> TRUE,
     required |-> IF flags.required # seen.required THEN flags.required ELSE row.required,
     variation |-> IF flags.variation # seen.variation THEN flags.variation ELSE row.variation]

\* The INSERT or the UPDATE, with the commit.  It fails if the row came or
\* went since it was read.
PutConfiguration(r) ==
    /\ At(r, "commit") /\ tx[r].kind = "putConfiguration"
    /\ LET a == tx[r].attribute
           seen == tx[r].seen
       IN
       \/ seen.attached # config[a].attached /\ Refuse(r)
       \/ /\ seen.attached = config[a].attached
          /\ config' = [config EXCEPT ![a] =
                          IF seen.attached THEN Merged(@, seen, tx[r].flags) ELSE tx[r].flags]
          /\ End(r)
          /\ UNCHANGED <<product, variant>>

Detach(r) ==
    /\ At(r, "commit") /\ tx[r].kind = "detach"
    /\ config' = [config EXCEPT ![tx[r].attribute] = Detached]
    /\ End(r)
    /\ UNCHANGED <<product, variant>>

-----------------------------------------------------------------------------
SellerStep(r) ==
    \/ LockProduct(r) \/ DecideTransition(r) \/ DecideVariant(r)
    \/ ValidateValues(r) \/ ValidateOptions(r) \/ Enforce(r)
    \/ CreateProduct(r) \/ UpdateProduct(r) \/ DeleteProduct(r) \/ Transition(r)
    \/ CreateVariant(r) \/ UpdateVariant(r) \/ DeleteVariant(r)

StaffStep(r) ==
    \/ ReadConfig(r) \/ CheckValued(r) \/ CheckVaried(r) \/ Upsert(r)
    \/ PutConfiguration(r) \/ Detach(r)

Next == \E r \in Request : Begin(r) \/ SellerStep(r) \/ StaffStep(r) \/ Rollback(r)

Spec == Init /\ [][Next]_vars

-----------------------------------------------------------------------------
(* Properties.                                                             *)

\* Every variable keeps its shape.
TypeOK ==
    /\ status \in [Product -> Statuses \cup {"none"}]
    /\ removed \in SUBSET Product
    /\ values \in [Product -> SUBSET Attribute]
    /\ owner \in [Variant -> Product \cup {None}]
    /\ sale \in [Variant -> Sales]
    /\ retired \in SUBSET Variant
    /\ options \in [Variant -> Combinations]
    /\ config \in [Attribute -> Flags]
    /\ tx \in [Request -> Transactions]

\* R22: a product that is on show can be bought.  Switching off and deleting
\* variants, in any number of requests at once and also on a product that no
\* longer satisfies the configuration, leave an active product one active
\* variant.
ActiveSells == \A p \in Product : Live(p) /\ status[p] = "active" => OnSale(p) # {}

\* R19: the live variants of a product are told apart by the same attributes,
\* those switched off and those of drafts included, although each creation
\* looks only at the variants that are committed.
OneVariationSet ==
    \A v, w \in Variant \ retired :
        owner[v] # None /\ owner[v] = owner[w] => DOMAIN options[v] = DOMAIN options[w]

\* R23: a live variant belongs to a live product.  A variant created while
\* its product is being deleted must not outlive it.
NoOrphanVariant == \A v \in Variant \ retired : owner[v] # None => Live(owner[v])

\* R23: what is deleted is kept as it was.  No write that started before the
\* deletion lands after it.
DeletedRowsAreKept ==
    [][/\ \A p \in removed : /\ p \in removed'
                             /\ status'[p] = status[p]
                             /\ values'[p] = values[p]
       /\ \A v \in retired : /\ v \in retired'
                             /\ sale'[v] = sale[v]
                             /\ options'[v] = options[v]]_vars

\* What a client of the shop sees of the products follows Listing.
Phase == [p \in Product |-> IF p \in removed THEN "gone" ELSE status[p]]
Offers == [p \in Product |-> OnSale(p)]
Shown == INSTANCE Listing WITH phase <- Phase, offers <- Offers
ImplementsListing == Shown!Spec

\* ProductAttributeValue, models/product.py: "A *variation* attribute never
\* appears here: its values live on the variants."
NoVariationValue ==
    \A p \in Product : HasRow(p) => \A a \in values[p] : ~config[a].variation

\* R15 and R18: a product has values only for attributes that the category
\* asks of products, and a variant has options only for those it asks of
\* variants, also after staff have changed the configuration.
ValuesFollowConfiguration ==
    /\ \A p \in Product : HasRow(p) => ValidValues(values[p])
    /\ \A v \in Variant : owner[v] # None => ValidOptions(options[v])

\* No change of the configuration is under way together with a seller's
\* request; sellers' requests among themselves, and the staff's among
\* themselves, overlap as they like.  What the three properties about the
\* rules of the configuration need.
StaffKinds == {"putConfiguration", "detach"}
Apart == \A q, r \in Request :
    ~At(q, "idle") /\ ~At(r, "idle")
       => (tx[q].kind \in StaffKinds <=> tx[r].kind \in StaffKinds)

\* R14: the four conditions, on the committed rows.
Complete(p) ==
    /\ {a \in Attribute : config[a].required /\ ~config[a].variation} \subseteq values[p]
    /\ \A v \in LiveVariants(p) :
          {a \in Attribute : config[a].required /\ config[a].variation} \subseteq DOMAIN options[v]
    /\ OnSale(p) # {}
    /\ \E S \in SUBSET Select : \A v \in LiveVariants(p) : DOMAIN options[v] = S

IsActive(p) == Live(p) /\ status[p] = "active"

\* What enforce_product_invariants is called for: publish, create_variant, and
\* a change of the values or of a variant's status.
Saved(p) ==
    \/ status'[p] # status[p] \/ values'[p] # values[p]
    \/ \E v \in Variant : owner'[v] = p /\ (owner[v] # p \/ sale'[v] # sale[v])

\* What it is not called for: delete_variant asks for another active variant,
\* and for nothing else.
Reduced(p) == \E v \in retired' \ retired : owner[v] = p

\* R14 and R16: publishing, a change of values, a new variant and a changed
\* status leave an active product with everything its category asks for,
\* however long the product was stale before.
SavesKeepTheRules == [][\A p \in Product : IsActive(p)' /\ Saved(p) => Complete(p)']_vars

\* R16 as PRODUCT.md states it, the deletion of a variant included; and
\* product_rules.py: "every mutation of a product that is already active (its
\* attribute values, its variants)".
EditsKeepTheRules ==
    [][\A p \in Product : IsActive(p)' /\ (Saved(p) \/ Reduced(p)) => Complete(p)']_vars

\* R16: no request of a seller takes a product that satisfies the rules out
\* of them.
NeverPushedOut ==
    [][config' = config =>
          \A p \in Product : IsActive(p) /\ IsActive(p)' /\ Complete(p) => Complete(p)']_vars
=============================================================================
