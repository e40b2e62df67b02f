------------------------------ MODULE References ------------------------------
(***************************************************************************)
(* The shared reference data (attributes, their options, brands), as a     *)
(* catalog manager creates, renames and deletes it, and the rows that      *)
(* point at it: the configuration of a category, the brand and the value   *)
(* of a product, the option of a variant.                                  *)
(*                                                                         *)
(* Nobody locks a row of reference data.  The services ask first and       *)
(* write later, in another statement, and the constraints of the tables    *)
(* decide what the write does.  A step is one query with the decision      *)
(* taken on it, or a write with the commit: a write waits for an           *)
(* uncommitted one it conflicts with (the index entry, the lock that a     *)
(* foreign key takes), so that the two are ordered by their commits.       *)
(*                                                                         *)
(* One category stands for all.  A product has at most one value and a     *)
(* variant one option.  The columns that no rule reads (display names,     *)
(* sort orders, flags) are left out.                                       *)
(***************************************************************************)
EXTENDS Naturals

CONSTANTS
    Attribute,  \* the ids of attributes
    Select,     \* those created with data_type SELECT
    Option,     \* the ids of options
    Brand,      \* the ids of brands
    Key,        \* attributes.key
    Name,       \* the values of options and the names of brands
    Fold,       \* slugify: the slug of each brand name
    Product,    \* the ids of products
    Variant,    \* the ids of variants
    Request,    \* the requests that may be in flight at the same time
    None,       \* no id, no name
    Together    \* bound: brands may exist beside attributes

Entry == Attribute \cup Option \cup Brand

ASSUME ReferencesAssumption ==
    /\ Attribute \cap Option = {} /\ Attribute \cap Brand = {} /\ Option \cap Brand = {}
    /\ None \notin Entry \cup Key \cup Name \cup Product \cup Variant
    /\ Select \subseteq Attribute
    /\ Fold \in [Name -> Name]
    /\ Together \in BOOLEAN

VARIABLES
    name,       \* attributes.key, attribute_options.value or brands.name; None without a row
    under,      \* attribute_options.attribute_id
    slug,       \* brands.slug: what it is derived from, and the suffix
    gone,       \* the entries whose row was deleted
    attached,   \* the attributes in the category's configuration
    listed,     \* the products that have a row
    removed,    \* those whose deleted_at is set
    brand,      \* products.brand_id
    value,      \* the attribute, and the option if it has options, of a product's value
    variant,    \* the attribute and the option of each variant
    tx,         \* what each request has still to do and has read so far
    answer,     \* what the last step answered, "given" also for no answer yet
    disturbed   \* history: the requests during which another one changed a row

catalog == <<name, under, slug, gone>>
sellers == <<listed, removed, brand, value, variant>>
tables == <<catalog, attached, sellers>>
vars == <<tables, tx, answer, disturbed>>

-----------------------------------------------------------------------------
(* What the tables say.                                                    *)

Nothing == <<None, None>>
NoSlug == <<None, 0>>
Pairs == (Attribute \X (Option \cup {None})) \cup {Nothing}

Exists(e) == name[e] # None

SameTable(e, f) == \A T \in {Attribute, Option, Brand} : e \in T => f \in T

\* attributes_key_uniq, brands_name_uniq, attribute_options_value_uniq
Taken(e, a, n) == \E f \in Entry \ {e} : /\ SameTable(e, f) /\ name[f] = n
                                         /\ f \in Option => under[f] = a
\* brands_slug_uniq
SlugTaken(s) == \E b \in Brand : slug[b] = s

\* Mutant: products deleted softly do not count.
ValuedLive(e) == \E p \in listed \ removed : e \in {brand[p], value[p][1], value[p][2]}

\* brand_has_products, and the first query of attribute_in_use and
\* option_in_use.
Valued(e) == \E p \in listed : e \in {brand[p], value[p][1], value[p][2]}

\* The second query of attribute_in_use and option_in_use.
Varied(e) == \E v \in Variant : e \in {variant[v][1], variant[v][2]}

\* Mutant: no foreign key keeps a row.
NoForeignKey(e) == FALSE

\* The foreign keys that RESTRICT the deletion of a row.
Restricted(e) ==
    \/ e \in attached
    \/ \E p \in Product : e \in {brand[p], value[p][1], value[p][2]}
    \/ \E v \in Variant : e \in {variant[v][1], variant[v][2]}

\* A row and those that go with it: attribute_options.attribute_id CASCADE.
Cascade(e) == {e} \cup {o \in Option : under[o] = e}

-----------------------------------------------------------------------------
(* Requests.                                                               *)

Kinds == {"create", "rename", "delete", "attach", "detach",
          "createProduct", "setBrand", "setValue", "deleteProduct", "createVariant"}

\* The statement a request runs next.
Points == {"idle", "lookUp", "insert", "read", "update", "checkAttached",
           "checkValues", "checkVariants", "remove", "readConfig", "attachNew",
           "attachAgain", "lock", "readBrand", "readRules", "readOptions", "write"}

\* "failed": an error of the database that no except clause maps.
Answers == {"given", "exists", "failed"}

Idle == [pc |-> "idle", kind |-> "rename", row |-> None, name |-> None, suffix |-> 0,
         attribute |-> None, option |-> None, brand |-> None, product |-> None]

Transactions ==
    [pc : Points, kind : Kinds, row : Entry \cup Variant \cup {None},
     name : Key \cup Name \cup {None}, suffix : Nat, attribute : Attribute \cup {None},
     option : Option \cup {None}, brand : Brand \cup {None},
     product : Product \cup {None}]

Init ==
    /\ name = [e \in Entry |-> None]
    /\ under = [o \in Option |-> None]
    /\ slug = [b \in Brand |-> NoSlug]
    /\ gone = {} /\ attached = {} /\ listed = {} /\ removed = {}
    /\ brand = [p \in Product |-> None]
    /\ value = [p \in Product |-> Nothing]
    /\ variant = [v \in Variant |-> Nothing]
    /\ tx = [r \in Request |-> Idle]
    /\ answer = "given"
    /\ disturbed = {}

At(r, point) == tx[r].pc = point
Goto(r, point) ==
    /\ tx' = [tx EXCEPT ![r].pc = point]
    /\ answer' = "given"
    /\ UNCHANGED <<tables, disturbed>>

\* The transaction ends without a change of a row that is modelled.
Answer(r, how) ==
    /\ tx' = [tx EXCEPT ![r] = Idle]
    /\ answer' = how
    /\ disturbed' = disturbed \ {r}
    /\ UNCHANGED tables

\* The transaction ends with a change that the others may notice.
Commit(r) ==
    /\ tx' = [tx EXCEPT ![r] = Idle]
    /\ answer' = "given"
    /\ disturbed' = {q \in Request \ {r} : ~At(q, "idle")}

Known(T) == {e \in T : Exists(e) \/ e \in gone}
Started(e) == e \in Known(Entry) \/ \E r \in Request : tx[r].row = e
NewEntry(e) ==
    /\ ~Started(e)
    /\ ~Together => \A f \in Entry : Started(f) => (e \in Brand <=> f \in Brand)

\* The values that a client can name.
KnownPairs == {x \in Pairs : /\ x[1] \in Known(Attribute) \cup {None}
                             /\ x[2] \in Known(Option) \cup {None}}

NewVariant(v) == variant[v] = Nothing /\ \A r \in Request : tx[r].row # v
NewProduct(p) == p \notin listed /\ \A r \in Request : tx[r].product # p

\* The statements before the write of a product or a variant: the brand, the
\* configuration and the options are read only where the request names them.
FromRules(a) == IF a = None THEN "write" ELSE "readRules"
FromBrand(b, a) == IF b = None THEN FromRules(a) ELSE "readBrand"

Ask(r, request) == tx' = [tx EXCEPT ![r] = request]

AskManager(r) ==
    \/ \E a \in Attribute, k \in Key :
          /\ NewEntry(a)
          /\ Ask(r, [Idle EXCEPT !.pc = "insert", !.kind = "create", !.row = a, !.name = k])
    \/ \E o \in Option, a \in Known(Attribute), n \in Name :
          /\ NewEntry(o)
          /\ Ask(r, [Idle EXCEPT !.pc = "read", !.kind = "create", !.row = o, !.name = n,
                                 !.attribute = a])
    \/ \E b \in Brand, n \in Name :
          /\ NewEntry(b)
          /\ Ask(r, [Idle EXCEPT !.pc = "lookUp", !.kind = "create", !.row = b, !.name = n,
                                 !.suffix = 1])
    \/ \E e \in Known(Entry) :
          \/ \E n \in Name :
                Ask(r, [Idle EXCEPT !.pc = "read", !.kind = "rename", !.row = e, !.name = n])
          \/ Ask(r, [Idle EXCEPT !.pc = "read", !.kind = "delete", !.row = e])
    \/ \E a \in Known(Attribute), kind \in {"attach", "detach"} :
          Ask(r, [Idle EXCEPT !.pc = IF kind = "attach" THEN "read" ELSE "readConfig",
                              !.kind = kind, !.row = a])

AskSeller(r) ==
    \/ \E p \in Product, b \in Known(Brand) \cup {None}, x \in KnownPairs :
          /\ NewProduct(p)
          /\ Ask(r, [Idle EXCEPT !.pc = FromBrand(b, x[1]), !.kind = "createProduct",
                     !.product = p, !.brand = b, !.attribute = x[1], !.option = x[2]])
    \/ \E p \in listed, b \in Known(Brand) \cup {None} :
          Ask(r, [Idle EXCEPT !.pc = "lock", !.kind = "setBrand", !.product = p, !.brand = b])
    \/ \E p \in listed, x \in KnownPairs :
          Ask(r, [Idle EXCEPT !.pc = "lock", !.kind = "setValue", !.product = p,
                              !.attribute = x[1], !.option = x[2]])
    \/ \E p \in listed :
          Ask(r, [Idle EXCEPT !.pc = "lock", !.kind = "deleteProduct", !.product = p])
    \/ \E p \in listed, v \in Variant, x \in KnownPairs :
          /\ NewVariant(v) /\ x[1] \in Select /\ x[2] # None
          /\ Ask(r, [Idle EXCEPT !.pc = "lock", !.kind = "createVariant", !.product = p,
                              !.row = v, !.attribute = x[1], !.option = x[2]])

Begin(r) ==
    /\ At(r, "idle")
    /\ AskManager(r) \/ AskSeller(r)
    /\ answer' = "given"
    /\ UNCHANGED <<tables, disturbed>>

-----------------------------------------------------------------------------
(* The catalog manager's requests.                                         *)

\* get_attribute, get_option, get_brand.  A rename to the name that the row
\* has sends no statement.
Read(r) ==
    /\ At(r, "read")
    /\ LET t == tx[r]
           e == IF t.kind = "create" THEN t.attribute ELSE t.row
       IN
       \/ ~Exists(e) /\ Answer(r, "given")
       \/ /\ Exists(e)
          /\ \/ t.kind = "create" /\ e \in Select /\ Goto(r, "insert")
             \/ t.kind = "create" /\ e \notin Select /\ Answer(r, "given")
             \/ t.kind = "rename" /\ e \notin Attribute /\ name[e] = t.name
                /\ Answer(r, "given")
             \/ t.kind = "rename" /\ (e \in Attribute \/ name[e] # t.name)
                /\ Goto(r, "update")
             \/ t.kind = "delete" /\ e \in Attribute /\ Goto(r, "checkAttached")
             \/ t.kind = "delete" /\ e \notin Attribute /\ Goto(r, "checkValues")
             \/ t.kind = "attach" /\ Goto(r, "readConfig")

\* create_brand: one turn of its loop.
LookUp(r) ==
    /\ At(r, "lookUp")
    /\ \/ /\ SlugTaken(<<Fold[tx[r].name], tx[r].suffix>>)
          /\ tx' = [tx EXCEPT ![r].suffix = @ + 1]
          /\ answer' = "given"
          /\ UNCHANGED <<tables, disturbed>>
       \/ /\ ~SlugTaken(<<Fold[tx[r].name], tx[r].suffix>>)
          /\ Goto(r, "insert")

\* Mutant: no unique constraint refuses the row.
NoParent(t) == t.row \in Option /\ ~Exists(t.attribute)

\* The IntegrityError of an INSERT, each reported as ...Exists.
InsertFails(t) ==
    \/ Taken(t.row, t.attribute, t.name)
    \/ t.row \in Option /\ ~Exists(t.attribute)
    \/ t.row \in Brand /\ SlugTaken(<<Fold[t.name], t.suffix>>)

\* create_attribute, create_option, create_brand: the savepoint and the commit.
Insert(r) ==
    /\ At(r, "insert")
    /\ LET t == tx[r] IN
       \/ InsertFails(t) /\ Answer(r, "exists")
       \/ /\ ~InsertFails(t)
          /\ name' = [name EXCEPT ![t.row] = t.name]
          /\ under' = [o \in Option |-> IF o = t.row THEN t.attribute ELSE under[o]]
          /\ slug' = [b \in Brand |->
                         IF b = t.row THEN <<Fold[t.name], t.suffix>> ELSE slug[b]]
          /\ Commit(r)
          /\ UNCHANGED <<gone, attached, sellers>>

UnderOf(e) == IF e \in Option THEN under[e] ELSE None

\* Mutant: the row is merged into the table, not updated.
MergeRow(r) ==
    /\ At(r, "update")
    /\ name' = [name EXCEPT ![tx[r].row] = tx[r].name]
    /\ Commit(r)
    /\ UNCHANGED <<under, slug, gone, attached, sellers>>

\* rename_attribute, update_option, rename_brand: an UPDATE that finds no row
\* raises StaleDataError.
Update(r) ==
    /\ At(r, "update")
    /\ LET e == tx[r].row
           n == tx[r].name
       IN
       \/ ~Exists(e) /\ Answer(r, "failed")
       \/ Exists(e) /\ e \in Attribute /\ Answer(r, "given")
       \/ Exists(e) /\ e \notin Attribute /\ Taken(e, UnderOf(e), n) /\ Answer(r, "exists")
       \/ /\ Exists(e) /\ e \notin Attribute /\ ~Taken(e, UnderOf(e), n)
          /\ name' = [name EXCEPT ![e] = n]
          /\ Commit(r)
          /\ UNCHANGED <<under, slug, gone, attached, sellers>>

\* attribute_is_attached
CheckAttached(r) ==
    /\ At(r, "checkAttached")
    /\ \/ tx[r].row \in attached /\ Answer(r, "given")
       \/ tx[r].row \notin attached /\ Goto(r, "checkValues")

\* attribute_in_use, option_in_use, used_in_category, brand_has_products
CheckValues(r) ==
    /\ At(r, "checkValues")
    /\ \/ Valued(tx[r].row) /\ Answer(r, "given")
       \/ ~Valued(tx[r].row)
          /\ Goto(r, IF tx[r].row \in Brand THEN "remove" ELSE "checkVariants")

CheckVariants(r) ==
    /\ At(r, "checkVariants")
    /\ \/ Varied(tx[r].row) /\ Answer(r, "given")
       \/ ~Varied(tx[r].row) /\ Goto(r, "remove")

\* delete_attribute, delete_option, delete_brand: a bulk DELETE.
Remove(r) ==
    /\ At(r, "remove") /\ tx[r].kind = "delete"
    /\ LET e == tx[r].row IN
       \/ ~Exists(e) /\ Answer(r, "given")
       \/ Exists(e) /\ Restricted(e) /\ Answer(r, "failed")
       \/ /\ Exists(e) /\ ~Restricted(e)
          /\ name' = [f \in Entry |-> IF f \in Cascade(e) THEN None ELSE name[f]]
          /\ under' = [o \in Option |-> IF o \in Cascade(e) THEN None ELSE under[o]]
          /\ slug' = [b \in Brand |-> IF b = e THEN NoSlug ELSE slug[b]]
          /\ gone' = gone \cup Cascade(e)
          /\ Commit(r)
          /\ UNCHANGED <<attached, sellers>>

\* get_config.  (upsert_config asks again when there was no row: this is the
\* query that decides.)
ReadConfig(r) ==
    /\ At(r, "readConfig")
    /\ LET found == tx[r].row \in attached IN
       \/ tx[r].kind = "attach" /\ Goto(r, IF found THEN "attachAgain" ELSE "attachNew")
       \/ tx[r].kind = "detach" /\ found /\ Goto(r, "checkValues")
       \/ tx[r].kind = "detach" /\ ~found /\ Answer(r, "given")

\* The INSERT of upsert_config: primary key and foreign key.
AttachNew(r) ==
    /\ At(r, "attachNew")
    /\ LET a == tx[r].row IN
       \/ (a \in attached \/ ~Exists(a)) /\ Answer(r, "failed")
       \/ /\ a \notin attached /\ Exists(a)
          /\ attached' = attached \cup {a}
          /\ Commit(r)
          /\ UNCHANGED <<catalog, sellers>>

\* The UPDATE of upsert_config, which may find no row, and is sent only if a
\* flag changes.
AttachAgain(r) ==
    /\ At(r, "attachAgain")
    /\ \/ Answer(r, "given")
       \/ tx[r].row \notin attached /\ Answer(r, "failed")

\* delete_config
Detach(r) ==
    /\ At(r, "remove") /\ tx[r].kind = "detach"
    /\ attached' = attached \ {tx[r].row}
    /\ Commit(r)
    /\ UNCHANGED <<catalog, sellers>>

-----------------------------------------------------------------------------
(* The sellers' requests.                                                  *)

Locked(r) == /\ tx[r].kind \in {"setBrand", "setValue", "deleteProduct", "createVariant"}
             /\ tx[r].pc \notin {"idle", "lock"}

\* get_product(lock=True)
Lock(r) ==
    /\ At(r, "lock")
    /\ LET p == tx[r].product IN
       \/ p \in removed /\ Answer(r, "given")
       \/ /\ p \notin removed
          /\ \A q \in Request \ {r} : ~(Locked(q) /\ tx[q].product = p)
          /\ Goto(r, FromBrand(tx[r].brand, tx[r].attribute))

\* _require_brand
ReadBrand(r) ==
    /\ At(r, "readBrand")
    /\ \/ ~Exists(tx[r].brand) /\ Answer(r, "given")
       \/ Exists(tx[r].brand) /\ Goto(r, FromRules(tx[r].attribute))

\* Mutant: the value's own type is not compared with the attribute's.
AnyField(t) == t.attribute \in attached

\* The value is for an attribute of the category and in the field of its type.
RightField(t) == /\ t.attribute \in attached
                 /\ t.option # None <=> t.attribute \in Select

\* list_for_category in _validated_values and _validated_options
ReadRules(r) ==
    /\ At(r, "readRules")
    /\ \/ ~RightField(tx[r]) /\ Answer(r, "given")
       \/ RightField(tx[r])
          /\ Goto(r, IF tx[r].option = None THEN "write" ELSE "readOptions")

\* option_ids_of
ReadOptions(r) ==
    /\ At(r, "readOptions")
    /\ \/ under[tx[r].option] # tx[r].attribute /\ Answer(r, "given")
       \/ under[tx[r].option] = tx[r].attribute /\ Goto(r, "write")

\* The foreign keys of a product, a value or a variant's option.
KeysHold(t) ==
    /\ t.brand # None => Exists(t.brand)
    /\ t.attribute # None => Exists(t.attribute)
    /\ t.option # None => under[t.option] = t.attribute

\* create_product, update_product, delete_product, create_variant: the rows
\* and the commit.
Write(r) ==
    /\ At(r, "write")
    /\ LET t == tx[r]
           p == t.product
           pair == <<t.attribute, t.option>>
       IN
       \/ ~KeysHold(t) /\ Answer(r, "failed")
       \/ /\ KeysHold(t)
          /\ \/ /\ t.kind = "createProduct"
                /\ listed' = listed \cup {p}
                /\ brand' = [brand EXCEPT ![p] = t.brand]
                /\ value' = [value EXCEPT ![p] = pair]
                /\ UNCHANGED <<removed, variant>>
             \/ /\ t.kind = "setBrand"
                /\ brand' = [brand EXCEPT ![p] = t.brand]
                /\ UNCHANGED <<listed, removed, value, variant>>
             \/ /\ t.kind = "setValue"
                /\ value' = [value EXCEPT ![p] = pair]
                /\ UNCHANGED <<listed, removed, brand, variant>>
             \/ /\ t.kind = "deleteProduct"
                /\ removed' = removed \cup {p}
                /\ UNCHANGED <<listed, brand, value, variant>>
             \/ /\ t.kind = "createVariant"
                /\ variant' = [variant EXCEPT ![t.row] = pair]
                /\ UNCHANGED <<listed, removed, brand, value>>
          /\ Commit(r)
          /\ UNCHANGED <<catalog, attached>>

-----------------------------------------------------------------------------
\* A rule that this module leaves out refuses the request (the flags of the
\* configuration, the publication rules), or it is cut off.
Abort(r) == ~At(r, "idle") /\ Answer(r, "given")

Step(r) ==
    \/ Read(r) \/ LookUp(r) \/ Insert(r) \/ Update(r)
    \/ CheckAttached(r) \/ CheckValues(r) \/ CheckVariants(r) \/ Remove(r)
    \/ ReadConfig(r) \/ AttachNew(r) \/ AttachAgain(r) \/ Detach(r)
    \/ Lock(r) \/ ReadBrand(r) \/ ReadRules(r) \/ ReadOptions(r) \/ Write(r)
    \/ Abort(r)

Next == \E r \in Request : Begin(r) \/ Step(r)

Spec == Init /\ [][Next]_vars

-----------------------------------------------------------------------------
(* Properties.                                                             *)

\* Every variable keeps its shape, and a row has all of its columns or none.
TypeOK ==
    /\ name \in [Entry -> Key \cup Name \cup {None}]
    /\ under \in [Option -> Attribute \cup {None}]
    /\ slug \in [Brand -> (Name \X Nat) \cup {NoSlug}]
    /\ gone \in SUBSET {e \in Entry : ~Exists(e)}
    /\ \A o \in Option : Exists(o) <=> under[o] # None
    /\ \A b \in Brand : Exists(b) <=> slug[b] # NoSlug
    /\ attached \in SUBSET Attribute
    /\ listed \in SUBSET Product
    /\ removed \in SUBSET listed
    /\ brand \in [Product -> Brand \cup {None}]
    /\ value \in [Product -> Pairs]
    /\ variant \in [Variant -> Pairs]
    /\ tx \in [Request -> Transactions]
    /\ answer \in Answers
    /\ disturbed \in SUBSET {r \in Request : ~At(r, "idle")}

\* models/catalog.py: an entry "is either referenced (and RESTRICT foreign keys
\* keep it) or it is gone": nothing points at a row that is gone, and an option
\* is under the attribute that whatever uses it names.
NoDanglingReference ==
    /\ \A a \in attached : Exists(a)
    /\ \A o \in Option : under[o] # None => Exists(under[o])
    /\ \A p \in Product : brand[p] # None => Exists(brand[p])
    /\ \A x \in {value[p] : p \in Product} \cup {variant[v] : v \in Variant} :
          /\ x[1] # None => Exists(x[1])
          /\ x[2] # None => under[x[2]] = x[1]

\* check_value_matches_type and the immutable data_type: however the catalog
\* changes between a value's validation and its write, a value of a SELECT
\* attribute is an option and any other is none, and only a SELECT has options.
ValuesMatchTheirType ==
    /\ \A o \in Option : under[o] # None => under[o] \in Select
    /\ \A x \in {value[p] : p \in Product} \cup {variant[v] : v \in Variant} :
          x[1] # None => (x[2] # None <=> x[1] \in Select)

\* The unique constraints are the arbiters of lookup-then-insert: two brands
\* share neither name nor slug, two attributes no key, two options of one
\* attribute no value.
NamesAreUnique ==
    /\ \A e \in Entry : Exists(e) => ~Taken(e, UnderOf(e), name[e])
    /\ \A b, c \in Brand : slug[b] = slug[c] /\ slug[b] # NoSlug => b = c

\* The name that a creation or a rename asks for belongs to another row.
Duplicate(t) ==
    Taken(t.row, IF t.kind = "create" THEN t.attribute ELSE UnderOf(t.row), t.name)

\* attribute_service.py: being in use "is decided by an existence query, not by
\* catching a foreign-key error".  The queries ask for all that the constraints
\* protect, so a request during which nobody else changes a row never ends in
\* an error of the database, nor is it told of a duplicate that is not there.
OnlyRacesFail ==
    [][\A r \in Request : ~At(r, "idle") /\ At(r, "idle")' /\ r \notin disturbed =>
          /\ answer' # "failed"
          /\ answer' = "exists" => Duplicate(tx[r])]_vars
=============================================================================
