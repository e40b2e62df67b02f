-------------------------- MODULE ReferencesProofs ----------------------------
(***************************************************************************)
(* Proofs about References, for every catalog and every number of          *)
(* requests: nothing dangles, values match their types, names are unique,  *)
(* and only a race with another request makes the database refuse what the *)
(* service has checked.                                                    *)
(***************************************************************************)
EXTENDS References, TLAPS

-----------------------------------------------------------------------------
(* The inductive invariant.                                                *)

LockKinds == {"setBrand", "setValue", "deleteProduct", "createVariant"}
SellerKinds == LockKinds \cup {"createProduct"}

\* What a request of each kind holds, and where it may be.
CreateShape(t) ==
    /\ t.kind = "create"
    /\ \/ t.row \in Attribute /\ t.name \in Key /\ t.pc = "insert"
       \/ /\ t.row \in Option /\ t.name \in Name /\ t.attribute \in Attribute
          /\ t.pc = "read" \/ (t.pc = "insert" /\ t.attribute \in Select)
       \/ t.row \in Brand /\ t.name \in Name /\ t.pc \in {"lookUp", "insert"}
RenameShape(t) ==
    /\ t.kind = "rename" /\ t.row \in Entry /\ t.name \in Name
    /\ t.pc \in {"read", "update"}
DeleteShape(t) ==
    /\ t.kind = "delete" /\ t.row \in Entry
    /\ t.pc \in {"read", "checkAttached", "checkValues", "checkVariants", "remove"}
ConfigShape(t) ==
    /\ t.row \in Attribute
    /\ \/ t.kind = "attach" /\ t.pc \in {"read", "readConfig", "attachNew", "attachAgain"}
       \/ t.kind = "detach" /\ t.pc \in {"readConfig", "checkValues", "checkVariants", "remove"}
SellerShape(t) ==
    /\ t.kind \in SellerKinds /\ t.product \in Product
    /\ t.pc \in {"lock", "readBrand", "readRules", "readOptions", "write"}
    /\ <<t.attribute, t.option>> \in Pairs
    /\ t.pc = "readBrand" => t.brand \in Brand
    /\ t.pc \in {"readRules", "readOptions"} => t.attribute \in Attribute
    /\ t.pc = "readOptions" => t.option \in Option
    /\ t.pc \in {"readOptions", "write"} /\ t.attribute # None =>
          (t.option # None <=> t.attribute \in Select)
    /\ t.kind = "createVariant" => t.row \in Variant

Shape(t) == t.pc # "idle" =>
    \/ CreateShape(t) \/ RenameShape(t) \/ DeleteShape(t)
    \/ ConfigShape(t) \/ SellerShape(t)

Creating(t) == t.kind = "create" /\ t.pc # "idle"

\* A creation has its id for itself, and a locked product has a row.
Placed(t) ==
    /\ Creating(t) => t.row \notin Known(Entry)
    /\ t.pc # "idle" /\ t.kind \in LockKinds => t.product \in listed

\* No row points at entry e.
Unused(e) == \A p \in Product : e \notin {brand[p], value[p][1], value[p][2]}
Unvaried(e) == \A v \in Variant : e \notin {variant[v][1], variant[v][2]}

\* What a request has read still holds.
Calm(t) ==
    /\ t.pc = "insert" /\ t.row \in Option => Exists(t.attribute)
    /\ t.pc = "insert" /\ t.row \in Brand => ~SlugTaken(<<Fold[t.name], t.suffix>>)
    /\ t.pc = "update" => Exists(t.row)
    /\ t.kind = "delete" /\ t.pc \in {"checkValues", "checkVariants", "remove"} =>
          t.row \notin attached
    /\ t.kind = "delete" /\ t.pc \in {"checkVariants", "remove"} => Unused(t.row)
    /\ t.kind = "delete" /\ t.pc = "remove" => Unvaried(t.row)
    /\ t.kind = "attach" /\ t.pc \in {"readConfig", "attachNew"} => Exists(t.row)
    /\ t.pc = "attachNew" => t.row \notin attached
    /\ t.pc = "attachAgain" => t.row \in attached
    /\ t.pc \in {"readRules", "readOptions", "write"} /\ t.brand # None => Exists(t.brand)
    /\ t.pc \in {"readOptions", "write"} /\ t.attribute # None => t.attribute \in attached
    /\ t.pc = "write" /\ t.option # None => under[t.option] = t.attribute

RequestsOK ==
    /\ \A r \in Request : Shape(tx[r]) /\ Placed(tx[r])
    /\ \A r, q \in Request : Creating(tx[r]) /\ Creating(tx[q]) /\ r # q =>
          tx[r].row # tx[q].row
    /\ \A r \in Request \ disturbed : Calm(tx[r])

\* A product without a row points at nothing.
Unlisted == \A p \in Product \ listed : brand[p] = None /\ value[p] = Nothing

IInv ==
    /\ TypeOK /\ RequestsOK /\ Unlisted
    /\ NoDanglingReference /\ ValuesMatchTheirType /\ NamesAreUnique

-----------------------------------------------------------------------------
(* Facts about the data.                                                   *)

LEMMA IdleFits == Idle \in Transactions /\ Idle.pc = "idle"
BY DEF Idle, Transactions, Points, Kinds

LEMMA PairFacts ==
    /\ Nothing \in Pairs
    /\ \A x \in Pairs : /\ x = <<x[1], x[2]>>
                        /\ x[1] \in Attribute \cup {None} /\ x[2] \in Option \cup {None}
                        /\ x[1] = None => x[2] = None
    /\ \A a \in Attribute, o \in Option \cup {None} : <<a, o>> \in Pairs
BY ReferencesAssumption DEF Pairs, Nothing, Entry

LEMMA TableFacts ==
    /\ \A e \in Attribute : e \notin Option /\ e \notin Brand
    /\ \A e \in Option : e \notin Brand
    /\ None \notin Attribute /\ None \notin Option /\ None \notin Brand
    /\ None \notin Key /\ None \notin Name /\ None \notin Entry
    /\ \A n \in Name : Fold[n] \in Name
BY ReferencesAssumption DEF Entry

LEMMA SameTableFacts ==
    \A e, f \in Entry :
        SameTable(e, f) <=> \/ e \in Attribute /\ f \in Attribute
                            \/ e \in Option /\ f \in Option
                            \/ e \in Brand /\ f \in Brand
BY TableFacts DEF SameTable, Entry

-----------------------------------------------------------------------------
(* Steps that change no table.                                             *)

\* Request r goes on as t.
LEMMA QuietStep ==
    ASSUME IInv, NEW r \in Request, NEW t \in Transactions,
           tx' = [tx EXCEPT ![r] = t], UNCHANGED tables, answer' \in Answers,
           \/ t.pc # "idle" /\ disturbed' = disturbed
           \/ disturbed' = disturbed \ {r},
           Shape(t), Placed(t),
           Creating(t) => \A q \in Request \ {r} : Creating(tx[q]) => tx[q].row # t.row,
           r \notin disturbed' => Calm(t)
    PROVE  IInv'
<1>1. /\ tx' \in [Request -> Transactions] /\ tx'[r] = t
      /\ \A q \in Request \ {r} : tx'[q] = tx[q]
  BY DEF IInv, TypeOK
<1>2. UNCHANGED <<name, under, slug, gone, attached, listed, removed, brand, value, variant>>
  BY DEF tables, catalog, sellers
<1>3. disturbed' \in SUBSET {q \in Request : ~At(q, "idle")'}
  BY <1>1 DEF IInv, TypeOK, At
<1>4. TypeOK'
  BY <1>1, <1>2, <1>3 DEF IInv, TypeOK, Exists
<1>5. \A q \in Request : Shape(tx[q])' /\ Placed(tx[q])'
  <2>1. \A u : (Placed(u) => Placed(u)') /\ (Shape(u) => Shape(u)')
    BY <1>2 DEF Placed, Creating, Known, Exists, Shape
  <2> QED BY <1>1, <1>2 DEF IInv, RequestsOK, Placed, Creating, Known, Exists, Shape,
             CreateShape, RenameShape, DeleteShape, ConfigShape, SellerShape
<1>6. \A p, q \in Request : Creating(tx'[p]) /\ Creating(tx'[q]) /\ p # q =>
         tx'[p].row # tx'[q].row
  BY <1>1 DEF IInv, RequestsOK
<1>7. \A q \in Request \ disturbed' : Calm(tx[q])'
  BY <1>1, <1>2 DEF IInv, RequestsOK, Calm, Exists, SlugTaken, Unused, Unvaried
<1>8. RequestsOK'
  BY <1>5, <1>6, <1>7 DEF RequestsOK, Creating
<1>9. (Unlisted /\ NoDanglingReference /\ ValuesMatchTheirType /\ NamesAreUnique)'
  BY <1>2 DEF IInv, Unlisted, NoDanglingReference, ValuesMatchTheirType, NamesAreUnique,
     Exists, Taken, UnderOf
<1> QED BY <1>4, <1>8, <1>9 DEF IInv

LEMMA InState ==
    ASSUME IInv, NEW r \in Request
    PROVE  /\ tx[r] \in Transactions /\ Shape(tx[r]) /\ Placed(tx[r])
           /\ r \notin disturbed => Calm(tx[r])
BY DEF IInv, TypeOK, RequestsOK

LEMMA AnswerStep ==
    ASSUME IInv, NEW r \in Request, NEW how \in Answers, Answer(r, how)
    PROVE  IInv'
<1>1. PICK t : t = Idle
  OBVIOUS
<1>2. t \in Transactions /\ t.pc = "idle"
  BY <1>1, IdleFits
<1>3. Calm(t)
  BY <1>1 DEF Calm, Idle
<1> QED BY <1>1, <1>2, <1>3, QuietStep DEF Answer, Shape, Placed, Creating

\* Request r goes on with the statement at point.
LEMMA GotoStep ==
    ASSUME IInv, NEW r \in Request, NEW point \in Points, point # "idle", ~At(r, "idle"),
           Goto(r, point), Shape([tx[r] EXCEPT !.pc = point]),
           r \notin disturbed => Calm([tx[r] EXCEPT !.pc = point])
    PROVE  IInv'
<1>1. PICK t : t = [tx[r] EXCEPT !.pc = point]
  OBVIOUS
<1>2. /\ t \in Transactions /\ t.pc = point /\ t.kind = tx[r].kind /\ t.row = tx[r].row
      /\ t.product = tx[r].product /\ tx' = [tx EXCEPT ![r] = t]
  <2>1. tx[r] \in Transactions
    BY InState
  <2>2. t \in Transactions
    BY <1>1, <2>1 DEF Transactions
  <2>3. /\ t.pc = point /\ t.kind = tx[r].kind /\ t.row = tx[r].row
        /\ t.product = tx[r].product
    BY <1>1, <2>1 DEF Transactions
  <2>4. tx' = [tx EXCEPT ![r] = t]
    BY <1>1 DEF Goto
  <2> QED BY <2>2, <2>3, <2>4
<1>3. Placed(t)
  BY <1>2, InState DEF Placed, Creating, At
<1>4. Creating(t) => \A q \in Request \ {r} : Creating(tx[q]) => tx[q].row # t.row
  BY <1>2 DEF IInv, RequestsOK, Creating, At
<1>5. answer' \in Answers /\ disturbed' = disturbed /\ UNCHANGED tables
  BY DEF Goto, Answers
<1>6. Shape(t) /\ (r \notin disturbed' => Calm(t))
  BY <1>1, <1>5
<1> QED BY <1>2, <1>3, <1>4, <1>5, <1>6, QuietStep

-----------------------------------------------------------------------------
(* Requests begin.                                                         *)

\* A request that begins as t, in one of the shapes.
LEMMA AskStep ==
    ASSUME IInv, NEW r \in Request, NEW t \in Transactions, Ask(r, t),
           UNCHANGED <<tables, disturbed>>, answer' = "given", t.pc # "idle",
           Shape(t), Placed(t), Calm(t),
           Creating(t) => \A q \in Request : tx[q].row # t.row
    PROVE  IInv'
<1>1. answer' \in Answers
  BY DEF Answers
<1> QED BY <1>1, QuietStep DEF Ask

LEMMA ManagerStep ==
    ASSUME IInv, NEW r \in Request, AskManager(r),
           UNCHANGED <<tables, disturbed>>, answer' = "given"
    PROVE  IInv'
<1>0. \A e \in Entry : NewEntry(e) => e \notin Known(Entry) /\ \A q \in Request : tx[q].row # e
  BY DEF NewEntry, Started
<1>1. ASSUME NEW a \in Attribute, NEW k \in Key, NewEntry(a), NEW t,
             t = [Idle EXCEPT !.pc = "insert", !.kind = "create", !.row = a, !.name = k],
             Ask(r, t)
      PROVE  IInv'
  <2>1. /\ t \in Transactions /\ t.pc = "insert" /\ t.kind = "create" /\ t.row = a
        /\ t.name = k /\ t.brand = None /\ t.attribute = None
    BY <1>1 DEF Idle, Transactions, Points, Kinds, Entry
  <2>2. Shape(t) /\ Placed(t) /\ Calm(t)
    BY <1>0, <1>1, <2>1, TableFacts
       DEF Shape, CreateShape, Placed, LockKinds, Calm, Entry
  <2> QED BY <1>0, <1>1, <2>1, <2>2, AskStep DEF Entry
<1>2. ASSUME NEW o \in Option, NEW a \in Known(Attribute), NEW n \in Name, NewEntry(o), NEW t,
             t = [Idle EXCEPT !.pc = "read", !.kind = "create", !.row = o, !.name = n,
                              !.attribute = a],
             Ask(r, t)
      PROVE  IInv'
  <2>1. /\ t \in Transactions /\ t.pc = "read" /\ t.kind = "create" /\ t.row = o
        /\ t.name = n /\ t.attribute = a /\ a \in Attribute
    BY <1>2 DEF Idle, Transactions, Points, Kinds, Entry, Known
  <2>2. Shape(t) /\ Placed(t) /\ Calm(t)
    BY <1>0, <1>2, <2>1 DEF Shape, CreateShape, Placed, LockKinds, Calm, Entry
  <2> QED BY <1>0, <1>2, <2>1, <2>2, AskStep DEF Entry
<1>3. ASSUME NEW b \in Brand, NEW n \in Name, NewEntry(b), NEW t,
             t = [Idle EXCEPT !.pc = "lookUp", !.kind = "create", !.row = b, !.name = n,
                              !.suffix = 1],
             Ask(r, t)
      PROVE  IInv'
  <2>1. /\ t \in Transactions /\ t.pc = "lookUp" /\ t.kind = "create" /\ t.row = b
        /\ t.name = n
    BY <1>3 DEF Idle, Transactions, Points, Kinds, Entry
  <2>2. Shape(t) /\ Placed(t) /\ Calm(t)
    BY <1>0, <1>3, <2>1 DEF Shape, CreateShape, Placed, LockKinds, Calm, Entry
  <2> QED BY <1>0, <1>3, <2>1, <2>2, AskStep DEF Entry
<1>4. ASSUME NEW e \in Known(Entry), NEW n \in Name, NEW t,
             t = [Idle EXCEPT !.pc = "read", !.kind = "rename", !.row = e, !.name = n],
             Ask(r, t)
      PROVE  IInv'
  <2>1. /\ t \in Transactions /\ t.pc = "read" /\ t.kind = "rename" /\ t.row = e
        /\ t.name = n /\ e \in Entry
    BY <1>4 DEF Idle, Transactions, Points, Kinds, Known
  <2>2. Shape(t) /\ Placed(t) /\ Calm(t) /\ ~Creating(t)
    BY <1>4, <2>1 DEF Shape, RenameShape, Placed, Creating, LockKinds, Calm
  <2> QED BY <1>4, <2>1, <2>2, AskStep
<1>5. ASSUME NEW e \in Known(Entry), NEW t,
             t = [Idle EXCEPT !.pc = "read", !.kind = "delete", !.row = e],
             Ask(r, t)
      PROVE  IInv'
  <2>1. /\ t \in Transactions /\ t.pc = "read" /\ t.kind = "delete" /\ t.row = e
        /\ e \in Entry
    BY <1>5 DEF Idle, Transactions, Points, Kinds, Known
  <2>2. Shape(t) /\ Placed(t) /\ Calm(t) /\ ~Creating(t)
    BY <1>5, <2>1 DEF Shape, DeleteShape, Placed, Creating, LockKinds, Calm
  <2> QED BY <1>5, <2>1, <2>2, AskStep
<1>6. ASSUME NEW a \in Known(Attribute), NEW kind \in {"attach", "detach"}, NEW t,
             t = [Idle EXCEPT !.pc = IF kind = "attach" THEN "read" ELSE "readConfig",
                              !.kind = kind, !.row = a],
             Ask(r, t)
      PROVE  IInv'
  <2>1. /\ t \in Transactions /\ t.kind = kind /\ t.row = a /\ a \in Attribute
        /\ t.pc = IF kind = "attach" THEN "read" ELSE "readConfig"
    BY <1>6 DEF Idle, Transactions, Points, Kinds, Known, Entry
  <2>2. Shape(t) /\ Placed(t) /\ Calm(t) /\ ~Creating(t) /\ t.pc # "idle"
    BY <1>6, <2>1 DEF Shape, ConfigShape, Placed, Creating, LockKinds, Calm
  <2> QED BY <1>6, <2>1, <2>2, AskStep
<1> QED BY <1>1, <1>2, <1>3, <1>4, <1>5, <1>6 DEF AskManager

LEMMA SellerStep ==
    ASSUME IInv, NEW r \in Request, AskSeller(r),
           UNCHANGED <<tables, disturbed>>, answer' = "given"
    PROVE  IInv'
<1>0. /\ \A x \in KnownPairs : x \in Pairs /\ x = <<x[1], x[2]>>
            /\ x[1] \in Attribute \cup {None} /\ x[2] \in Option \cup {None}
            /\ (x[1] = None => x[2] = None)
      /\ Known(Brand) \subseteq Brand
      /\ listed \in SUBSET Product
  BY PairFacts DEF KnownPairs, Known, IInv, TypeOK
<1>1. ASSUME NEW p \in Product, NEW b \in Known(Brand) \cup {None}, NEW x \in KnownPairs, NEW t,
             t = [Idle EXCEPT !.pc = FromBrand(b, x[1]), !.kind = "createProduct",
                     !.product = p, !.brand = b, !.attribute = x[1], !.option = x[2]],
             Ask(r, t)
      PROVE  IInv'
  <2>1. FromBrand(b, x[1]) \in {"readBrand", "readRules", "write"}
        /\ (FromBrand(b, x[1]) = "readBrand" => b # None)
        /\ (FromBrand(b, x[1]) = "readRules" => b = None /\ x[1] # None)
        /\ (FromBrand(b, x[1]) = "write" => b = None /\ x[1] = None)
    BY DEF FromBrand, FromRules
  <2>2. /\ t \in Transactions /\ t.pc = FromBrand(b, x[1]) /\ t.kind = "createProduct"
        /\ t.product = p /\ t.brand = b /\ t.attribute = x[1] /\ t.option = x[2]
    BY <1>0, <1>1, <2>1 DEF Idle, Transactions, Points, Kinds
  <2>3. Shape(t) /\ Placed(t) /\ Calm(t) /\ ~Creating(t) /\ t.pc # "idle"
    BY <1>0, <1>1, <2>1, <2>2
       DEF Shape, SellerShape, SellerKinds, Placed, Creating, LockKinds, Calm
  <2> QED BY <1>1, <2>2, <2>3, AskStep
<1>2. ASSUME NEW p \in listed, NEW b \in Known(Brand) \cup {None}, NEW t,
             t = [Idle EXCEPT !.pc = "lock", !.kind = "setBrand", !.product = p, !.brand = b],
             Ask(r, t)
      PROVE  IInv'
  <2>1. /\ t \in Transactions /\ t.pc = "lock" /\ t.kind = "setBrand" /\ t.product = p
        /\ t.attribute = None /\ t.option = None
    BY <1>0, <1>2 DEF Idle, Transactions, Points, Kinds
  <2>2. Shape(t) /\ Placed(t) /\ Calm(t) /\ ~Creating(t)
    BY <1>0, <1>2, <2>1, PairFacts
       DEF Shape, SellerShape, SellerKinds, Placed, Creating, LockKinds, Calm, Nothing
  <2> QED BY <1>2, <2>1, <2>2, AskStep
<1>3. ASSUME NEW p \in listed, NEW x \in KnownPairs, NEW t,
             t = [Idle EXCEPT !.pc = "lock", !.kind = "setValue", !.product = p,
                              !.attribute = x[1], !.option = x[2]],
             Ask(r, t)
      PROVE  IInv'
  <2>1. /\ t \in Transactions /\ t.pc = "lock" /\ t.kind = "setValue" /\ t.product = p
        /\ t.attribute = x[1] /\ t.option = x[2]
    BY <1>0, <1>3 DEF Idle, Transactions, Points, Kinds
  <2>2. Shape(t) /\ Placed(t) /\ Calm(t) /\ ~Creating(t)
    BY <1>0, <1>3, <2>1 DEF Shape, SellerShape, SellerKinds, Placed, Creating, LockKinds, Calm
  <2> QED BY <1>3, <2>1, <2>2, AskStep
<1>4. ASSUME NEW p \in listed, NEW t,
             t = [Idle EXCEPT !.pc = "lock", !.kind = "deleteProduct", !.product = p],
             Ask(r, t)
      PROVE  IInv'
  <2>1. /\ t \in Transactions /\ t.pc = "lock" /\ t.kind = "deleteProduct" /\ t.product = p
        /\ t.attribute = None /\ t.option = None
    BY <1>0, <1>4 DEF Idle, Transactions, Points, Kinds
  <2>2. Shape(t) /\ Placed(t) /\ Calm(t) /\ ~Creating(t)
    BY <1>0, <1>4, <2>1, PairFacts
       DEF Shape, SellerShape, SellerKinds, Placed, Creating, LockKinds, Calm, Nothing
  <2> QED BY <1>4, <2>1, <2>2, AskStep
<1>5. ASSUME NEW p \in listed, NEW v \in Variant, NEW x \in KnownPairs, NEW t,
             t = [Idle EXCEPT !.pc = "lock", !.kind = "createVariant", !.product = p,
                              !.row = v, !.attribute = x[1], !.option = x[2]],
             Ask(r, t)
      PROVE  IInv'
  <2>1. /\ t \in Transactions /\ t.pc = "lock" /\ t.kind = "createVariant" /\ t.product = p
        /\ t.row = v /\ t.attribute = x[1] /\ t.option = x[2]
    BY <1>0, <1>5 DEF Idle, Transactions, Points, Kinds
  <2>2. Shape(t) /\ Placed(t) /\ Calm(t) /\ ~Creating(t)
    BY <1>0, <1>5, <2>1 DEF Shape, SellerShape, SellerKinds, Placed, Creating, LockKinds, Calm
  <2> QED BY <1>5, <2>1, <2>2, AskStep
<1> QED BY <1>1, <1>2, <1>3, <1>4, <1>5 DEF AskSeller

LEMMA BeginStep ==
    ASSUME IInv, NEW r \in Request, Begin(r)
    PROVE  IInv'
BY ManagerStep, SellerStep DEF Begin

-----------------------------------------------------------------------------
(* The steps that only read.                                               *)

LEMMA Answering == "given" \in Answers /\ "exists" \in Answers /\ "failed" \in Answers
BY DEF Answers

\* GotoStep, with what the request holds named field by field.
LEMMA MoveStep ==
    ASSUME IInv, NEW r \in Request, NEW point \in Points, point # "idle", ~At(r, "idle"),
           Goto(r, point),
           \A t : /\ t.pc = point /\ t.kind = tx[r].kind /\ t.row = tx[r].row
                  /\ t.name = tx[r].name /\ t.suffix = tx[r].suffix
                  /\ t.attribute = tx[r].attribute /\ t.option = tx[r].option
                  /\ t.brand = tx[r].brand /\ t.product = tx[r].product
                  => Shape(t) /\ (r \notin disturbed => Calm(t))
    PROVE  IInv'
<1>1. PICK t : t = [tx[r] EXCEPT !.pc = point]
  OBVIOUS
<1>2. /\ t.pc = point /\ t.kind = tx[r].kind /\ t.row = tx[r].row
      /\ t.name = tx[r].name /\ t.suffix = tx[r].suffix
      /\ t.attribute = tx[r].attribute /\ t.option = tx[r].option
      /\ t.brand = tx[r].brand /\ t.product = tx[r].product
  BY <1>1, InState DEF Transactions
<1>3. Shape(t) /\ (r \notin disturbed => Calm(t))
  BY <1>2
<1> QED BY <1>1, <1>3, GotoStep

LEMMA ReadStep ==
    ASSUME IInv, NEW r \in Request, Read(r)
    PROVE  IInv'
<1>1. /\ tx[r].pc = "read" /\ tx[r] \in Transactions /\ Shape(tx[r])
      /\ r \notin disturbed => Calm(tx[r])
  BY InState DEF Read, At
<1>2. PICK e : e = IF tx[r].kind = "create" THEN tx[r].attribute ELSE tx[r].row
  OBVIOUS
<1>3. ASSUME NEW point \in {"insert", "update", "checkAttached", "checkValues", "readConfig"},
             Goto(r, point), Exists(e),
             point = "insert" => tx[r].kind = "create" /\ e \in Select,
             point = "update" => tx[r].kind = "rename",
             point \in {"checkAttached", "checkValues"} => tx[r].kind = "delete",
             point = "checkValues" => e \notin Attribute,
             point = "readConfig" => tx[r].kind = "attach"
      PROVE  IInv'
  <2>1. PICK t : t = [tx[r] EXCEPT !.pc = point]
    OBVIOUS
  <2>2. /\ t.pc = point /\ t.kind = tx[r].kind /\ t.row = tx[r].row /\ t.name = tx[r].name
        /\ t.attribute = tx[r].attribute
    BY <1>1, <2>1 DEF Transactions
  <2>3. Shape(t)
    BY <1>1, <1>2, <1>3, <2>2, TableFacts
       DEF Shape, CreateShape, RenameShape, DeleteShape, ConfigShape, SellerShape,
           SellerKinds, LockKinds
  <2>4. Calm(t)
    <3>1. attached \in SUBSET Attribute
      BY DEF IInv, TypeOK
    <3>2. tx[r].kind = "create" => tx[r].row \in Option
      BY <1>1 DEF Shape, CreateShape, RenameShape, DeleteShape, ConfigShape, SellerShape,
         SellerKinds, LockKinds
    <3> QED BY <1>2, <1>3, <2>2, <3>1, <3>2, TableFacts DEF Calm
  <2>5. point \in Points /\ point # "idle" /\ ~At(r, "idle")
    BY <1>1 DEF Points, At
  <2> QED BY <1>3, <2>1, <2>3, <2>4, <2>5, GotoStep
<1>4. ASSUME Answer(r, "given") PROVE IInv'
  BY <1>4, AnswerStep, Answering
<1> QED BY <1>2, <1>3, <1>4 DEF Read

LEMMA LookUpStep ==
    ASSUME IInv, NEW r \in Request, LookUp(r)
    PROVE  IInv'
<1>1. /\ tx[r].pc = "lookUp" /\ tx[r] \in Transactions /\ Shape(tx[r]) /\ Placed(tx[r])
  BY InState DEF LookUp, At
<1>2. tx[r].kind = "create" /\ tx[r].row \in Brand /\ tx[r].name \in Name
  BY <1>1 DEF Shape, CreateShape, RenameShape, DeleteShape, ConfigShape, SellerShape,
     SellerKinds, LockKinds
<1>3. CASE Goto(r, "insert") /\ ~SlugTaken(<<Fold[tx[r].name], tx[r].suffix>>)
  <2>1. PICK t : t = [tx[r] EXCEPT !.pc = "insert"]
    OBVIOUS
  <2>2. /\ t.pc = "insert" /\ t.kind = "create" /\ t.row = tx[r].row
        /\ t.name = tx[r].name /\ t.suffix = tx[r].suffix
    BY <1>1, <1>2, <2>1 DEF Transactions
  <2>3. Shape(t) /\ Calm(t)
    BY <1>2, <1>3, <2>2, TableFacts DEF Shape, CreateShape, Calm
  <2>4. "insert" \in Points /\ ~At(r, "idle")
    BY <1>1 DEF Points, At
  <2> QED BY <1>3, <2>1, <2>3, <2>4, GotoStep
<1>4. CASE /\ tx' = [tx EXCEPT ![r].suffix = @ + 1]
           /\ answer' = "given" /\ UNCHANGED <<tables, disturbed>>
  <2>1. PICK t : t = [tx[r] EXCEPT !.suffix = @ + 1]
    OBVIOUS
  <2>2. /\ t \in Transactions /\ tx' = [tx EXCEPT ![r] = t]
        /\ t.pc = "lookUp" /\ t.kind = "create" /\ t.row = tx[r].row /\ t.name = tx[r].name
    BY <1>1, <1>2, <1>4, <2>1 DEF Transactions, IInv, TypeOK
  <2>3. Shape(t) /\ Placed(t) /\ Calm(t)
    BY <1>1, <1>2, <2>2 DEF Shape, CreateShape, Placed, Creating, LockKinds, Calm
  <2>4. \A q \in Request \ {r} : Creating(tx[q]) => tx[q].row # t.row
    BY <1>1, <1>2, <2>2 DEF IInv, RequestsOK, Creating
  <2> QED BY <1>4, <2>2, <2>3, <2>4, QuietStep, Answering
<1> QED BY <1>3, <1>4 DEF LookUp

LEMMA CheckAttachedStep ==
    ASSUME IInv, NEW r \in Request, CheckAttached(r)
    PROVE  IInv'
<1>1. tx[r].pc = "checkAttached" /\ Shape(tx[r])
  BY InState DEF CheckAttached, At
<1>2. tx[r].kind = "delete" /\ tx[r].row \in Entry
  BY <1>1 DEF Shape, CreateShape, RenameShape, DeleteShape, ConfigShape, SellerShape
<1>3. CASE tx[r].row \notin attached /\ Goto(r, "checkValues")
  <2>1. "checkValues" \in Points /\ ~At(r, "idle")
    BY <1>1 DEF Points, At
  <2>2. \A t : /\ t.pc = "checkValues" /\ t.kind = tx[r].kind /\ t.row = tx[r].row
               => Shape(t) /\ Calm(t)
    BY <1>2, <1>3 DEF Shape, DeleteShape, Calm
  <2> QED BY <1>3, <2>1, <2>2, MoveStep
<1> QED BY <1>3, AnswerStep, Answering DEF CheckAttached

LEMMA CheckValuesStep ==
    ASSUME IInv, NEW r \in Request, CheckValues(r)
    PROVE  IInv'
<1>1. /\ tx[r].pc = "checkValues" /\ Shape(tx[r])
      /\ r \notin disturbed => Calm(tx[r])
  BY InState DEF CheckValues, At
<1>2. \/ tx[r].kind = "delete" /\ tx[r].row \in Entry
      \/ tx[r].kind = "detach" /\ tx[r].row \in Attribute
  BY <1>1 DEF Shape, CreateShape, RenameShape, DeleteShape, ConfigShape, SellerShape
<1>3. PICK next : next = IF tx[r].row \in Brand THEN "remove" ELSE "checkVariants"
  OBVIOUS
<1>4. CASE ~Valued(tx[r].row) /\ Goto(r, next)
  <2>1. next \in Points /\ next # "idle" /\ ~At(r, "idle")
    BY <1>1, <1>3 DEF Points, At
  <2>2. Unused(tx[r].row)
    <3>1. tx[r].row # None
      BY <1>2, TableFacts DEF Entry
    <3>2. \A p \in Product \ listed : brand[p] = None /\ value[p][1] = None /\ value[p][2] = None
      BY DEF IInv, Unlisted, Nothing
    <3> QED BY <1>4, <3>1, <3>2 DEF Valued, Unused
  <2>3. tx[r].row \in Brand => Unvaried(tx[r].row)
    <3>1. \A v \in Variant : variant[v][1] \in Attribute \cup {None}
                           /\ variant[v][2] \in Option \cup {None}
      BY PairFacts DEF IInv, TypeOK
    <3> QED BY <3>1, TableFacts DEF Unvaried
  <2>4. \A t : /\ t.pc = next /\ t.kind = tx[r].kind /\ t.row = tx[r].row
               => Shape(t) /\ (r \notin disturbed => Calm(t))
    BY <1>1, <1>2, <1>3, <2>2, <2>3, TableFacts DEF Shape, DeleteShape, ConfigShape, Calm
  <2> QED BY <1>4, <2>1, <2>4, MoveStep
<1> QED BY <1>3, <1>4, AnswerStep, Answering DEF CheckValues

LEMMA CheckVariantsStep ==
    ASSUME IInv, NEW r \in Request, CheckVariants(r)
    PROVE  IInv'
<1>1. /\ tx[r].pc = "checkVariants" /\ Shape(tx[r])
      /\ r \notin disturbed => Calm(tx[r])
  BY InState DEF CheckVariants, At
<1>2. \/ tx[r].kind = "delete" /\ tx[r].row \in Entry
      \/ tx[r].kind = "detach" /\ tx[r].row \in Attribute
  BY <1>1 DEF Shape, CreateShape, RenameShape, DeleteShape, ConfigShape, SellerShape
<1>3. CASE ~Varied(tx[r].row) /\ Goto(r, "remove")
  <2>1. "remove" \in Points /\ ~At(r, "idle")
    BY <1>1 DEF Points, At
  <2>2. Unvaried(tx[r].row)
    BY <1>3 DEF Varied, Unvaried
  <2>3. \A t : /\ t.pc = "remove" /\ t.kind = tx[r].kind /\ t.row = tx[r].row
               => Shape(t) /\ (r \notin disturbed => Calm(t))
    BY <1>1, <1>2, <2>2 DEF Shape, DeleteShape, ConfigShape, Calm
  <2> QED BY <1>3, <2>1, <2>3, MoveStep
<1> QED BY <1>3, AnswerStep, Answering DEF CheckVariants

LEMMA ReadConfigStep ==
    ASSUME IInv, NEW r \in Request, ReadConfig(r)
    PROVE  IInv'
<1>1. /\ tx[r].pc = "readConfig" /\ Shape(tx[r])
      /\ r \notin disturbed => Calm(tx[r])
  BY InState DEF ReadConfig, At
<1>2. tx[r].row \in Attribute /\ tx[r].kind \in {"attach", "detach"}
  BY <1>1 DEF Shape, CreateShape, RenameShape, DeleteShape, ConfigShape, SellerShape
<1>3. ASSUME NEW point \in {"attachNew", "attachAgain", "checkValues"}, Goto(r, point),
             point = "checkValues" <=> tx[r].kind = "detach",
             point = "attachNew" => tx[r].row \notin attached,
             point = "attachAgain" => tx[r].row \in attached
      PROVE  IInv'
  <2>1. point \in Points /\ point # "idle" /\ ~At(r, "idle")
    BY <1>1 DEF Points, At
  <2>2. \A t : /\ t.pc = point /\ t.kind = tx[r].kind /\ t.row = tx[r].row
               => Shape(t) /\ (r \notin disturbed => Calm(t))
    BY <1>1, <1>2, <1>3 DEF Shape, ConfigShape, Calm
  <2> QED BY <1>3, <2>1, <2>2, MoveStep
<1> QED BY <1>2, <1>3, AnswerStep, Answering DEF ReadConfig

LEMMA AttachAgainStep ==
    ASSUME IInv, NEW r \in Request, AttachAgain(r)
    PROVE  IInv'
BY AnswerStep, Answering DEF AttachAgain

\* Where a seller's request is.
LEMMA SellerIs ==
    ASSUME IInv, NEW r \in Request,
           tx[r].pc \in {"lock", "readBrand", "readRules", "readOptions", "write"}
    PROVE  SellerShape(tx[r]) /\ tx[r] \in Transactions /\ ~At(r, "idle")
           /\ (r \notin disturbed => Calm(tx[r]))
BY InState DEF Shape, CreateShape, RenameShape, DeleteShape, ConfigShape, At

LEMMA LockStep ==
    ASSUME IInv, NEW r \in Request, Lock(r)
    PROVE  IInv'
<1>1. SellerShape(tx[r]) /\ tx[r] \in Transactions /\ ~At(r, "idle")
  BY SellerIs DEF Lock, At
<1>2. PICK point : point = FromBrand(tx[r].brand, tx[r].attribute)
  OBVIOUS
<1>3. /\ point \in {"readBrand", "readRules", "write"}
      /\ point = "readBrand" => tx[r].brand # None
      /\ point = "readRules" => tx[r].brand = None /\ tx[r].attribute # None
      /\ point = "write" => tx[r].brand = None /\ tx[r].attribute = None
  BY <1>2 DEF FromBrand, FromRules
<1>4. /\ <<tx[r].attribute, tx[r].option>> \in Pairs
      /\ tx[r].attribute \in Attribute \cup {None} /\ tx[r].brand \in Brand \cup {None}
      /\ tx[r].attribute = None => tx[r].option = None
  BY <1>1, PairFacts DEF SellerShape, Transactions
<1>5. CASE Goto(r, point)
  <2>1. point \in Points /\ point # "idle"
    BY <1>3 DEF Points
  <2>2. \A t : /\ t.pc = point /\ t.kind = tx[r].kind /\ t.row = tx[r].row
               /\ t.attribute = tx[r].attribute /\ t.option = tx[r].option
               /\ t.brand = tx[r].brand /\ t.product = tx[r].product
               => Shape(t) /\ Calm(t)
    BY <1>1, <1>3, <1>4 DEF Shape, SellerShape, SellerKinds, LockKinds, Calm
  <2> QED BY <1>1, <1>5, <2>1, <2>2, MoveStep
<1> QED BY <1>2, <1>5, AnswerStep, Answering DEF Lock

LEMMA ReadBrandStep ==
    ASSUME IInv, NEW r \in Request, ReadBrand(r)
    PROVE  IInv'
<1>1. SellerShape(tx[r]) /\ tx[r] \in Transactions /\ ~At(r, "idle")
  BY SellerIs DEF ReadBrand, At
<1>2. PICK point : point = FromRules(tx[r].attribute)
  OBVIOUS
<1>3. /\ point \in {"readRules", "write"}
      /\ point = "readRules" => tx[r].attribute # None
      /\ point = "write" => tx[r].attribute = None
  BY <1>2 DEF FromRules
<1>4. /\ <<tx[r].attribute, tx[r].option>> \in Pairs
      /\ tx[r].attribute \in Attribute \cup {None}
      /\ tx[r].attribute = None => tx[r].option = None
  BY <1>1, PairFacts DEF SellerShape, Transactions
<1>5. CASE Exists(tx[r].brand) /\ Goto(r, point)
  <2>1. point \in Points /\ point # "idle"
    BY <1>3 DEF Points
  <2>2. \A t : /\ t.pc = point /\ t.kind = tx[r].kind /\ t.row = tx[r].row
               /\ t.attribute = tx[r].attribute /\ t.option = tx[r].option
               /\ t.brand = tx[r].brand /\ t.product = tx[r].product
               => Shape(t) /\ Calm(t)
    BY <1>1, <1>3, <1>4, <1>5 DEF Shape, SellerShape, SellerKinds, LockKinds, Calm
  <2> QED BY <1>1, <1>5, <2>1, <2>2, MoveStep
<1> QED BY <1>2, <1>5, AnswerStep, Answering DEF ReadBrand

LEMMA ReadRulesStep ==
    ASSUME IInv, NEW r \in Request, ReadRules(r)
    PROVE  IInv'
<1>1. /\ SellerShape(tx[r]) /\ tx[r] \in Transactions /\ ~At(r, "idle")
      /\ r \notin disturbed => Calm(tx[r])
      /\ tx[r].pc = "readRules"
  BY SellerIs DEF ReadRules, At
<1>2. PICK point : point = IF tx[r].option = None THEN "write" ELSE "readOptions"
  OBVIOUS
<1>3. CASE RightField(tx[r]) /\ Goto(r, point)
  <2>1. point \in Points /\ point # "idle"
    BY <1>2 DEF Points
  <2>2. \A t : /\ t.pc = point /\ t.kind = tx[r].kind /\ t.row = tx[r].row
               /\ t.attribute = tx[r].attribute /\ t.option = tx[r].option
               /\ t.brand = tx[r].brand /\ t.product = tx[r].product
               => Shape(t)
    BY <1>1, <1>2, <1>3, PairFacts
       DEF Shape, SellerShape, SellerKinds, LockKinds, RightField, Transactions
  <2>3. \A t : /\ t.pc = point /\ t.kind = tx[r].kind /\ t.row = tx[r].row
               /\ t.attribute = tx[r].attribute /\ t.option = tx[r].option
               /\ t.brand = tx[r].brand
               => (r \notin disturbed => Calm(t))
    BY <1>1, <1>2, <1>3 DEF SellerShape, SellerKinds, LockKinds, RightField, Calm
  <2> QED BY <1>1, <1>3, <2>1, <2>2, <2>3, MoveStep
<1> QED BY <1>2, <1>3, AnswerStep, Answering DEF ReadRules

LEMMA ReadOptionsStep ==
    ASSUME IInv, NEW r \in Request, ReadOptions(r)
    PROVE  IInv'
<1>1. /\ SellerShape(tx[r]) /\ tx[r] \in Transactions /\ ~At(r, "idle")
      /\ r \notin disturbed => Calm(tx[r])
      /\ tx[r].pc = "readOptions"
  BY SellerIs DEF ReadOptions, At
<1>2. CASE under[tx[r].option] = tx[r].attribute /\ Goto(r, "write")
  <2>1. "write" \in Points
    BY DEF Points
  <2>2. \A t : /\ t.pc = "write" /\ t.kind = tx[r].kind /\ t.row = tx[r].row
               /\ t.attribute = tx[r].attribute /\ t.option = tx[r].option
               /\ t.brand = tx[r].brand /\ t.product = tx[r].product
               => Shape(t) /\ (r \notin disturbed => Calm(t))
    BY <1>1, <1>2 DEF Shape, SellerShape, SellerKinds, LockKinds, Calm
  <2> QED BY <1>1, <1>2, <2>1, <2>2, MoveStep
<1> QED BY <1>2, AnswerStep, Answering DEF ReadOptions

-----------------------------------------------------------------------------
(* The steps that change a table: all other running requests are disturbed. *)

LEMMA CommitRequests ==
    ASSUME IInv, NEW r \in Request, Commit(r),
           \A q \in Request \ {r} : Creating(tx[q]) => tx[q].row \notin Known(Entry)',
           listed \subseteq listed'
    PROVE  /\ RequestsOK' /\ tx' \in [Request -> Transactions] /\ answer' \in Answers
           /\ disturbed' \in SUBSET {q \in Request : ~At(q, "idle")'}
<1>1. /\ tx' \in [Request -> Transactions] /\ tx'[r] = Idle
      /\ \A q \in Request \ {r} : tx'[q] = tx[q]
  BY IdleFits DEF IInv, TypeOK, Commit
<1>2. disturbed' = {q \in Request \ {r} : tx'[q].pc # "idle"}
  BY <1>1 DEF Commit, At
<1>3. \A q \in Request : Shape(tx[q])'
  BY <1>1, IdleFits DEF IInv, RequestsOK, Shape, CreateShape, RenameShape, DeleteShape,
     ConfigShape, SellerShape
<1>4. \A q \in Request : Placed(tx[q])'
  BY <1>1, IdleFits DEF IInv, RequestsOK, Placed, Creating
<1>5. \A p, q \in Request : Creating(tx'[p]) /\ Creating(tx'[q]) /\ p # q =>
         tx'[p].row # tx'[q].row
  BY <1>1, IdleFits DEF IInv, RequestsOK, Creating
<1>6. \A q \in Request \ disturbed' : tx'[q].pc = "idle" /\ tx'[q] \in Transactions
  BY <1>1, <1>2, IdleFits
<1>7. \A q \in Request \ disturbed' : Calm(tx[q])'
  <2>1. \A q \in Request \ disturbed' : (tx[q].pc)' = "idle"
    BY <1>6
  <2> QED BY <2>1 DEF Calm
<1>8. RequestsOK'
  BY <1>3, <1>4, <1>5, <1>7 DEF RequestsOK, Creating
<1> QED BY <1>1, <1>2, <1>8 DEF Answers, Commit, At

\* Unique names, said of two rows.
LEMMA UniqueForm ==
    (\A f \in Entry : Exists(f) => ~Taken(f, UnderOf(f), name[f])) <=>
    \A f \in Entry, g \in Entry :
        ~ /\ name[f] # None /\ f # g /\ SameTable(f, g) /\ name[g] = name[f]
          /\ g \in Option => f \in Option /\ under[g] = under[f]
<1>1. \A f, g \in Entry : SameTable(f, g) /\ g \in Option => f \in Option
  BY SameTableFacts, TableFacts
<1> QED BY <1>1 DEF Exists, Taken, UnderOf

LEMMA InsertStep ==
    ASSUME IInv, NEW r \in Request, Insert(r)
    PROVE  IInv'
<1>1. /\ tx[r].pc = "insert" /\ tx[r] \in Transactions
      /\ Shape(tx[r]) /\ Placed(tx[r])
  BY InState DEF Insert, At
<1>2. PICK e, n, a, k : e = tx[r].row /\ n = tx[r].name /\ a = tx[r].attribute
                     /\ k = <<Fold[tx[r].name], tx[r].suffix>>
  OBVIOUS
<1>3. /\ tx[r].kind = "create" /\ e \notin Known(Entry)
      /\ \/ e \in Attribute /\ n \in Key
         \/ e \in Option /\ n \in Name /\ a \in Select
         \/ e \in Brand /\ n \in Name /\ k \in Name \X Nat
  BY <1>1, <1>2, TableFacts
     DEF Shape, CreateShape, RenameShape, DeleteShape, ConfigShape, SellerShape, Placed,
         Creating, Transactions, SellerKinds, LockKinds
<1>4. e \in Entry /\ name[e] = None /\ e \notin gone /\ n # None /\ n \in Key \cup Name
  BY <1>3, TableFacts DEF Known, Entry, Exists
<1>5. CASE /\ ~InsertFails(tx[r])
           /\ name' = [name EXCEPT ![e] = n]
           /\ under' = [o \in Option |-> IF o = e THEN a ELSE under[o]]
           /\ slug' = [b \in Brand |-> IF b = e THEN k ELSE slug[b]]
           /\ Commit(r)
           /\ UNCHANGED <<gone, attached, sellers>>
  <2>1. /\ UNCHANGED <<gone, attached, listed, removed, brand, value, variant>>
        /\ name \in [Entry -> Key \cup Name \cup {None}]
        /\ name'[e] = n /\ \A f \in Entry \ {e} : name'[f] = name[f]
    BY <1>4, <1>5 DEF sellers, IInv, TypeOK
  <2>2. /\ ~Taken(e, a, n)
        /\ e \in Option => Exists(a)
        /\ e \in Brand => ~SlugTaken(k)
    BY <1>2, <1>5 DEF InsertFails
  <2>3. /\ RequestsOK' /\ tx' \in [Request -> Transactions] /\ answer' \in Answers
        /\ disturbed' \in SUBSET {q \in Request : ~At(q, "idle")'}
    <3>1. \A q \in Request \ {r} : Creating(tx[q]) => tx[q].row # e /\ tx[q].row \notin Known(Entry)
      BY <1>1, <1>2, <1>3 DEF IInv, RequestsOK, Placed, Creating
    <3>2. Known(Entry)' \subseteq Known(Entry) \cup {e}
      BY <2>1 DEF Known, Exists
    <3> QED BY <1>5, <2>1, <3>1, <3>2, CommitRequests
  <2>4. TypeOK'
    <3>1. name' \in [Entry -> Key \cup Name \cup {None}]
      BY <1>4, <1>5, <2>1
    <3>2. under' \in [Option -> Attribute \cup {None}]
      BY <1>3, <1>5, ReferencesAssumption, TableFacts DEF IInv, TypeOK
    <3>3. slug' \in [Brand -> (Name \X Nat) \cup {NoSlug}]
      BY <1>3, <1>5, TableFacts DEF IInv, TypeOK
    <3>4. gone' \in SUBSET {f \in Entry : ~Exists(f)'}
      BY <1>4, <2>1 DEF IInv, TypeOK, Exists
    <3>5. \A o \in Option : Exists(o)' <=> under'[o] # None
      BY <1>3, <1>4, <1>5, <2>1, ReferencesAssumption, TableFacts DEF IInv, TypeOK, Exists, Entry
    <3>6. \A b \in Brand : Exists(b)' <=> slug'[b] # NoSlug
      <4>1. k \in Name \X Nat => k # NoSlug
        BY TableFacts DEF NoSlug
      <4> QED BY <1>3, <1>4, <1>5, <2>1, <4>1, TableFacts DEF IInv, TypeOK, Exists, Entry
    <3> QED BY <2>1, <2>3, <3>1, <3>2, <3>3, <3>4, <3>5, <3>6 DEF IInv, TypeOK
  <2>5. Unlisted'
    BY <2>1 DEF IInv, Unlisted
  <2>6. NoDanglingReference'
    <3>1. \A f \in Entry : name[f] # None => name'[f] # None
      BY <1>4, <2>1
    <3>2. \A x \in Pairs : x[2] # None /\ under[x[2]] = x[1] => under'[x[2]] = x[1]
      BY <1>4, <1>5, PairFacts, TableFacts DEF IInv, TypeOK, Exists
    <3>3. \A x \in {value[p] : p \in Product} \cup {variant[v] : v \in Variant} : x \in Pairs
      BY DEF IInv, TypeOK
    <3>4. \A o \in Option : under'[o] # None => name'[under'[o]] # None
      <4>1. \A o \in Option : under[o] # None => name[under[o]] # None /\ under[o] \in Entry
        BY DEF IInv, TypeOK, NoDanglingReference, Exists, Entry
      <4>2. e \in Option => name[a] # None /\ a \in Entry
        BY <1>3, <2>2, ReferencesAssumption, TableFacts DEF Exists, Entry
      <4> QED BY <1>5, <3>1, <4>1, <4>2
    <3>5. \A x \in {value[p] : p \in Product} \cup {variant[v] : v \in Variant} :
             /\ x[1] # None => name'[x[1]] # None
             /\ x[2] # None => under'[x[2]] = x[1]
      BY <3>1, <3>2, <3>3, PairFacts DEF IInv, NoDanglingReference, Entry, Exists
    <3>6. \A c \in attached : name'[c] # None
      BY <3>1 DEF IInv, TypeOK, NoDanglingReference, Entry, Exists
    <3>7. \A p \in Product : brand[p] # None => name'[brand[p]] # None
      BY <3>1 DEF IInv, TypeOK, NoDanglingReference, Entry, Exists
    <3> QED BY <2>1, <3>4, <3>5, <3>6, <3>7 DEF NoDanglingReference, Exists
  <2>7. ValuesMatchTheirType'
    BY <1>3, <1>5, <2>1, TableFacts DEF IInv, ValuesMatchTheirType
  <2>8. NamesAreUnique'
    <3>1. \A f \in Entry \ {e} : name[f] = n /\ SameTable(e, f) =>
             f \in Option /\ under[f] # a
      BY <2>2 DEF Taken
    <3>2. \A f \in Entry \ {e} : name'[f] = name[f] /\ (f \in Option => under'[f] = under[f])
      BY <1>5, <2>1
    <3>3. ASSUME NEW f \in Entry, name'[f] # None, NEW g \in Entry \ {f}, SameTable(f, g),
                 name'[g] = name'[f], g \in Option => f \in Option /\ under'[g] = under'[f]
          PROVE  FALSE
      <4>1. CASE f # e /\ g # e
        <5>1. name[f] # None /\ name[g] = name[f] /\ (g \in Option => under[g] = UnderOf(f))
          BY <3>2, <3>3, <4>1 DEF UnderOf
        <5>2. Exists(f) /\ Taken(f, UnderOf(f), name[f])
          BY <3>3, <5>1 DEF Taken, Exists
        <5> QED BY <5>2 DEF IInv, NamesAreUnique
      <4>2. CASE f = e
        <5>1. e \in Option => under'[e] = a
          BY <1>5
        <5> QED BY <2>1, <3>1, <3>2, <3>3, <4>2, <5>1
      <4>3. CASE g = e
        <5>1. SameTable(e, f) /\ (f \in Option => e \in Option)
          BY <1>4, <3>3, <4>3, SameTableFacts, TableFacts
        <5>2. e \in Option => under'[e] = a
          BY <1>5
        <5> QED BY <2>1, <3>1, <3>2, <3>3, <4>3, <5>1, <5>2
      <4> QED BY <4>1, <4>2, <4>3
    <3>5. (\A f \in Entry : Exists(f) => ~Taken(f, UnderOf(f), name[f]))'
      <4>1. (\A f \in Entry, g \in Entry :
              ~ /\ name[f] # None /\ f # g /\ SameTable(f, g) /\ name[g] = name[f]
                /\ g \in Option => f \in Option /\ under[g] = under[f])'
        BY <3>3 DEF SameTable
      <4> QED BY <4>1, UniqueForm, PTL
    <3>4. ASSUME NEW b \in Brand, NEW c \in Brand, slug'[b] = slug'[c], slug'[b] # NoSlug
          PROVE  b = c
      BY <1>5, <2>2, <3>4 DEF IInv, NamesAreUnique, SlugTaken
    <3> QED BY <3>4, <3>5 DEF NamesAreUnique
  <2> QED BY <2>3, <2>4, <2>5, <2>6, <2>7, <2>8 DEF IInv
<1> QED BY <1>2, <1>5, AnswerStep, Answering DEF Insert

LEMMA UpdateStep ==
    ASSUME IInv, NEW r \in Request, Update(r)
    PROVE  IInv'
<1>1. /\ tx[r].pc = "update" /\ Shape(tx[r])
  BY InState DEF Update, At
<1>2. PICK e, n : e = tx[r].row /\ n = tx[r].name
  OBVIOUS
<1>3. e \in Entry /\ n \in Name /\ n # None
  BY <1>1, <1>2, TableFacts
     DEF Shape, CreateShape, RenameShape, DeleteShape, ConfigShape, SellerShape
<1>4. CASE /\ Exists(e) /\ e \notin Attribute /\ ~Taken(e, UnderOf(e), n)
           /\ name' = [name EXCEPT ![e] = n]
           /\ Commit(r)
           /\ UNCHANGED <<under, slug, gone, attached, sellers>>
  <2>1. /\ UNCHANGED <<under, slug, gone, attached, listed, removed, brand, value, variant>>
        /\ name' \in [Entry -> Key \cup Name \cup {None}]
        /\ name'[e] = n /\ \A f \in Entry \ {e} : name'[f] = name[f]
        /\ \A f \in Entry : name'[f] # None <=> name[f] # None
    BY <1>3, <1>4 DEF sellers, IInv, TypeOK, Exists
  <2>2. \A q \in Request : Creating(tx[q]) => tx[q].row \notin Known(Entry)'
    BY <2>1 DEF IInv, RequestsOK, Placed, Known, Exists
  <2>3. /\ RequestsOK' /\ tx' \in [Request -> Transactions] /\ answer' \in Answers
        /\ disturbed' \in SUBSET {q \in Request : ~At(q, "idle")'}
    BY <1>4, <2>1, <2>2, CommitRequests
  <2>4. TypeOK'
    BY <2>1, <2>3 DEF IInv, TypeOK, Exists, Entry
  <2>5. Unlisted' /\ ValuesMatchTheirType'
    BY <2>1 DEF IInv, Unlisted, ValuesMatchTheirType
  <2>6. NoDanglingReference'
    <3>1. /\ \A c \in attached : c \in Entry
          /\ \A o \in Option : under[o] # None => under[o] \in Entry
          /\ \A p \in Product : brand[p] # None => brand[p] \in Entry
          /\ \A x \in {value[p] : p \in Product} \cup {variant[v] : v \in Variant} :
                x[1] # None => x[1] \in Entry
      BY PairFacts DEF IInv, TypeOK, Entry
    <3> QED BY <2>1, <3>1 DEF IInv, NoDanglingReference, Exists
  <2>7. NamesAreUnique'
    <3>1. \A g \in Entry \ {e} : SameTable(e, g) /\ name[g] = n =>
             g \in Option /\ under[g] # UnderOf(e)
      BY <1>4 DEF Taken
    <3>2. ASSUME NEW f \in Entry, name'[f] # None, NEW g \in Entry \ {f}, SameTable(f, g),
                 name'[g] = name'[f], g \in Option => f \in Option /\ under[g] = under[f]
          PROVE  FALSE
      <4>1. CASE f # e /\ g # e
        <5>1. name[f] # None /\ name[g] = name[f] /\ (g \in Option => under[g] = UnderOf(f))
          BY <2>1, <3>2, <4>1 DEF UnderOf
        <5>2. Exists(f) /\ Taken(f, UnderOf(f), name[f])
          BY <3>2, <5>1 DEF Taken, Exists
        <5> QED BY <5>2 DEF IInv, NamesAreUnique
      <4>2. CASE f = e
        BY <2>1, <3>1, <3>2, <4>2 DEF UnderOf
      <4>3. CASE g = e
        <5>1. SameTable(e, f) /\ (f \in Option => e \in Option)
          BY <1>3, <3>2, <4>3, SameTableFacts, TableFacts
        <5> QED BY <2>1, <3>1, <3>2, <4>3, <5>1 DEF UnderOf
      <4> QED BY <4>1, <4>2, <4>3
    <3>3. (\A f \in Entry, g \in Entry :
             ~ /\ name[f] # None /\ f # g /\ SameTable(f, g) /\ name[g] = name[f]
               /\ g \in Option => f \in Option /\ under[g] = under[f])'
      BY <2>1, <3>2 DEF SameTable
    <3>4. (\A f \in Entry : Exists(f) => ~Taken(f, UnderOf(f), name[f]))'
      BY <3>3, UniqueForm, PTL
    <3> QED BY <2>1, <3>4 DEF IInv, NamesAreUnique
  <2> QED BY <2>3, <2>4, <2>5, <2>6, <2>7 DEF IInv
<1> QED BY <1>2, <1>4, AnswerStep, Answering DEF Update

LEMMA RemoveStep ==
    ASSUME IInv, NEW r \in Request, Remove(r)
    PROVE  IInv'
<1>1. /\ tx[r].pc = "remove" /\ tx[r].kind = "delete" /\ Shape(tx[r])
  BY InState DEF Remove, At
<1>2. PICK e : e = tx[r].row
  OBVIOUS
<1>3. e \in Entry /\ e # None
  BY <1>1, <1>2, TableFacts DEF Shape, CreateShape, RenameShape, DeleteShape, ConfigShape,
     SellerShape, SellerKinds, LockKinds
<1>4. CASE /\ Exists(e) /\ ~Restricted(e)
           /\ name' = [f \in Entry |-> IF f \in Cascade(e) THEN None ELSE name[f]]
           /\ under' = [o \in Option |-> IF o \in Cascade(e) THEN None ELSE under[o]]
           /\ slug' = [b \in Brand |-> IF b = e THEN NoSlug ELSE slug[b]]
           /\ gone' = gone \cup Cascade(e)
           /\ Commit(r)
           /\ UNCHANGED <<attached, sellers>>
  <2>1. /\ UNCHANGED <<attached, listed, removed, brand, value, variant>>
        /\ Cascade(e) \subseteq Entry /\ e \in Cascade(e)
        /\ \A f \in Cascade(e) : f = e \/ (f \in Option /\ under[f] = e)
    BY <1>3, <1>4 DEF sellers, Cascade, Entry
  <2>2. \A f \in Cascade(e) : name[f] # None
    BY <1>3, <1>4, <2>1 DEF IInv, TypeOK, Exists
  <2>3. \A q \in Request : Creating(tx[q]) => tx[q].row \notin Known(Entry)'
    <3>1. Known(Entry)' \subseteq Known(Entry)
      BY <1>4, <2>1, <2>2 DEF Known, Exists, IInv, TypeOK
    <3> QED BY <3>1 DEF IInv, RequestsOK, Placed
  <2>4. /\ RequestsOK' /\ tx' \in [Request -> Transactions] /\ answer' \in Answers
        /\ disturbed' \in SUBSET {q \in Request : ~At(q, "idle")'}
    BY <1>4, <2>1, <2>3, CommitRequests
  <2>5. \A b \in Brand : b \in Cascade(e) <=> b = e
    BY <2>1, TableFacts
  <2>6. TypeOK'
    <3>1. /\ name' \in [Entry -> Key \cup Name \cup {None}]
          /\ under' \in [Option -> Attribute \cup {None}]
          /\ slug' \in [Brand -> (Name \X Nat) \cup {NoSlug}]
      BY <1>4 DEF IInv, TypeOK
    <3>2. gone' \in SUBSET {f \in Entry : name'[f] = None}
      BY <1>4, <2>1 DEF IInv, TypeOK, Exists
    <3>3. \A o \in Option : name'[o] # None <=> under'[o] # None
      BY <1>4 DEF IInv, TypeOK, Exists, Entry
    <3>4. \A b \in Brand : name'[b] # None <=> slug'[b] # NoSlug
      BY <1>4, <2>5 DEF IInv, TypeOK, Exists, Entry
    <3> QED BY <2>1, <2>4, <3>1, <3>2, <3>3, <3>4 DEF IInv, TypeOK, Exists
  <2>7. Unlisted'
    BY <2>1 DEF IInv, Unlisted
  <2>8. NoDanglingReference'
    <3>1. \A f \in Entry : name[f] # None /\ f \notin Cascade(e) => name'[f] # None
      BY <1>4
    <3>2. \A a \in Attribute : a # e => a \notin Cascade(e)
      BY <2>1, TableFacts
    <3>3. \A x \in {value[p] : p \in Product} \cup {variant[v] : v \in Variant} :
             /\ x \in Pairs /\ x[1] # e /\ x[2] # e
             /\ x[1] # None => name[x[1]] # None
             /\ x[2] # None => under[x[2]] = x[1]
      BY <1>4 DEF Restricted, IInv, TypeOK, NoDanglingReference, Exists
    <3>4. \A x \in {value[p] : p \in Product} \cup {variant[v] : v \in Variant} :
             /\ x[1] # None => name'[x[1]] # None
             /\ x[2] # None => under'[x[2]] = x[1]
      BY <1>4, <2>1, <3>1, <3>2, <3>3, PairFacts DEF Entry
    <3>5. \A c \in attached : c # e /\ name'[c] # None
      BY <1>4, <3>1, <3>2 DEF Restricted, IInv, TypeOK, NoDanglingReference, Exists, Entry
    <3>6. \A p \in Product : brand[p] # None => name'[brand[p]] # None
      BY <1>4, <2>5, <3>1 DEF Restricted, IInv, TypeOK, NoDanglingReference, Exists, Entry
    <3>7. \A o \in Option : under'[o] # None => name'[under'[o]] # None
      <4>1. \A o \in Option : under'[o] # None => under'[o] = under[o] /\ under[o] # e
        BY <1>4 DEF Cascade
      <4>2. \A o \in Option : under[o] # None => name[under[o]] # None /\ under[o] \in Attribute
        BY DEF IInv, TypeOK, NoDanglingReference, Exists
      <4> QED BY <3>1, <3>2, <4>1, <4>2 DEF Entry
    <3> QED BY <2>1, <3>4, <3>5, <3>6, <3>7 DEF NoDanglingReference, Exists
  <2>9. ValuesMatchTheirType'
    BY <1>4, <2>1 DEF IInv, ValuesMatchTheirType
  <2>10. NamesAreUnique'
    <3>1. \A f \in Entry, g \in Entry :
             ~ /\ name[f] # None /\ f # g /\ SameTable(f, g) /\ name[g] = name[f]
               /\ g \in Option => f \in Option /\ under[g] = under[f]
      BY UniqueForm DEF IInv, NamesAreUnique
    <3>2. \A f \in Entry : name'[f] # None => name'[f] = name[f]
                                           /\ (f \in Option => under'[f] = under[f])
      BY <1>4
    <3>3. (\A f \in Entry, g \in Entry :
             ~ /\ name[f] # None /\ f # g /\ SameTable(f, g) /\ name[g] = name[f]
               /\ g \in Option => f \in Option /\ under[g] = under[f])'
      BY <3>1, <3>2 DEF SameTable
    <3>4. (\A f \in Entry : Exists(f) => ~Taken(f, UnderOf(f), name[f]))'
      BY <3>3, UniqueForm, PTL
    <3>5. \A b, c \in Brand : slug'[b] = slug'[c] /\ slug'[b] # NoSlug => b = c
      BY <1>4 DEF IInv, NamesAreUnique
    <3> QED BY <3>4, <3>5 DEF NamesAreUnique
  <2> QED BY <2>4, <2>6, <2>7, <2>8, <2>9, <2>10 DEF IInv
<1> QED BY <1>2, <1>4, AnswerStep, Answering DEF Remove

\* The tables of the catalog stay as they are.
LEMMA CatalogFrame ==
    ASSUME IInv, NEW r \in Request, Commit(r), UNCHANGED catalog, listed \subseteq listed',
           attached' \in SUBSET Attribute, listed' \in SUBSET Product,
           removed' \in SUBSET listed', brand' \in [Product -> Brand \cup {None}],
           value' \in [Product -> Pairs], variant' \in [Variant -> Pairs]
    PROVE  RequestsOK' /\ TypeOK' /\ NamesAreUnique'
<1>1. UNCHANGED <<name, under, slug, gone>>
  BY DEF catalog
<1>2. \A q \in Request : Creating(tx[q]) => tx[q].row \notin Known(Entry)'
  BY <1>1 DEF IInv, RequestsOK, Placed, Known, Exists
<1>3. /\ RequestsOK' /\ tx' \in [Request -> Transactions] /\ answer' \in Answers
      /\ disturbed' \in SUBSET {q \in Request : ~At(q, "idle")'}
  BY <1>2, CommitRequests
<1>4. TypeOK'
  BY <1>1, <1>3 DEF IInv, TypeOK, Exists
<1>5. NamesAreUnique'
  BY <1>1 DEF IInv, NamesAreUnique, Exists, Taken, UnderOf
<1> QED BY <1>3, <1>4, <1>5

LEMMA AttachNewStep ==
    ASSUME IInv, NEW r \in Request, AttachNew(r)
    PROVE  IInv'
<1>1. tx[r].pc = "attachNew" /\ Shape(tx[r])
  BY InState DEF AttachNew, At
<1>2. PICK a : a = tx[r].row
  OBVIOUS
<1>3. a \in Attribute
  BY <1>1, <1>2 DEF Shape, CreateShape, RenameShape, DeleteShape, ConfigShape, SellerShape
<1>4. CASE /\ Exists(a) /\ attached' = attached \cup {a} /\ Commit(r)
           /\ UNCHANGED <<catalog, sellers>>
  <2>1. /\ UNCHANGED <<name, under, slug, gone, listed, removed, brand, value, variant>>
        /\ UNCHANGED catalog /\ attached' \in SUBSET Attribute
    BY <1>3, <1>4 DEF catalog, sellers, IInv, TypeOK
  <2>2. RequestsOK' /\ TypeOK' /\ NamesAreUnique'
    BY <1>4, <2>1, CatalogFrame DEF IInv, TypeOK
  <2>3. Unlisted' /\ ValuesMatchTheirType'
    BY <2>1 DEF IInv, Unlisted, ValuesMatchTheirType
  <2>4. NoDanglingReference'
    BY <1>4, <2>1 DEF IInv, NoDanglingReference, Exists
  <2> QED BY <2>2, <2>3, <2>4 DEF IInv
<1> QED BY <1>2, <1>4, AnswerStep, Answering DEF AttachNew

LEMMA DetachStep ==
    ASSUME IInv, NEW r \in Request, Detach(r)
    PROVE  IInv'
<1>1. /\ UNCHANGED <<name, under, slug, gone, listed, removed, brand, value, variant>>
      /\ UNCHANGED catalog /\ attached' \in SUBSET Attribute /\ attached' \subseteq attached
      /\ Commit(r)
  BY DEF Detach, catalog, sellers, IInv, TypeOK
<1>2. RequestsOK' /\ TypeOK' /\ NamesAreUnique'
  BY <1>1, CatalogFrame DEF IInv, TypeOK
<1>3. Unlisted' /\ ValuesMatchTheirType'
  BY <1>1 DEF IInv, Unlisted, ValuesMatchTheirType
<1>4. NoDanglingReference'
  BY <1>1 DEF IInv, NoDanglingReference, Exists
<1> QED BY <1>2, <1>3, <1>4 DEF IInv

\* Value x is one that the tables allow.
Fits(x) ==
    /\ x[1] # None => name[x[1]] # None
    /\ x[2] # None => under[x[2]] = x[1]
    /\ x[1] # None => (x[2] # None <=> x[1] \in Select)

LEMMA WriteStep ==
    ASSUME IInv, NEW r \in Request, Write(r)
    PROVE  IInv'
<1>1. /\ SellerShape(tx[r]) /\ tx[r] \in Transactions /\ Placed(tx[r])
      /\ tx[r].pc = "write"
  BY SellerIs, InState DEF Write, At
<1>2. PICK p, b, x, v : /\ p = tx[r].product /\ b = tx[r].brand /\ v = tx[r].row
                       /\ x = <<tx[r].attribute, tx[r].option>>
  OBVIOUS
<1>3. /\ p \in Product /\ x \in Pairs /\ b \in Brand \cup {None}
      /\ x[1] = tx[r].attribute /\ x[2] = tx[r].option
      /\ x[1] # None => (x[2] # None <=> x[1] \in Select)
      /\ tx[r].kind \in LockKinds => p \in listed
      /\ tx[r].kind = "createVariant" => v \in Variant
  BY <1>1, <1>2 DEF SellerShape, SellerKinds, Transactions, Placed
<1>4. ASSUME KeysHold(tx[r]), Commit(r), UNCHANGED <<catalog, attached>>,
             \/ /\ listed' = listed \cup {p} /\ brand' = [brand EXCEPT ![p] = b]
                /\ value' = [value EXCEPT ![p] = x] /\ UNCHANGED <<removed, variant>>
             \/ /\ p \in listed /\ brand' = [brand EXCEPT ![p] = b]
                /\ UNCHANGED <<listed, removed, value, variant>>
             \/ /\ p \in listed /\ value' = [value EXCEPT ![p] = x]
                /\ UNCHANGED <<listed, removed, brand, variant>>
             \/ /\ p \in listed /\ removed' = removed \cup {p}
                /\ UNCHANGED <<listed, brand, value, variant>>
             \/ /\ v \in Variant /\ variant' = [variant EXCEPT ![v] = x]
                /\ UNCHANGED <<listed, removed, brand, value>>
      PROVE  IInv'
  <2>1. /\ UNCHANGED <<name, under, slug, gone, attached>>
        /\ listed \subseteq listed' /\ listed' \in SUBSET Product
        /\ removed' \in SUBSET listed' /\ attached' \in SUBSET Attribute
        /\ brand' \in [Product -> Brand \cup {None}]
        /\ value' \in [Product -> Pairs] /\ variant' \in [Variant -> Pairs]
    BY <1>3, <1>4 DEF catalog, IInv, TypeOK
  <2>2. RequestsOK' /\ TypeOK' /\ NamesAreUnique'
    BY <1>4, <2>1, CatalogFrame
  <2>3. /\ \A q \in Product : brand'[q] \in {brand[q], b}
        /\ \A q \in Product : value'[q] \in {value[q], x}
        /\ \A u \in Variant : variant'[u] \in {variant[u], x}
        /\ \A q \in Product \ listed' : brand'[q] = brand[q] /\ value'[q] = value[q]
    BY <1>3, <1>4 DEF IInv, TypeOK
  <2>4. /\ b # None => name[b] # None
        /\ x[1] # None => name[x[1]] # None
        /\ x[2] # None => under[x[2]] = x[1]
    BY <1>2, <1>3, <1>4 DEF KeysHold, Exists
  <2>5. Unlisted'
    BY <2>1, <2>3 DEF IInv, Unlisted
  <2>6. Fits(x) /\ (\A q \in Product : Fits(value[q])) /\ (\A u \in Variant : Fits(variant[u]))
    BY <1>3, <2>4 DEF Fits, IInv, NoDanglingReference, ValuesMatchTheirType, Exists
  <2>7. (\A q \in Product : Fits(value'[q])) /\ (\A u \in Variant : Fits(variant'[u]))
    BY <2>3, <2>6
  <2>8. NoDanglingReference'
    <3>1. \A q \in Product : brand'[q] # None => name[brand'[q]] # None
      BY <2>3, <2>4 DEF IInv, NoDanglingReference, Exists
    <3>2. \A y \in {value'[q] : q \in Product} \cup {variant'[u] : u \in Variant} :
             /\ y[1] # None => name[y[1]] # None
             /\ y[2] # None => under[y[2]] = y[1]
      BY <2>7 DEF Fits
    <3> QED BY <2>1, <3>1, <3>2 DEF IInv, NoDanglingReference, Exists
  <2>9. ValuesMatchTheirType'
    <3>1. \A y \in {value'[q] : q \in Product} \cup {variant'[u] : u \in Variant} :
             y[1] # None => (y[2] # None <=> y[1] \in Select)
      BY <2>7 DEF Fits
    <3> QED BY <2>1, <3>1 DEF IInv, ValuesMatchTheirType
  <2> QED BY <2>2, <2>5, <2>8, <2>9 DEF IInv
<1>5. CASE Answer(r, "failed") \/ Answer(r, "given")
  BY <1>5, AnswerStep, Answering
<1> QED BY <1>2, <1>3, <1>4, <1>5 DEF Write, LockKinds

LEMMA AbortStep ==
    ASSUME IInv, NEW r \in Request, Abort(r)
    PROVE  IInv'
BY AnswerStep, Answering DEF Abort

-----------------------------------------------------------------------------
(* Who is told of an error.                                                *)

Excused(r) ==
    /\ answer' # "failed"
    /\ answer' = "exists" => Duplicate(tx[r])

LEMMA OwnStep ==
    ASSUME NEW q \in Request, Begin(q) \/ Step(q), NEW r \in Request, q # r,
           tx \in [Request -> Transactions]
    PROVE  tx'[r] = tx[r]
<1>1. ASSUME NEW x, tx' = [tx EXCEPT ![q] = x] PROVE tx'[r] = tx[r]
  BY <1>1
<1>2. CASE Begin(q)
  BY <1>1, <1>2 DEF Begin, AskManager, AskSeller, Ask
<1>3. CASE Read(q) \/ LookUp(q) \/ CheckAttached(q) \/ CheckValues(q) \/ CheckVariants(q)
  BY <1>1, <1>3 DEF Read, LookUp, CheckAttached, CheckValues, CheckVariants, Answer, Goto
<1>4. CASE ReadConfig(q) \/ Lock(q) \/ ReadBrand(q) \/ ReadRules(q) \/ ReadOptions(q)
  BY <1>1, <1>4 DEF ReadConfig, Lock, ReadBrand, ReadRules, ReadOptions, Answer, Goto
<1>5. CASE Insert(q) \/ Update(q) \/ Remove(q)
  BY <1>1, <1>5 DEF Insert, Update, Remove, Answer, Commit
<1>6. CASE AttachNew(q) \/ AttachAgain(q) \/ Detach(q) \/ Write(q) \/ Abort(q)
  BY <1>1, <1>6 DEF AttachNew, AttachAgain, Detach, Write, Abort, Answer, Commit
<1> QED BY <1>2, <1>3, <1>4, <1>5, <1>6 DEF Step

LEMMA OwnAnswer ==
    ASSUME IInv, NEW r \in Request, Begin(r) \/ Step(r), r \notin disturbed
    PROVE  Excused(r)
<1>0. tx[r] \in Transactions /\ Shape(tx[r]) /\ Placed(tx[r]) /\ Calm(tx[r])
  BY InState
<1>1. CASE answer' = "given"
  BY <1>1 DEF Excused
<1>2. CASE Begin(r)
  BY <1>1, <1>2 DEF Begin
<1>3. CASE Read(r) \/ LookUp(r) \/ CheckAttached(r) \/ CheckValues(r) \/ CheckVariants(r)
  BY <1>1, <1>3 DEF Read, LookUp, CheckAttached, CheckValues, CheckVariants, Answer, Goto
<1>4. CASE ReadConfig(r) \/ Lock(r) \/ ReadBrand(r) \/ ReadRules(r) \/ ReadOptions(r)
  BY <1>1, <1>4 DEF ReadConfig, Lock, ReadBrand, ReadRules, ReadOptions, Answer, Goto
<1>5. CASE Insert(r)
  <2>1. tx[r].kind = "create" /\ tx[r].pc = "insert"
    BY <1>0, <1>5 DEF Insert, At, Shape, CreateShape, RenameShape, DeleteShape, ConfigShape,
       SellerShape
  <2>2. InsertFails(tx[r]) => Duplicate(tx[r])
    BY <1>0, <2>1 DEF InsertFails, Calm, Duplicate
  <2> QED BY <1>1, <1>5, <2>2 DEF Insert, Answer, Commit, Excused
<1>6. CASE Update(r)
  <2>1. tx[r].kind = "rename" /\ tx[r].pc = "update"
    BY <1>0, <1>6 DEF Update, At, Shape, CreateShape, RenameShape, DeleteShape, ConfigShape,
       SellerShape
  <2>2. Exists(tx[r].row)
    BY <1>0, <2>1 DEF Calm
  <2> QED BY <1>1, <1>6, <2>1, <2>2 DEF Update, Answer, Commit, Excused, Duplicate
<1>7. CASE Remove(r)
  <2>1. ~Restricted(tx[r].row)
    BY <1>0, <1>7 DEF Remove, At, Calm, Unused, Unvaried, Restricted
  <2> QED BY <1>1, <1>7, <2>1 DEF Remove, Answer, Commit
<1>8. CASE AttachNew(r)
  <2>1. tx[r].kind = "attach" /\ tx[r].pc = "attachNew"
    BY <1>0, <1>8 DEF AttachNew, At, Shape, CreateShape, RenameShape, DeleteShape, ConfigShape,
       SellerShape
  <2>2. Exists(tx[r].row) /\ tx[r].row \notin attached
    BY <1>0, <2>1 DEF Calm
  <2> QED BY <1>1, <1>8, <2>2 DEF AttachNew, Commit
<1>9. CASE AttachAgain(r)
  BY <1>0, <1>1, <1>9 DEF AttachAgain, At, Calm, Answer
<1>10. CASE Detach(r)
  BY <1>1, <1>10 DEF Detach, Commit
<1>11. CASE Write(r)
  <2>1. tx[r].attribute # None => tx[r].attribute \in attached
    BY <1>0, <1>11 DEF Write, At, Calm
  <2>2. KeysHold(tx[r])
    BY <1>0, <1>11, <2>1 DEF Write, At, Calm, KeysHold, IInv, NoDanglingReference
  <2> QED BY <1>1, <1>11, <2>2 DEF Write, Answer, Commit
<1>12. CASE Abort(r)
  BY <1>1, <1>12 DEF Abort, Answer
<1> QED BY <1>2, <1>3, <1>4, <1>5, <1>6, <1>7, <1>8, <1>9, <1>10, <1>11, <1>12 DEF Step

LEMMA FairAnswer ==
    IInv /\ [Next]_vars =>
        [\A r \in Request : ~At(r, "idle") /\ At(r, "idle")' /\ r \notin disturbed =>
            /\ answer' # "failed"
            /\ answer' = "exists" => Duplicate(tx[r])]_vars
<1> SUFFICES ASSUME IInv, NEW q \in Request, Begin(q) \/ Step(q), NEW r \in Request,
                    ~At(r, "idle"), At(r, "idle")', r \notin disturbed
             PROVE  Excused(r)
  BY DEF Next, Excused
<1>1. q = r
  BY OwnStep DEF At, IInv, TypeOK
<1> QED BY <1>1, OwnAnswer

-----------------------------------------------------------------------------
(* The theorems.                                                           *)

LEMMA InitIInv == Init => IInv
<1> SUFFICES ASSUME Init PROVE IInv
  OBVIOUS
<1>1. \A r \in Request : tx[r] = Idle /\ Idle.pc = "idle" /\ Idle \in Transactions
  BY IdleFits DEF Init
<1>2. TypeOK
  <2>1. /\ name \in [Entry -> Key \cup Name \cup {None}]
        /\ under \in [Option -> Attribute \cup {None}]
        /\ slug \in [Brand -> (Name \X Nat) \cup {NoSlug}]
        /\ brand \in [Product -> Brand \cup {None}]
        /\ value \in [Product -> Pairs] /\ variant \in [Variant -> Pairs]
        /\ tx \in [Request -> Transactions]
    BY <1>1, PairFacts DEF Init
  <2>2. /\ \A o \in Option : name[o] = None /\ under[o] = None
        /\ \A b \in Brand : name[b] = None /\ slug[b] = NoSlug
    BY DEF Init, Entry
  <2>3. /\ gone = {} /\ attached = {} /\ listed = {} /\ removed = {} /\ disturbed = {}
        /\ answer \in Answers
    BY DEF Init, Answers
  <2> QED BY <2>1, <2>2, <2>3 DEF TypeOK, Exists
<1>3. RequestsOK
  <2>1. \A r \in Request : tx[r].pc = "idle"
    BY <1>1
  <2> QED BY <2>1 DEF RequestsOK, Shape, Placed, Creating, Calm
<1>4. Unlisted
  BY DEF Init, Unlisted
<1>5. NoDanglingReference /\ ValuesMatchTheirType
  <2>1. \A x \in {value[p] : p \in Product} \cup {variant[v] : v \in Variant} : x = Nothing
    BY DEF Init
  <2> QED BY <2>1 DEF Init, NoDanglingReference, ValuesMatchTheirType, Nothing
<1>6. NamesAreUnique
  BY DEF Init, NamesAreUnique, Exists
<1> QED BY <1>2, <1>3, <1>4, <1>5, <1>6 DEF IInv

LEMMA StutterIInv == IInv /\ UNCHANGED vars => IInv'
<1> SUFFICES ASSUME IInv, UNCHANGED vars PROVE IInv'
  OBVIOUS
<1>1. /\ name' = name /\ under' = under /\ slug' = slug /\ gone' = gone
      /\ attached' = attached /\ listed' = listed /\ removed' = removed
      /\ brand' = brand /\ value' = value /\ variant' = variant
      /\ tx' = tx /\ answer' = answer /\ disturbed' = disturbed
  BY DEF vars, tables, catalog, sellers
<1>2. TypeOK'
  BY <1>1 DEF IInv, TypeOK, Exists, At
<1>3. Unlisted'
  BY <1>1 DEF IInv, Unlisted
<1>4. RequestsOK'
  <2>1. ASSUME NEW r \in Request PROVE Shape(tx[r])' /\ Placed(tx[r])'
    <3>1. Shape(tx[r])'
      BY <1>1 DEF IInv, RequestsOK, Shape, CreateShape, RenameShape, DeleteShape,
         ConfigShape, SellerShape
    <3>2. Placed(tx[r])'
      BY <1>1 DEF IInv, RequestsOK, Placed, Creating, Known, Exists
    <3> QED BY <3>1, <3>2
  <2>2. ASSUME NEW r \in Request, NEW q \in Request, r # q,
               Creating(tx[r])', Creating(tx[q])'
        PROVE  tx'[r].row # tx'[q].row
    BY <1>1, <2>2 DEF IInv, RequestsOK, Creating
  <2>3. ASSUME NEW r \in Request \ disturbed' PROVE Calm(tx[r])'
    <3>1. Calm(tx[r])
      BY <1>1 DEF IInv, RequestsOK
    <3> QED BY <1>1, <3>1 DEF Calm, Exists, SlugTaken, Unused, Unvaried
  <2> QED BY <2>1, <2>2, <2>3 DEF RequestsOK
<1>5. NoDanglingReference'
  BY <1>1 DEF IInv, NoDanglingReference, Exists
<1>6. ValuesMatchTheirType'
  BY <1>1 DEF IInv, ValuesMatchTheirType, Exists
<1>7. NamesAreUnique'
  BY <1>1 DEF IInv, NamesAreUnique, Exists, Taken, UnderOf
<1> QED BY <1>2, <1>3, <1>4, <1>5, <1>6, <1>7 DEF IInv

LEMMA StepIInv == IInv /\ [Next]_vars => IInv'
<1> SUFFICES ASSUME IInv, [Next]_vars PROVE IInv'
  OBVIOUS
<1>1. ASSUME NEW r \in Request, Begin(r) \/ Step(r) PROVE IInv'
  BY <1>1, BeginStep, ReadStep, LookUpStep, InsertStep, UpdateStep, CheckAttachedStep,
     CheckValuesStep, CheckVariantsStep, RemoveStep, ReadConfigStep, AttachNewStep,
     AttachAgainStep, DetachStep, LockStep, ReadBrandStep, ReadRulesStep, ReadOptionsStep,
     WriteStep, AbortStep DEF Step
<1> QED BY <1>1, StutterIInv DEF Next

\* The inductive invariant: besides the properties, what each request holds at
\* each of its points, and that whatever an undisturbed request has read still
\* holds.
THEOREM Inductive == Spec => []IInv
BY InitIInv, StepIInv, PTL DEF Spec

\* Every variable keeps its shape, for every catalog and any number of requests.
THEOREM TypeCorrect == Spec => []TypeOK
<1>1. IInv => TypeOK
  BY DEF IInv
<1> QED BY <1>1, Inductive, PTL

\* No configuration, product or variant ever points at an attribute, an option
\* or a brand that is gone, whatever the deletions have read.
THEOREM NothingDangles == Spec => []NoDanglingReference
<1>1. IInv => NoDanglingReference
  BY DEF IInv
<1> QED BY <1>1, Inductive, PTL

\* A value is in the field of its attribute's data type.
THEOREM ValuesKeepTheirType == Spec => []ValuesMatchTheirType
<1>1. IInv => ValuesMatchTheirType
  BY DEF IInv
<1> QED BY <1>1, Inductive, PTL

\* Names, keys, option values and slugs are unique.
THEOREM NamesStayUnique == Spec => []NamesAreUnique
<1>1. IInv => NamesAreUnique
  BY DEF IInv
<1> QED BY <1>1, Inductive, PTL

\* A request during which nobody else changes a row is never failed by the
\* database, nor told of a duplicate that is not there: the queries before a
\* write ask for all that its constraints protect.
THEOREM OnlyRacesAreFailed == Spec => OnlyRacesFail
BY Inductive, FairAnswer, PTL DEF Spec, OnlyRacesFail
=============================================================================
