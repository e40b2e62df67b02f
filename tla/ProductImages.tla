---------------------------- MODULE ProductImages ----------------------------
(***************************************************************************)
(* The images of one product and of its variants: rows of product_images   *)
(* with a position, and one file per row.                                  *)
(*                                                                         *)
(* The rows are changed by transactions that lock the product's row first  *)
(* (product_repository.get_product), so what a request reads between its   *)
(* lock and its commit is stated where it is used.  The files are outside  *)
(* of every transaction: an upload stores its file before it inserts the   *)
(* row, everything else removes files after its commit, best effort, and a *)
(* process may die or a commit's answer may be lost anywhere between.      *)
(*                                                                         *)
(* Each statement names the product, so one product stands for all.  A     *)
(* variant is there from the start: one that is created later has had no   *)
(* image until then.  The key of a file contains the id of its row, so an  *)
(* image's id stands for its file.                                         *)
(***************************************************************************)
EXTENDS Naturals, FiniteSets

CONSTANTS
    Variant,            \* the variants of the product
    Own,                \* the scope of the images without a variant
    Image,              \* the ids an image may get
    ProductImagesMax,   \* the limit of the product's own images
    VariantImagesMax,   \* the limit of one variant's images
    Request,            \* the requests that may be in flight at the same time
    None                \* no scope, no image

Scope == Variant \cup {Own}

ASSUME ProductImagesAssumption ==
    /\ Own \notin Variant
    /\ None \notin Scope \cup Image
    /\ IsFiniteSet(Image)
    /\ ProductImagesMax \in Nat
    /\ VariantImagesMax \in Nat

VARIABLES
    deleted,    \* products.deleted_at is set
    retired,    \* the variants whose deleted_at is set
    scope,      \* the scope of each row of product_images, None without a row
    position,   \* product_images.position
    files,      \* the images whose file is in the storage
    lost,       \* history: the uploads whose commit went through unanswered
    left,       \* history: the files whose removal failed or never started
    tx          \* what each request has still to do and has read so far

vars == <<deleted, retired, scope, position, files, lost, left, tx>>
rows == <<deleted, retired, scope, position>>
history == <<lost, left>>

-----------------------------------------------------------------------------
(* What the tables say.                                                    *)

HasRow(i) == scope[i] # None
ImagesOf(s) == {i \in Image : scope[i] = s}
CountScope(s) == Cardinality(ImagesOf(s))
Live(s) == ~deleted /\ s \notin retired

Limit(s) == IF s = Own THEN ProductImagesMax ELSE VariantImagesMax

\* The ways in which a statement may order the images in S by position.
\* (Equal positions would be ordered by created_at.)
Rankings(S) ==
    {rank \in [S -> 0..(Cardinality(S) - 1)] :
        \A i, j \in S : /\ rank[i] = rank[j] => i = j
                        /\ position[i] < position[j] => rank[i] < rank[j]}

\* Mutant: the two images change places.
Swapped(at, from, to) == IF at = from THEN to ELSE IF at = to THEN from ELSE at

\* reorder: where the image at index at is, once the one at index from has
\* been taken out and inserted at index to.
Moved(at, from, to) ==
    LET rest == IF at > from THEN at - 1 ELSE at
    IN  IF at = from THEN to ELSE IF rest >= to THEN rest + 1 ELSE rest

-----------------------------------------------------------------------------
(* Requests.                                                               *)

Kinds == {"upload", "move", "delete", "deleteVariant", "deleteProduct"}

\* What a request does next.
Points == {"idle", "lock", "check", "store", "insert", "undo", "apply", "clean"}

Idle == [pc |-> "idle", kind |-> "move", scope |-> None, image |-> None,
         position |-> 0, keys |-> {}]

Transactions ==
    [pc : Points, kind : Kinds, scope : Scope \cup {None}, image : Image \cup {None},
     position : Nat, keys : SUBSET Image]

Init ==
    /\ deleted = FALSE
    /\ retired = {}
    /\ scope = [i \in Image |-> None]
    /\ position = [i \in Image |-> 0]
    /\ files = {}
    /\ lost = {}
    /\ left = {}
    /\ tx = [r \in Request |-> Idle]

At(r, point) == tx[r].pc = point
Goto(r, point) == tx' = [tx EXCEPT ![r].pc = point]
End(r) == tx' = [tx EXCEPT ![r] = Idle]
Ask(r, kind, s, i, target) ==
    tx' = [tx EXCEPT ![r] = [pc |-> "lock", kind |-> kind, scope |-> s, image |-> i,
                             position |-> target, keys |-> {}]]

\* An error raised by the service: the transaction is rolled back.
Refuse(r) == End(r) /\ UNCHANGED <<rows, files, history>>

\* The file of an image that request t has stored and has no row for yet, or
\* those that it is to remove.
InHand(t) == IF t.pc \in {"insert", "undo"} THEN {t.image} ELSE t.keys

\* uuid4.  Bound: an id that has left no trace may be drawn again.
NewImage(i) ==
    /\ ~HasRow(i) /\ i \notin files
    /\ \A r \in Request : tx[r].image # i /\ i \notin tx[r].keys

\* A target position may be one past the last index, which move refuses.
Begin(r) ==
    /\ At(r, "idle")
    /\ \/ \E s \in Scope : Ask(r, "upload", s, None, 0)
       \/ \E i \in Image :
             /\ HasRow(i)
             /\ \/ \E target \in 0..CountScope(scope[i]) : Ask(r, "move", None, i, target)
                \/ Ask(r, "delete", None, i, 0)
       \/ \E v \in Variant : Ask(r, "deleteVariant", v, None, 0)
       \/ Ask(r, "deleteProduct", None, None, 0)
    /\ UNCHANGED <<rows, files, history>>

\* The process dies, the connection breaks before the commit, or another rule
\* refuses the request.
Abort(r) ==
    /\ ~At(r, "idle")
    /\ End(r)
    /\ left' = left \cup InHand(tx[r])
    /\ UNCHANGED <<rows, files, lost>>

-----------------------------------------------------------------------------
(* Steps.                                                                  *)

Holds(r) == tx[r].pc \in {"check", "store", "insert", "apply"}

AfterLock(kind) == IF kind = "upload" THEN "check" ELSE "apply"

\* Mutant: the row is read without FOR UPDATE.
ReadProduct(r) ==
    /\ At(r, "lock")
    /\ \/ deleted /\ Refuse(r)
       \/ ~deleted /\ Goto(r, AfterLock(tx[r].kind)) /\ UNCHANGED <<rows, files, history>>

\* _locked_product: a live product, once no one else holds its row.
LockProduct(r) ==
    /\ At(r, "lock")
    /\ \/ deleted /\ Refuse(r)
       \/ /\ ~deleted
          /\ \A q \in Request \ {r} : ~Holds(q)
          /\ Goto(r, AfterLock(tx[r].kind))
          /\ UNCHANGED <<rows, files, history>>

\* Mutant: the variant is not looked up.
IsFull(s) == CountScope(s) >= Limit(s)

\* The variant is not live, or the scope is at its limit.
NoPlace(s) == ~Live(s) \/ CountScope(s) >= Limit(s)

\* Mutant: the index of the last image, for the number of images.
LastPosition(s) == CountScope(s) - 1

NextPosition(s) == CountScope(s)

\* upload, up to the new id.
CheckUpload(r) ==
    /\ At(r, "check")
    /\ LET s == tx[r].scope IN
       \/ NoPlace(s) /\ Refuse(r)
       \/ /\ ~NoPlace(s)
          /\ \E i \in Image :
                /\ NewImage(i)
                /\ tx' = [tx EXCEPT ![r].pc = "store", ![r].image = i,
                                    ![r].position = NextPosition(s)]
                /\ lost' = lost \ {i} /\ left' = left \ {i}
          /\ UNCHANGED <<rows, files>>

\* store_product_image.  A write that fails may have created the file.
Store(r) ==
    /\ At(r, "store")
    /\ \/ files' = files \cup {tx[r].image} /\ Goto(r, "insert") /\ UNCHANGED history
       \/ /\ files' = files \cup {tx[r].image}
          /\ left' = left \cup {tx[r].image}
          /\ End(r)
          /\ UNCHANGED lost
       \/ End(r) /\ UNCHANGED <<files, history>>
    /\ UNCHANGED rows

\* create_image and the commit.  Either may fail, and the answer to the commit
\* may not arrive: both end in the same except clause.
Insert(r) ==
    /\ At(r, "insert")
    /\ LET i == tx[r].image IN
       \/ /\ scope' = [scope EXCEPT ![i] = tx[r].scope]
          /\ position' = [position EXCEPT ![i] = tx[r].position]
          /\ \/ End(r) /\ UNCHANGED lost
             \/ Goto(r, "undo") /\ lost' = lost \cup {i}
          /\ UNCHANGED <<deleted, retired>>
       \/ Goto(r, "undo") /\ UNCHANGED <<rows, lost>>
    /\ UNCHANGED <<files, left>>

\* _forget in the except clause of upload.
Undo(r) ==
    /\ At(r, "undo")
    /\ \/ files' = files \ {tx[r].image} /\ UNCHANGED left
       \/ left' = left \cup {tx[r].image} /\ UNCHANGED files
    /\ End(r)
    /\ UNCHANGED <<rows, lost>>

\* move: set_positions of the reordered scope, and the commit.
Move(r) ==
    /\ At(r, "apply") /\ tx[r].kind = "move"
    /\ LET i == tx[r].image
           S == ImagesOf(scope[i])
           refused == ~HasRow(i) \/ tx[r].position >= Cardinality(S)
       IN
       \/ refused /\ Refuse(r)
       \/ /\ ~refused
          /\ \E rank \in Rankings(S) :
                position' = [j \in Image |->
                    IF j \in S THEN Moved(rank[j], rank[i], tx[r].position) ELSE position[j]]
          /\ End(r)
          /\ UNCHANGED <<deleted, retired, scope, files, history>>

\* After a commit the files in K are to be removed, unless the answer to the
\* commit is lost: then the exception ends the request.
Finish(r, K) ==
    \/ /\ K # {}
       /\ tx' = [tx EXCEPT ![r] = [Idle EXCEPT !.pc = "clean", !.keys = K]]
       /\ UNCHANGED left
    \/ End(r) /\ left' = left \cup K

\* The rows of the images in K go.
DeleteRows(K) ==
    /\ scope' = [i \in Image |-> IF i \in K THEN None ELSE scope[i]]
    /\ position' = [i \in Image |-> IF i \in K THEN 0 ELSE position[i]]

\* Mutant: the remaining images keep their positions.
RemoveOnly(r) ==
    /\ At(r, "apply") /\ tx[r].kind = "delete"
    /\ LET i == tx[r].image IN
       \/ ~HasRow(i) /\ Refuse(r)
       \/ /\ HasRow(i)
          /\ DeleteRows({i})
          /\ Finish(r, {i})
          /\ UNCHANGED <<deleted, retired, files, lost>>

\* Mutant: the file goes before the commit, which may fail.
RemoveFileFirst(r) ==
    /\ At(r, "apply") /\ tx[r].kind = "delete"
    /\ files' = files \ {tx[r].image}
    /\ End(r)
    /\ UNCHANGED <<rows, history>>

\* delete, up to the commit: the row goes, the others close the gap.
Remove(r) ==
    /\ At(r, "apply") /\ tx[r].kind = "delete"
    /\ LET i == tx[r].image
           S == ImagesOf(scope[i]) \ {i}
       IN
       \/ ~HasRow(i) /\ Refuse(r)
       \/ /\ HasRow(i)
          /\ scope' = [scope EXCEPT ![i] = None]
          /\ \E rank \in Rankings(S) :
                position' = [j \in Image |-> IF j \in S THEN rank[j]
                                             ELSE IF j = i THEN 0 ELSE position[j]]
          /\ Finish(r, {i})
          /\ UNCHANGED <<deleted, retired, files, lost>>

\* Mutant: the keys of the deleted rows are not kept.
RemoveVariantOnly(r) ==
    /\ At(r, "apply") /\ tx[r].kind = "deleteVariant"
    /\ LET v == tx[r].scope IN
       \/ v \in retired /\ Refuse(r)
       \/ /\ v \notin retired
          /\ retired' = retired \cup {v}
          /\ DeleteRows(ImagesOf(v))
          /\ End(r)
          /\ UNCHANGED <<deleted, files, history>>

\* delete_variant: soft_delete_variant, delete_for_variant and the commit.
RemoveVariant(r) ==
    /\ At(r, "apply") /\ tx[r].kind = "deleteVariant"
    /\ LET v == tx[r].scope IN
       \/ v \in retired /\ Refuse(r)
       \/ /\ v \notin retired
          /\ retired' = retired \cup {v}
          /\ DeleteRows(ImagesOf(v))
          /\ Finish(r, ImagesOf(v))
          /\ UNCHANGED <<deleted, files, lost>>

\* delete_product: soft_delete_variants_of_product, delete_for_product and the
\* commit.
RemoveProduct(r) ==
    /\ At(r, "apply") /\ tx[r].kind = "deleteProduct"
    /\ deleted' = TRUE
    /\ retired' = Variant
    /\ LET K == {i \in Image : HasRow(i)} IN DeleteRows(K) /\ Finish(r, K)
    /\ UNCHANGED <<files, lost>>

\* _remove_objects and _forget: one file after the other, and an error is only
\* logged.
CleanUp(r) ==
    /\ At(r, "clean")
    /\ \E i \in tx[r].keys :
          /\ IF tx[r].keys = {i} THEN End(r)
             ELSE tx' = [tx EXCEPT ![r].keys = @ \ {i}]
          /\ \/ files' = files \ {i} /\ UNCHANGED left
             \/ left' = left \cup {i} /\ UNCHANGED files
    /\ UNCHANGED <<rows, lost>>

-----------------------------------------------------------------------------
Step(r) ==
    \/ LockProduct(r) \/ CheckUpload(r) \/ Store(r) \/ Insert(r) \/ Undo(r)
    \/ Move(r) \/ Remove(r) \/ RemoveVariant(r) \/ RemoveProduct(r) \/ CleanUp(r)

Next == \E r \in Request : Begin(r) \/ Step(r) \/ Abort(r)

Spec == Init /\ [][Next]_vars

-----------------------------------------------------------------------------
(* Properties.                                                             *)

\* Every variable keeps its shape.
TypeOK ==
    /\ deleted \in BOOLEAN
    /\ retired \in SUBSET Variant
    /\ scope \in [Image -> Scope \cup {None}]
    /\ position \in [Image -> Nat]
    /\ files \in SUBSET Image
    /\ lost \in SUBSET Image
    /\ left \in SUBSET Image
    /\ tx \in [Request -> Transactions]

\* API_CONTRACT_CATALOG.md, ImageData: the positions of a scope are 0..n-1
\* without a gap and without a repetition, after any sequence of uploads,
\* moves and deletions at once.
DensePositions ==
    \A i \in Image : HasRow(i) =>
        /\ position[i] < CountScope(scope[i])
        /\ \A j \in Image : scope[j] = scope[i] /\ position[j] = position[i] => j = i

\* PRODUCT_IMAGES_MAX and VARIANT_IMAGES_MAX: an upload counts the scope long
\* before it inserts its row, and two of them still do not pass the limit.
WithinLimits == \A s \in Scope : CountScope(s) <= Limit(s)

\* R23: images go with their variant or product.  An upload that has looked
\* the variant up does not bring a row into a scope that is gone.
OnlyLiveScopes == \A i \in Image : HasRow(i) => Live(scope[i])

\* product_image_service.py, "never a row that points at nothing", as far as
\* it goes: only a commit whose answer was lost leaves such a row.
NoRowWithoutFile == \A i \in Image : HasRow(i) => i \in files \cup lost

\* "An orphaned file is tolerated", and nothing but a failure makes one: a
\* file has its row, or a request that is about to give it one or to remove
\* it, or its removal was tried or cut off by a crash.
NoSilentOrphan ==
    \A i \in files : HasRow(i) \/ i \in left \/ \E r \in Request : i \in InHand(tx[r])

\* Every commit is one operation on the lists of ImageLists.
ListOf(s) ==
    [n \in 1..CountScope(s) |-> CHOOSE i \in ImagesOf(s) : position[i] = n - 1]
Lists == INSTANCE ImageLists
            WITH list <- [s \in Scope |-> ListOf(s)],
                 closed <- {s \in Scope : ~Live(s)}
ImplementsImageLists == Lists!Spec
=============================================================================
