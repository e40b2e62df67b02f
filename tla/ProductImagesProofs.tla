-------------------------- MODULE ProductImagesProofs -------------------------
(***************************************************************************)
(* Proofs about ProductImages, for every set of variants, images and       *)
(* requests and for all limits: the positions of a scope stay dense, no    *)
(* scope passes its limit or outlives its variant, only a lost answer      *)
(* leaves a row without a file, and only a failure leaves a file without a *)
(* row.                                                                    *)
(***************************************************************************)
EXTENDS ProductImages, TLAPS, FiniteSetTheorems

-----------------------------------------------------------------------------
(* The inductive invariant.                                                *)

Uploading == {"check", "store", "insert", "undo"}

\* What a request is about, and the points it goes through.
WellFormed(t) ==
    /\ t.pc \in Uploading => t.kind = "upload"
    /\ t.kind = "upload" => t.scope \in Scope /\ t.pc \notin {"apply", "clean"}
    /\ t.pc \in {"store", "insert", "undo"} => t.image \in Image
    /\ t.kind \in {"move", "delete"} /\ t.pc \in {"lock", "apply"} => t.image \in Image
    /\ t.kind = "deleteVariant" => t.scope \in Variant
    /\ t.pc # "clean" => t.keys = {}

\* What a request knows of the rows and the files it is going to change.
Knows(t) ==
    /\ t.pc \in {"check", "store", "insert", "apply"} => ~deleted
    /\ t.pc \in {"store", "insert"} =>
          /\ Live(t.scope)
          /\ t.position = CountScope(t.scope) /\ CountScope(t.scope) < Limit(t.scope)
          /\ ~HasRow(t.image)
    /\ t.pc = "insert" => t.image \in files
    /\ t.pc = "undo" => ~HasRow(t.image) \/ t.image \in lost
    /\ \A i \in t.keys : ~HasRow(i)

\* One request at a time is past the lock of the product.
Exclusive == \A q, r \in Request : q # r => ~(Holds(q) /\ Holds(r))

\* The file of an upload that has no row yet is in no one else's hand.
Reserved ==
    \A q, r \in Request :
        q # r /\ tx[q].pc \in {"store", "insert"} => tx[q].image \notin InHand(tx[r])

Tables == DensePositions /\ WithinLimits /\ OnlyLiveScopes /\ NoRowWithoutFile

IInv ==
    /\ TypeOK
    /\ \A r \in Request : WellFormed(tx[r]) /\ Knows(tx[r])
    /\ Exclusive
    /\ Reserved
    /\ Tables
    /\ NoSilentOrphan

-----------------------------------------------------------------------------
(* Counting the images of a scope.                                         *)

LEMMA FiniteScope ==
    ASSUME NEW s
    PROVE  IsFiniteSet(ImagesOf(s)) /\ CountScope(s) \in Nat
<1>1. ImagesOf(s) \in SUBSET Image
  BY DEF ImagesOf
<1>2. IsFiniteSet(ImagesOf(s))
  BY <1>1, FS_Subset, ProductImagesAssumption
<1> QED BY <1>2, FS_CardinalityType DEF CountScope

LEMMA FiniteScopeNext ==
    ASSUME NEW s
    PROVE  IsFiniteSet(ImagesOf(s)') /\ CountScope(s)' \in Nat
<1>1. ImagesOf(s)' \in SUBSET Image
  BY DEF ImagesOf
<1>2. IsFiniteSet(ImagesOf(s)')
  BY <1>1, FS_Subset, ProductImagesAssumption
<1> QED BY <1>2, FS_CardinalityType DEF CountScope

LEMMA LimitType == ASSUME NEW s PROVE Limit(s) \in Nat
BY ProductImagesAssumption DEF Limit

\* reorder maps the indices below n to the indices below n, each to another.
LEMMA MovedIsPermutation ==
    ASSUME NEW n \in Nat, NEW from \in 0..(n - 1), NEW to \in 0..(n - 1)
    PROVE  \A a, b \in 0..(n - 1) :
              /\ Moved(a, from, to) \in 0..(n - 1)
              /\ Moved(a, from, to) = Moved(b, from, to) => a = b
BY DEF Moved

\* A ranking numbers a finite set without repetition.
LEMMA RankingType ==
    ASSUME NEW S, NEW rank \in Rankings(S)
    PROVE  /\ rank \in [S -> 0..(Cardinality(S) - 1)]
           /\ \A i, j \in S : rank[i] = rank[j] => i = j
BY DEF Rankings

-----------------------------------------------------------------------------
(* Frames.                                                                 *)

LEMMA IdleFits ==
    Idle \in Transactions /\ WellFormed(Idle) /\ Knows(Idle) /\ Knows(Idle)' /\ InHand(Idle) = {}
BY DEF Idle, Transactions, Points, Kinds, WellFormed, Knows, Uploading, InHand

\* A step that leaves the rows alone keeps the invariant if what its request
\* becomes fits, and the files it touches are in its own hand.
LEMMA QuietStep ==
    ASSUME IInv, NEW r \in Request, NEW t \in Transactions,
           tx' = [tx EXCEPT ![r] = t], UNCHANGED rows,
           files' \in SUBSET Image, lost' \in SUBSET Image, left' \in SUBSET Image,
           WellFormed(t), Knows(t)',
           \A q \in Request \ {r} :
              /\ t.pc \in {"check", "store", "insert", "apply"} => ~Holds(q)
              /\ t.pc \in {"store", "insert"} => t.image \notin InHand(tx[q])
              /\ tx[q].pc \in {"store", "insert"} => tx[q].image \notin InHand(t)
              /\ tx[q].pc = "insert" => tx[q].image \in files'
              /\ tx[q].pc = "undo" /\ tx[q].image \in lost => tx[q].image \in lost',
           \A i \in Image : HasRow(i) /\ i \in files \cup lost => i \in files' \cup lost',
           \A i \in files' : \/ i \in left' \cup InHand(t)
                             \/ i \in files /\ i \notin left \cup InHand(tx[r])
    PROVE  IInv'
<1> USE DEF rows
<1>1. /\ tx'[r] = t
      /\ \A q \in Request \ {r} : tx'[q] = tx[q]
      /\ tx' \in [Request -> Transactions]
  BY DEF IInv, TypeOK
<1>2. TypeOK'
  BY <1>1 DEF IInv, TypeOK
<1>3. /\ \A i : HasRow(i)' <=> HasRow(i)
      /\ \A s : ImagesOf(s)' = ImagesOf(s) /\ CountScope(s)' = CountScope(s)
      /\ \A s : Live(s)' <=> Live(s)
  BY DEF HasRow, ImagesOf, CountScope, Live
<1>4. \A q \in Request : WellFormed(tx'[q])
  BY <1>1 DEF IInv
<1>5. ASSUME NEW q \in Request \ {r}
      PROVE  Knows(tx[q])'
  <2>1. Knows(tx[q]) /\ tx'[q] = tx[q]
    BY <1>1 DEF IInv
  <2> QED BY <2>1, <1>1, <1>3, <1>5 DEF Knows
<1>6. Exclusive'
  BY <1>1 DEF IInv, Exclusive, Holds
<1>7. Reserved'
  BY <1>1 DEF IInv, Reserved
<1>8. Tables'
  <2>1. DensePositions' /\ WithinLimits' /\ OnlyLiveScopes'
    BY <1>3 DEF IInv, Tables, DensePositions, WithinLimits, OnlyLiveScopes
  <2>2. NoRowWithoutFile'
    BY <1>3 DEF IInv, Tables, NoRowWithoutFile
  <2> QED BY <2>1, <2>2 DEF Tables
<1>9. NoSilentOrphan'
  <2> SUFFICES ASSUME NEW i \in files', i \notin left', ~HasRow(i)
               PROVE  \E q \in Request : i \in InHand(tx'[q])
    BY <1>3 DEF NoSilentOrphan
  <2>1. CASE i \in InHand(t)
    BY <1>1, <2>1
  <2>2. CASE i \in files /\ i \notin left \cup InHand(tx[r])
    <3>1. PICK q \in Request : i \in InHand(tx[q])
      BY <2>2 DEF IInv, NoSilentOrphan
    <3> QED BY <1>1, <2>2, <3>1
  <2> QED BY <2>1, <2>2
<1> QED BY <1>1, <1>2, <1>4, <1>5, <1>6, <1>7, <1>8, <1>9 DEF IInv

-----------------------------------------------------------------------------
(* Steps that leave the rows alone.                                        *)

\* A request in the state fits, and so do the fields it keeps.
LEMMA InState ==
    ASSUME IInv, NEW r \in Request
    PROVE  /\ tx[r] \in Transactions /\ WellFormed(tx[r]) /\ Knows(tx[r])
           /\ \A t \in Transactions : [tx EXCEPT ![r] = t][r] = t
BY DEF IInv, TypeOK

\* A request that ends: its files are gone from its hand, each removed, given
\* up, or kept with its row.
LEMMA EndStep ==
    ASSUME IInv, NEW r \in Request, End(r), UNCHANGED <<rows, lost>>,
           files' \in SUBSET Image, left' \in SUBSET Image, left \subseteq left',
           \A i \in files \ files' : ~HasRow(i) \/ i \in lost,
           \A i \in files \ files' : i \in InHand(tx[r]),
           \A i \in files' : i \in left' \/ (i \in files /\ i \notin InHand(tx[r]))
    PROVE  IInv'
<1>1. tx' = [tx EXCEPT ![r] = Idle]
  BY DEF End
<1>2. \A q \in Request \ {r} :
         /\ tx[q].pc = "insert" => tx[q].image \in files'
         /\ tx[q].pc = "undo" /\ tx[q].image \in lost => tx[q].image \in lost'
  BY DEF IInv, Reserved, Knows
<1>3. lost' \in SUBSET Image
  BY DEF IInv, TypeOK
<1>4. \A i \in Image : HasRow(i) /\ i \in files \cup lost => i \in files' \cup lost'
  OBVIOUS
<1>5. \A i \in files' : \/ i \in left' \cup InHand(Idle)
                        \/ i \in files /\ i \notin left \cup InHand(tx[r])
  OBVIOUS
<1>6. Idle.pc = "idle" /\ InHand(Idle) = {} /\ Idle \in Transactions /\ WellFormed(Idle)
      /\ Knows(Idle)'
  BY IdleFits DEF Idle
<1> QED BY <1>1, <1>2, <1>3, <1>4, <1>5, <1>6, QuietStep

\* A request that has nothing in its hand is refused.
LEMMA RefuseStep ==
    ASSUME IInv, NEW r \in Request, Refuse(r), tx[r].pc \in {"lock", "check", "apply"}
    PROVE  IInv'
<1>1. InHand(tx[r]) = {}
  BY InState DEF InHand, WellFormed
<1> QED BY <1>1, EndStep DEF Refuse, history, IInv, TypeOK

LEMMA AbortStep ==
    ASSUME IInv, NEW r \in Request, Abort(r)
    PROVE  IInv'
<1>1. InHand(tx[r]) \in SUBSET Image
  BY InState DEF InHand, WellFormed, Transactions
<1> QED BY <1>1, EndStep DEF Abort, IInv, TypeOK

\* A request that moves on with the files, the rows and the histories as they
\* are.
LEMMA GotoStep ==
    ASSUME IInv, NEW r \in Request, NEW t \in Transactions,
           tx' = [tx EXCEPT ![r] = t], UNCHANGED <<rows, files, history>>,
           WellFormed(t), Knows(t), t.pc \notin {"store", "insert"},
           InHand(t) = InHand(tx[r]),
           t.pc \in {"check", "apply"} => \A q \in Request \ {r} : ~Holds(q)
    PROVE  IInv'
<1>1. Knows(t)'
  BY DEF rows, history, Knows, HasRow, Live, CountScope, ImagesOf
<1>2. /\ files' \in SUBSET Image /\ lost' \in SUBSET Image /\ left' \in SUBSET Image
      /\ files' = files /\ lost' = lost /\ left' = left
  BY DEF IInv, TypeOK, history
<1>3. \A q \in Request \ {r} :
         /\ tx[q].pc \in {"store", "insert"} => tx[q].image \notin InHand(t)
         /\ tx[q].pc = "insert" => tx[q].image \in files
  BY DEF IInv, Reserved, Knows
<1> QED BY <1>1, <1>2, <1>3, QuietStep

LEMMA BeginStep ==
    ASSUME IInv, NEW r \in Request, Begin(r)
    PROVE  IInv'
<1>1. PICK kind \in Kinds, s \in Scope \cup {None}, i \in Image \cup {None}, target \in Nat :
         /\ Ask(r, kind, s, i, target)
         /\ kind = "upload" => s \in Scope
         /\ kind \in {"move", "delete"} => i \in Image
         /\ kind = "deleteVariant" => s \in Variant
  <2>1. CASE \E s \in Scope : Ask(r, "upload", s, None, 0)
    BY <2>1 DEF Kinds
  <2>2. CASE \E i \in Image, target \in Nat : Ask(r, "move", None, i, target)
    BY <2>2 DEF Kinds
  <2>3. CASE \E i \in Image : Ask(r, "delete", None, i, 0)
    BY <2>3 DEF Kinds
  <2>4. CASE \E v \in Variant : Ask(r, "deleteVariant", v, None, 0)
    BY <2>4 DEF Kinds, Scope
  <2>5. CASE Ask(r, "deleteProduct", None, None, 0)
    BY <2>5 DEF Kinds
  <2> QED BY <2>1, <2>2, <2>3, <2>4, <2>5 DEF Begin
<1>2. PICK t : t = [pc |-> "lock", kind |-> kind, scope |-> s, image |-> i,
                    position |-> target, keys |-> {}]
  OBVIOUS
<1>3. tx' = [tx EXCEPT ![r] = t]
  BY <1>1, <1>2 DEF Ask
<1>4. t \in Transactions /\ WellFormed(t) /\ Knows(t) /\ InHand(t) = {} /\ t.pc = "lock"
  BY <1>1, <1>2 DEF Transactions, Points, WellFormed, Uploading, Knows, InHand
<1>5. InHand(tx[r]) = {}
  BY InState DEF Begin, At, InHand, WellFormed
<1> QED BY <1>3, <1>4, <1>5, GotoStep DEF Begin

LEMMA LockStep ==
    ASSUME IInv, NEW r \in Request, LockProduct(r)
    PROVE  IInv'
<1>1. CASE Refuse(r)
  BY <1>1, RefuseStep DEF LockProduct, At
<1>2. CASE /\ ~deleted /\ \A q \in Request \ {r} : ~Holds(q)
           /\ Goto(r, AfterLock(tx[r].kind)) /\ UNCHANGED <<rows, files, history>>
  <2> DEFINE t == [tx[r] EXCEPT !.pc = AfterLock(tx[r].kind)]
  <2>1. tx[r].pc = "lock" /\ tx[r] \in Transactions /\ WellFormed(tx[r])
    BY InState DEF LockProduct, At
  <2>2. t \in Transactions /\ tx' = [tx EXCEPT ![r] = t]
    BY <1>2, <2>1 DEF Goto, Transactions, AfterLock, Points
  <2>3. /\ t.pc = IF tx[r].kind = "upload" THEN "check" ELSE "apply"
        /\ t.kind = tx[r].kind /\ t.scope = tx[r].scope /\ t.image = tx[r].image
        /\ t.keys = tx[r].keys /\ tx[r].keys = {}
    BY <2>1 DEF Transactions, AfterLock, WellFormed
  <2>4. WellFormed(t) /\ Knows(t) /\ InHand(t) = {} /\ InHand(tx[r]) = {}
    BY <1>2, <2>1, <2>3 DEF WellFormed, Knows, Uploading, InHand
  <2> HIDE DEF t
  <2> QED BY <1>2, <2>2, <2>3, <2>4, GotoStep
<1> QED BY <1>1, <1>2 DEF LockProduct

LEMMA CheckStep ==
    ASSUME IInv, NEW r \in Request, CheckUpload(r)
    PROVE  IInv'
<1>0. PICK s : s = tx[r].scope
  OBVIOUS
<1>1. CASE Refuse(r)
  BY <1>1, RefuseStep DEF CheckUpload, At
<1>2. ASSUME NEW i \in Image, NewImage(i), ~NoPlace(s),
             tx' = [tx EXCEPT ![r].pc = "store", ![r].image = i,
                              ![r].position = NextPosition(s)],
             lost' = lost \ {i}, left' = left \ {i}, UNCHANGED <<rows, files>>
      PROVE  IInv'
  <2>0. PICK t : t = [tx[r] EXCEPT !.pc = "store", !.image = i,
                                    !.position = NextPosition(s)]
    OBVIOUS
  <2>1. /\ tx[r].pc = "check" /\ tx[r] \in Transactions /\ WellFormed(tx[r])
        /\ Knows(tx[r]) /\ Holds(r)
    BY InState DEF CheckUpload, At, Holds
  <2>2. s \in Scope /\ tx[r].kind = "upload" /\ tx[r].keys = {}
    BY <1>0, <2>1 DEF WellFormed, Uploading
  <2>3. NextPosition(s) = CountScope(s) /\ CountScope(s) \in Nat
    BY FiniteScope DEF NextPosition
  <2>4. t \in Transactions /\ tx' = [tx EXCEPT ![r] = t]
    BY <1>2, <2>0, <2>1, <2>3 DEF Transactions, Points, IInv, TypeOK
  <2>5. /\ t.pc = "store" /\ t.kind = "upload" /\ t.scope = s /\ t.image = i
        /\ t.keys = {} /\ t.position = CountScope(s)
    BY <1>0, <2>0, <2>1, <2>2, <2>3 DEF Transactions
  <2>6. WellFormed(t) /\ InHand(t) = {} /\ InHand(tx[r]) = {}
    BY <2>1, <2>2, <2>5 DEF WellFormed, Uploading, InHand
  <2>7. Live(s) /\ CountScope(s) < Limit(s) /\ ~HasRow(i) /\ i \notin files
    BY <1>2, <2>3, LimitType DEF NoPlace, NewImage
  <2>8. Knows(t)'
    <3>1. ~deleted
      BY <2>1 DEF Knows
    <3>2. /\ ~deleted' /\ Live(s)' /\ CountScope(s)' = CountScope(s)
          /\ CountScope(s)' < Limit(s) /\ ~HasRow(i)'
      BY <1>2, <2>7, <3>1 DEF rows, HasRow, Live, CountScope, ImagesOf
    <3> QED BY <2>5, <3>2 DEF Knows
  <2>9. ASSUME NEW q \in Request \ {r}
        PROVE  ~Holds(q) /\ i \notin InHand(tx[q]) /\ tx[q].image # i
    BY <1>2, <2>1, <2>9 DEF IInv, Exclusive, NewImage, InHand
  <2>10. \A q \in Request \ {r} : tx[q].pc \notin {"store", "insert"}
    BY <2>9 DEF Holds
  <2>11. /\ lost' \in SUBSET Image /\ left' \in SUBSET Image /\ files' \in SUBSET Image
         /\ \A j \in files' : j \in left => j \in left'
         /\ \A j \in Image : HasRow(j) /\ j \in files \cup lost => j \in files' \cup lost'
    BY <1>2, <2>7 DEF IInv, TypeOK
  <2>12. \A j \in files' : \/ j \in left' \cup InHand(t)
                           \/ j \in files /\ j \notin left \cup InHand(tx[r])
    BY <1>2, <2>6, <2>11
  <2>13. \A q \in Request \ {r} :
            /\ t.image \notin InHand(tx[q])
            /\ tx[q].pc = "undo" /\ tx[q].image \in lost => tx[q].image \in lost'
    BY <1>2, <2>5, <2>9
  <2> QED BY <1>2, <2>4, <2>6, <2>8, <2>9, <2>10, <2>11, <2>12, <2>13, QuietStep
<1> QED BY <1>0, <1>1, <1>2 DEF CheckUpload

LEMMA StoreStep ==
    ASSUME IInv, NEW r \in Request, Store(r)
    PROVE  IInv'
<1>1. /\ tx[r].pc = "store" /\ tx[r] \in Transactions /\ WellFormed(tx[r])
      /\ Knows(tx[r]) /\ Holds(r) /\ InHand(tx[r]) = {}
      /\ tx[r].image \in Image
  BY InState DEF Store, At, Holds, WellFormed, InHand
<1>2. files \in SUBSET Image /\ left \in SUBSET Image /\ UNCHANGED rows
  BY DEF IInv, TypeOK, Store
<1>4. CASE /\ files' = files \cup {tx[r].image} /\ left' = left \cup {tx[r].image}
           /\ End(r) /\ UNCHANGED lost
  BY <1>1, <1>2, <1>4, EndStep
<1>5. CASE End(r) /\ UNCHANGED <<files, history>>
  BY <1>1, <1>2, <1>5, EndStep DEF history
<1>3. CASE files' = files \cup {tx[r].image} /\ Goto(r, "insert") /\ UNCHANGED history
  <2>0. PICK t : t = [tx[r] EXCEPT !.pc = "insert"]
    OBVIOUS
  <2>1. t \in Transactions /\ tx' = [tx EXCEPT ![r] = t]
    BY <1>1, <1>3, <2>0 DEF Goto, Transactions, Points
  <2>2. /\ t.pc = "insert" /\ t.kind = tx[r].kind /\ t.scope = tx[r].scope
        /\ t.image = tx[r].image /\ t.keys = tx[r].keys /\ t.position = tx[r].position
    BY <1>1, <2>0 DEF Transactions
  <2>3. WellFormed(t) /\ InHand(t) = {tx[r].image}
    BY <1>1, <2>2 DEF WellFormed, Uploading, InHand
  <2>4. Knows(t)'
    <3>1. /\ ~deleted /\ Live(t.scope) /\ ~HasRow(t.image) /\ \A j \in t.keys : ~HasRow(j)
          /\ t.position = CountScope(t.scope) /\ CountScope(t.scope) < Limit(t.scope)
      BY <1>1, <2>2 DEF Knows
    <3>2. /\ ~deleted' /\ Live(t.scope)' /\ ~HasRow(t.image)'
          /\ \A j \in t.keys : ~HasRow(j)'
          /\ CountScope(t.scope)' = CountScope(t.scope)
      BY <1>2, <3>1 DEF rows, HasRow, Live, CountScope, ImagesOf
    <3>3. t.image \in files'
      BY <1>3, <2>2
    <3> QED BY <2>2, <3>1, <3>2, <3>3 DEF Knows
  <2>5. \A q \in Request \ {r} :
           /\ ~Holds(q) /\ tx[q].pc \notin {"store", "insert"}
           /\ t.image \notin InHand(tx[q])
    BY <1>1, <2>2 DEF IInv, Exclusive, Reserved, Holds
  <2>6. /\ files' \in SUBSET Image /\ lost' = lost /\ left' = left
        /\ lost \in SUBSET Image /\ left \in SUBSET Image
    BY <1>1, <1>3 DEF IInv, TypeOK, history
  <2>7. \A i \in files' : \/ i \in left' \cup InHand(t)
                          \/ i \in files /\ i \notin left \cup InHand(tx[r])
    BY <1>1, <1>3, <2>3, <2>6
  <2>8. /\ \A j \in Image : HasRow(j) /\ j \in files \cup lost => j \in files' \cup lost'
        /\ \A q \in Request \ {r} : tx[q].pc = "undo" /\ tx[q].image \in lost
                                     => tx[q].image \in lost'
    BY <1>3, <2>6
  <2> QED BY <1>2, <2>1, <2>3, <2>4, <2>5, <2>6, <2>7, <2>8, QuietStep
<1> QED BY <1>3, <1>4, <1>5 DEF Store

LEMMA UndoStep ==
    ASSUME IInv, NEW r \in Request, Undo(r)
    PROVE  IInv'
<1>1. /\ InHand(tx[r]) = {tx[r].image} /\ tx[r].image \in Image
      /\ ~HasRow(tx[r].image) \/ tx[r].image \in lost
  BY InState DEF Undo, At, InHand, WellFormed, Knows
<1>2. files \in SUBSET Image /\ left \in SUBSET Image
  BY DEF IInv, TypeOK
<1> QED BY <1>1, <1>2, EndStep DEF Undo

LEMMA CleanStep ==
    ASSUME IInv, NEW r \in Request, CleanUp(r)
    PROVE  IInv'
<1>1. /\ tx[r].pc = "clean" /\ tx[r] \in Transactions /\ WellFormed(tx[r])
      /\ Knows(tx[r]) /\ InHand(tx[r]) = tx[r].keys
  BY InState DEF CleanUp, At, InHand
<1>2. PICK i \in tx[r].keys :
         /\ IF tx[r].keys = {i} THEN End(r) ELSE tx' = [tx EXCEPT ![r].keys = @ \ {i}]
         /\ \/ files' = files \ {i} /\ UNCHANGED left
            \/ left' = left \cup {i} /\ UNCHANGED files
  BY DEF CleanUp
<1>3. /\ tx[r].keys \in SUBSET Image /\ i \in Image /\ ~HasRow(i)
      /\ files \in SUBSET Image /\ left \in SUBSET Image /\ lost \in SUBSET Image
  BY <1>1 DEF Transactions, IInv, TypeOK, Knows
<1>4. UNCHANGED <<rows, lost>>
  BY DEF CleanUp
<1>5. CASE tx[r].keys = {i}
  BY <1>1, <1>2, <1>3, <1>4, <1>5, EndStep
<1>6. CASE tx[r].keys # {i}
  <2>0. PICK t : t = [tx[r] EXCEPT !.keys = @ \ {i}]
    OBVIOUS
  <2>1. t \in Transactions /\ tx' = [tx EXCEPT ![r] = t]
    BY <1>1, <2>0, <1>2, <1>3, <1>6 DEF Transactions
  <2>2. /\ t.pc = "clean" /\ t.kind = tx[r].kind /\ t.scope = tx[r].scope
        /\ t.image = tx[r].image /\ t.keys = tx[r].keys \ {i}
    BY <1>1, <2>0 DEF Transactions
  <2>3. WellFormed(t) /\ InHand(t) = tx[r].keys \ {i}
    BY <1>1, <2>2 DEF WellFormed, Uploading, InHand
  <2>4. Knows(t)'
    <3>1. \A j \in t.keys : ~HasRow(j)'
      BY <1>1, <1>4, <2>2 DEF Knows, rows, HasRow
    <3> QED BY <2>2, <3>1 DEF Knows
  <2>5. \A q \in Request \ {r} :
           /\ tx[q].pc \in {"store", "insert"} => tx[q].image \notin tx[r].keys
           /\ tx[q].pc = "insert" => tx[q].image \in files
    BY <1>1 DEF IInv, Reserved, Knows
  <2>6. \A q \in Request \ {r} : tx[q].pc = "insert" => tx[q].image \in files'
    BY <1>2, <2>5
  <2>7. files' \in SUBSET Image /\ left' \in SUBSET Image /\ lost' \in SUBSET Image
    BY <1>2, <1>3, <1>4
  <2>8. /\ \A j \in Image : HasRow(j) /\ j \in files \cup lost => j \in files' \cup lost'
        /\ \A j \in files' : \/ j \in left' \cup InHand(t)
                             \/ j \in files /\ j \notin left \cup InHand(tx[r])
    BY <1>1, <1>2, <1>3, <1>4, <2>3
  <2>9. t.pc = "clean"
    BY <2>2
  <2>10. \A q \in Request \ {r} :
            /\ tx[q].pc \in {"store", "insert"} => tx[q].image \notin InHand(t)
            /\ tx[q].pc = "undo" /\ tx[q].image \in lost => tx[q].image \in lost'
    BY <1>4, <2>3, <2>5
  <2> QED BY <1>4, <2>1, <2>3, <2>4, <2>6, <2>7, <2>8, <2>9, <2>10, QuietStep
<1> QED BY <1>5, <1>6

-----------------------------------------------------------------------------
(* Steps that commit.                                                      *)

\* The request that holds the product's row commits: no one else has counted a
\* scope, so what the others know stays true.
LEMMA CommitStep ==
    ASSUME IInv, NEW r \in Request, Holds(r), NEW t \in Transactions,
           tx' = [tx EXCEPT ![r] = t], UNCHANGED files,
           t.pc \notin {"check", "store", "insert", "apply"}, WellFormed(t), Knows(t)',
           deleted' \in BOOLEAN, retired' \in SUBSET Variant,
           scope' \in [Image -> Scope \cup {None}], position' \in [Image -> Nat],
           lost' \in SUBSET Image, left' \in SUBSET Image,
           lost \subseteq lost', left \subseteq left',
           \A i \in Image : HasRow(i)' =>
               HasRow(i) \/ (tx[r].pc = "insert" /\ i = tx[r].image),
           \A i \in files : HasRow(i) \/ i \in InHand(tx[r])
               => HasRow(i)' \/ i \in left' \cup InHand(t),
           Tables'
    PROVE  IInv'
<1>1. /\ tx'[r] = t
      /\ \A q \in Request \ {r} : tx'[q] = tx[q]
      /\ tx' \in [Request -> Transactions]
  BY DEF IInv, TypeOK
<1>2. TypeOK'
  BY <1>1 DEF IInv, TypeOK
<1>3. \A q \in Request \ {r} : tx[q].pc \notin {"check", "store", "insert", "apply"}
  BY DEF IInv, Exclusive, Holds
<1>4. ASSUME NEW q \in Request \ {r}
      PROVE  Knows(tx[q])'
  <2>1. Knows(tx[q]) /\ WellFormed(tx[q]) /\ tx[q] \in Transactions /\ tx'[q] = tx[q]
    BY <1>1, InState
  <2>2. tx[r].pc = "insert" => tx[r].image \notin InHand(tx[q])
    BY DEF IInv, Reserved
  <2>3. tx[q].pc = "undo" => scope'[tx[q].image] = None \/ tx[q].image \in lost'
    BY <2>1, <2>2 DEF Knows, InHand, WellFormed, HasRow
  <2>4. \A i \in tx[q].keys : scope'[i] = None
    BY <2>1, <2>2 DEF Knows, InHand, WellFormed, Transactions, HasRow
  <2>5. tx[q].pc \notin {"check", "store", "insert", "apply"}
    BY <1>3
  <2> QED BY <2>1, <2>3, <2>4, <2>5 DEF Knows, HasRow
<1>5. \A q \in Request : WellFormed(tx'[q])
  BY <1>1 DEF IInv
<1>6. Exclusive' /\ Reserved'
  BY <1>1, <1>3 DEF Exclusive, Reserved, Holds
<1>7. NoSilentOrphan'
  <2> SUFFICES ASSUME NEW i \in files, i \notin left', ~HasRow(i)'
               PROVE  \E q \in Request : i \in InHand(tx'[q])
    BY DEF NoSilentOrphan
  <2>1. CASE HasRow(i) \/ i \in InHand(tx[r])
    BY <1>1, <2>1
  <2>2. CASE ~HasRow(i) /\ i \notin InHand(tx[r])
    <3>1. PICK q \in Request : i \in InHand(tx[q])
      BY <2>2 DEF IInv, NoSilentOrphan
    <3> QED BY <1>1, <2>2, <3>1
  <2> QED BY <2>1, <2>2
<1> QED BY <1>1, <1>2, <1>4, <1>5, <1>6, <1>7 DEF IInv

\* The tables once the row of an upload is there.
LEMMA AddedTables ==
    ASSUME IInv, NEW i \in Image, NEW s \in Scope, ~HasRow(i), Live(s),
           CountScope(s) < Limit(s), UNCHANGED <<deleted, retired, files>>,
           lost \subseteq lost', i \in files \cup lost',
           scope' = [scope EXCEPT ![i] = s],
           position' = [position EXCEPT ![i] = CountScope(s)]
    PROVE  Tables'
<1>1. scope \in [Image -> Scope \cup {None}] /\ position \in [Image -> Nat]
  BY DEF IInv, TypeOK
<1>2. ImagesOf(s)' = ImagesOf(s) \cup {i} /\ i \notin ImagesOf(s)
  BY <1>1, ProductImagesAssumption DEF ImagesOf, HasRow, Scope
<1>3. CountScope(s)' = CountScope(s) + 1 /\ CountScope(s) \in Nat
  BY <1>2, FiniteScope, FS_AddElement DEF CountScope
<1>4. ASSUME NEW u \in Scope \ {s}
      PROVE  CountScope(u)' = CountScope(u)
  <2>1. ImagesOf(u)' = ImagesOf(u)
    BY <1>1, <1>4, ProductImagesAssumption DEF ImagesOf, HasRow, Scope
  <2> QED BY <2>1 DEF CountScope
<1>5. DensePositions /\ WithinLimits /\ OnlyLiveScopes /\ NoRowWithoutFile
  BY DEF IInv, Tables
<1>6. None \notin Scope
  BY ProductImagesAssumption
<1>7. DensePositions'
  <2> SUFFICES ASSUME NEW a \in Image, HasRow(a)'
               PROVE  /\ position'[a] < (CountScope(scope[a]))'
                      /\ \A b \in Image : scope'[b] = scope'[a] /\ position'[b] = position'[a]
                                          => b = a
    BY DEF DensePositions
  <2>1. CASE a = i
    <3>1. scope'[a] = s /\ position'[a] = CountScope(s)
      BY <1>1, <2>1
    <3>2. position'[a] < CountScope(s)'
      BY <1>3, <3>1
    <3>3. ASSUME NEW b \in Image, scope'[b] = s, b # i
          PROVE  position'[b] < CountScope(s)
      BY <1>1, <1>5, <1>6, <3>3 DEF DensePositions, HasRow
    <3>4. (CountScope(scope[a]))' = CountScope(s)'
      BY <3>1 DEF CountScope, ImagesOf
    <3> QED BY <1>1, <1>3, <2>1, <3>1, <3>2, <3>3, <3>4
  <2>2. CASE a # i
    <3>1. /\ scope'[a] = scope[a] /\ position'[a] = position[a] /\ HasRow(a)
          /\ scope[a] \in Scope
      BY <1>1, <2>2 DEF HasRow
    <3>2. PICK u : u = scope[a]
      OBVIOUS
    <3>3. position[a] < CountScope(u)
      BY <1>5, <3>1, <3>2 DEF DensePositions
    <3>4. CountScope(u) <= CountScope(u)' /\ CountScope(u) \in Nat /\ CountScope(u)' \in Nat
      BY <1>3, <1>4, <3>1, <3>2, FiniteScope
    <3>5. (CountScope(scope[a]))' = CountScope(u)'
      BY <3>1, <3>2 DEF CountScope, ImagesOf
    <3>6. position'[a] < (CountScope(scope[a]))'
      BY <1>1, <3>1, <3>3, <3>4, <3>5
    <3>7. ASSUME NEW b \in Image, scope'[b] = scope'[a], position'[b] = position'[a], b # i
          PROVE  b = a
      BY <1>1, <1>5, <3>1, <3>7 DEF DensePositions
    <3>8. scope'[i] = scope'[a] => position'[i] # position'[a]
      <4>1. CASE u = s
        BY <1>1, <1>3, <3>1, <3>3, <4>1
      <4>2. CASE u # s
        BY <1>1, <3>1, <3>2, <4>2
      <4> QED BY <4>1, <4>2
    <3> QED BY <3>6, <3>7, <3>8
  <2> QED BY <2>1, <2>2
<1>8. WithinLimits'
  <2>1. \A u \in Scope : CountScope(u)' <= Limit(u)
    BY <1>3, <1>4, <1>5, LimitType DEF WithinLimits
  <2> QED BY <2>1 DEF WithinLimits, Limit
<1>9. OnlyLiveScopes' /\ NoRowWithoutFile'
  BY <1>1, <1>5 DEF OnlyLiveScopes, NoRowWithoutFile, Live, HasRow
<1> QED BY <1>7, <1>8, <1>9 DEF Tables

LEMMA InsertStep ==
    ASSUME IInv, NEW r \in Request, Insert(r)
    PROVE  IInv'
<1>1. PICK i, s : i = tx[r].image /\ s = tx[r].scope
  OBVIOUS
<1>2. /\ tx[r].pc = "insert" /\ tx[r] \in Transactions /\ WellFormed(tx[r])
      /\ Knows(tx[r]) /\ Holds(r)
  BY InState DEF Insert, At, Holds
<1>3. /\ i \in Image /\ s \in Scope /\ InHand(tx[r]) = {i}
      /\ ~HasRow(i) /\ i \in files /\ Live(s)
      /\ tx[r].position = CountScope(s) /\ CountScope(s) < Limit(s)
  BY <1>1, <1>2 DEF WellFormed, Uploading, InHand, Knows
<1>4. /\ scope \in [Image -> Scope \cup {None}] /\ position \in [Image -> Nat]
      /\ lost \in SUBSET Image /\ left \in SUBSET Image
      /\ deleted \in BOOLEAN /\ retired \in SUBSET Variant
  BY DEF IInv, TypeOK
<1>5. files' = files /\ left' = left
  BY DEF Insert
<1>6. PICK t : t = [tx[r] EXCEPT !.pc = "undo"]
  OBVIOUS
<1>7. /\ t \in Transactions /\ t.pc = "undo" /\ t.kind = tx[r].kind
      /\ t.scope = tx[r].scope /\ t.image = i /\ t.keys = {}
  BY <1>1, <1>2, <1>6 DEF Transactions, Points, WellFormed
<1>8. WellFormed(t) /\ InHand(t) = {i}
  BY <1>2, <1>3, <1>7 DEF WellFormed, Uploading, InHand
<1>9. CASE Goto(r, "undo") /\ UNCHANGED <<rows, lost>>
  <2>1. tx' = [tx EXCEPT ![r] = t]
    BY <1>2, <1>6, <1>9 DEF Goto
  <2>2. Knows(t)
    BY <1>3, <1>7 DEF Knows
  <2> QED BY <1>3, <1>5, <1>7, <1>8, <1>9, <2>1, <2>2, GotoStep DEF history
<1>10. ASSUME scope' = [scope EXCEPT ![i] = s],
              position' = [position EXCEPT ![i] = tx[r].position],
              UNCHANGED <<deleted, retired>>, lost \subseteq lost', lost' \in SUBSET Image,
              End(r) \/ (Goto(r, "undo") /\ i \in lost')
       PROVE  IInv'
  <2>1. Tables'
    BY <1>3, <1>5, <1>10, AddedTables
  <2>2. /\ scope' \in [Image -> Scope \cup {None}] /\ position' \in [Image -> Nat]
        /\ \A j \in Image : HasRow(j)' => HasRow(j) \/ (tx[r].pc = "insert" /\ j = tx[r].image)
        /\ \A j \in files : HasRow(j) \/ j \in InHand(tx[r]) => HasRow(j)'
    BY <1>1, <1>2, <1>3, <1>4, <1>10, FiniteScope, ProductImagesAssumption DEF HasRow
  <2>3. CASE End(r)
    <3>1. tx' = [tx EXCEPT ![r] = Idle] /\ Idle.pc = "idle"
      BY <2>3 DEF End, Idle
    <3> QED BY <1>1, <1>2, <1>3, <1>4, <1>5, <1>10, <2>1, <2>2, <3>1, IdleFits,
           CommitStep
  <2>4. CASE Goto(r, "undo") /\ i \in lost'
    <3>1. tx' = [tx EXCEPT ![r] = t]
      BY <1>2, <1>6, <2>4 DEF Goto
    <3>2. Knows(t)'
      BY <1>7, <2>4 DEF Knows, HasRow
    <3> QED BY <1>1, <1>2, <1>3, <1>4, <1>5, <1>7, <1>8, <1>10, <2>1, <2>2, <3>1, <3>2,
               CommitStep
  <2> QED BY <1>10, <2>3, <2>4
<1> QED BY <1>1, <1>3, <1>4, <1>9, <1>10 DEF Insert

\* DensePositions, one scope at a time.
Dense(u) ==
    \A i \in ImagesOf(u) :
        /\ position[i] < CountScope(u)
        /\ \A j \in ImagesOf(u) : position[j] = position[i] => j = i

LEMMA DenseScopes ==
    ASSUME scope \in [Image -> Scope \cup {None}]
    PROVE  DensePositions <=> \A u \in Scope : Dense(u)
BY ProductImagesAssumption DEF DensePositions, Dense, HasRow, ImagesOf

\* A scope whose images are left alone stays dense.
LEMMA DenseFrame ==
    ASSUME NEW u, Dense(u), ImagesOf(u)' = ImagesOf(u),
           \A i \in ImagesOf(u) : position'[i] = position[i]
    PROVE  Dense(u)'
BY DEF Dense, CountScope

\* The tables after a commit that brings no row, once its scopes are dense.
LEMMA FewerTables ==
    ASSUME IInv, scope' \in [Image -> Scope \cup {None}],
           \A u \in Scope : Dense(u)' /\ CountScope(u)' <= CountScope(u),
           \A i \in Image : HasRow(i)' => HasRow(i),
           \A i \in Image : HasRow(i)' => ~deleted' /\ scope'[i] \notin retired',
           files \cup lost \subseteq files' \cup lost'
    PROVE  Tables'
<1>1. None \notin Scope
  BY ProductImagesAssumption
<1>2. DensePositions'
  BY <1>1 DEF DensePositions, Dense, HasRow, ImagesOf
<1>3. WithinLimits'
  <2>1. ASSUME NEW u \in Scope
        PROVE  CountScope(u)' <= Limit(u)
    <3>1. CountScope(u) <= Limit(u) /\ CountScope(u)' <= CountScope(u)
      BY DEF IInv, Tables, WithinLimits
    <3>2. CountScope(u) \in Nat /\ CountScope(u)' \in Nat /\ Limit(u) \in Nat
      BY FiniteScope, FiniteScopeNext, LimitType
    <3> QED BY <3>1, <3>2
  <2> QED BY <2>1 DEF WithinLimits, Limit
<1>4. OnlyLiveScopes' /\ NoRowWithoutFile'
  <2>1. NoRowWithoutFile
    BY DEF IInv, Tables
  <2> QED BY <2>1 DEF OnlyLiveScopes, NoRowWithoutFile, Live, HasRow
<1> QED BY <1>2, <1>3, <1>4 DEF Tables

\* A request that deletes the rows of the images in K and goes on to remove
\* their files.
LEMMA FinishStep ==
    ASSUME IInv, NEW r \in Request, tx[r].pc = "apply",
           NEW K \in SUBSET Image, Finish(r, K), UNCHANGED <<files, lost>>,
           deleted' \in BOOLEAN, retired' \in SUBSET Variant,
           scope' \in [Image -> Scope \cup {None}], position' \in [Image -> Nat],
           \A i \in Image : HasRow(i)' <=> HasRow(i) /\ i \notin K,
           Tables'
    PROVE  IInv'
<1>1. Holds(r) /\ InHand(tx[r]) = {}
  BY InState DEF Holds, InHand, WellFormed
<1>2. /\ lost' = lost /\ lost \in SUBSET Image /\ left \in SUBSET Image
      /\ files' = files /\ files \in SUBSET Image
  BY DEF IInv, TypeOK
<1>3. CASE tx' = [tx EXCEPT ![r] = [Idle EXCEPT !.pc = "clean", !.keys = K]] /\ UNCHANGED left
  <2>1. PICK t : t = [Idle EXCEPT !.pc = "clean", !.keys = K]
    OBVIOUS
  <2>2. /\ t \in Transactions /\ t.pc = "clean" /\ t.kind = "move" /\ t.keys = K
        /\ InHand(t) = K /\ WellFormed(t)
    BY <2>1 DEF Idle, Transactions, Points, Kinds, InHand, WellFormed, Uploading
  <2>3. Knows(t)'
    BY <2>2 DEF Knows, HasRow
  <2>4. \A i \in files : HasRow(i) \/ i \in InHand(tx[r])
            => HasRow(i)' \/ i \in left' \cup InHand(t)
    BY <1>1, <1>2, <2>2
  <2> QED BY <1>1, <1>2, <1>3, <2>1, <2>2, <2>3, <2>4, CommitStep
<1>4. CASE End(r) /\ left' = left \cup K
  <2>1. tx' = [tx EXCEPT ![r] = Idle] /\ Idle.pc = "idle"
    BY <1>4 DEF End, Idle
  <2>2. \A i \in files : HasRow(i) \/ i \in InHand(tx[r])
            => HasRow(i)' \/ i \in left' \cup InHand(Idle)
    BY <1>1, <1>2, <1>4
  <2> QED BY <1>1, <1>2, <1>4, <2>1, <2>2, IdleFits, CommitStep
<1> QED BY <1>3, <1>4 DEF Finish

\* Deleting every image of some scopes.
LEMMA DeletedTables ==
    ASSUME IInv, NEW K \in SUBSET Image, DeleteRows(K),
           \A i, j \in Image : scope[i] = scope[j] /\ i \in K => j \in K,
           \A i \in Image \ K : HasRow(i) => ~deleted' /\ scope[i] \notin retired',
           files \cup lost \subseteq files' \cup lost'
    PROVE  /\ scope' \in [Image -> Scope \cup {None}] /\ position' \in [Image -> Nat]
           /\ \A i \in Image : HasRow(i)' <=> HasRow(i) /\ i \notin K
           /\ Tables'
<1>1. scope \in [Image -> Scope \cup {None}] /\ position \in [Image -> Nat]
  BY DEF IInv, TypeOK
<1>2. scope' \in [Image -> Scope \cup {None}] /\ position' \in [Image -> Nat]
  BY <1>1 DEF DeleteRows
<1>3. \A i \in Image : /\ scope'[i] = IF i \in K THEN None ELSE scope[i]
                       /\ i \notin K => position'[i] = position[i]
  BY <1>1 DEF DeleteRows
<1>4. \A i \in Image : HasRow(i)' <=> HasRow(i) /\ i \notin K
  BY <1>3 DEF HasRow
<1>5. None \notin Scope
  BY ProductImagesAssumption
<1>6. ASSUME NEW u \in Scope
      PROVE  Dense(u)' /\ CountScope(u)' <= CountScope(u)
  <2>1. CASE \E i \in K : scope[i] = u
    <3>1. ImagesOf(u)' = {}
      BY <1>3, <1>5, <2>1 DEF ImagesOf
    <3>2. CountScope(u)' = 0
      BY <3>1, FS_EmptySet DEF CountScope
    <3> QED BY <3>1, <3>2, FiniteScope DEF Dense
  <2>2. CASE ~\E i \in K : scope[i] = u
    <3>1. ImagesOf(u)' = ImagesOf(u) /\ \A i \in ImagesOf(u) : position'[i] = position[i]
      BY <1>3, <1>5, <2>2 DEF ImagesOf
    <3>2. Dense(u)
      BY <1>1, DenseScopes DEF IInv, Tables
    <3> QED BY <3>1, <3>2, DenseFrame, FiniteScope DEF CountScope
  <2> QED BY <2>1, <2>2
<1>7. \A i \in Image : HasRow(i)' => ~deleted' /\ scope'[i] \notin retired' /\ scope'[i] = scope[i]
  BY <1>3, <1>4 DEF HasRow
<1> QED BY <1>1, <1>2, <1>4, <1>6, <1>7, FewerTables

LEMMA RemoveVariantStep ==
    ASSUME IInv, NEW r \in Request, RemoveVariant(r)
    PROVE  IInv'
<1>1. PICK v : v = tx[r].scope
  OBVIOUS
<1>2. tx[r].pc = "apply" /\ v \in Variant
  BY <1>1, InState DEF RemoveVariant, At, WellFormed
<1>3. CASE Refuse(r)
  BY <1>2, <1>3, RefuseStep
<1>4. CASE /\ retired' = retired \cup {v} /\ DeleteRows(ImagesOf(v))
           /\ Finish(r, ImagesOf(v)) /\ UNCHANGED <<deleted, files, lost>>
  <2>1. PICK K : K = ImagesOf(v)
    OBVIOUS
  <2>2. /\ K \in SUBSET Image
        /\ \A i, j \in Image : scope[i] = scope[j] /\ i \in K => j \in K
    BY <2>1 DEF ImagesOf
  <2>3. \A i \in Image \ K : HasRow(i) => ~deleted' /\ scope[i] \notin retired'
    BY <1>4, <2>1 DEF IInv, Tables, OnlyLiveScopes, Live, ImagesOf
  <2>4. deleted' \in BOOLEAN /\ retired' \in SUBSET Variant
    BY <1>2, <1>4 DEF IInv, TypeOK
  <2>5. DeleteRows(K) /\ Finish(r, K)
    BY <1>4, <2>1
  <2>6. files \cup lost \subseteq files' \cup lost' /\ UNCHANGED <<files, lost>>
    BY <1>4
  <2>7. /\ scope' \in [Image -> Scope \cup {None}] /\ position' \in [Image -> Nat]
        /\ \A i \in Image : HasRow(i)' <=> HasRow(i) /\ i \notin K
        /\ Tables'
    BY <2>2, <2>3, <2>5, <2>6, DeletedTables
  <2> QED BY <1>2, <2>2, <2>4, <2>5, <2>6, <2>7, FinishStep
<1> QED BY <1>1, <1>3, <1>4 DEF RemoveVariant

LEMMA RemoveProductStep ==
    ASSUME IInv, NEW r \in Request, RemoveProduct(r)
    PROVE  IInv'
<1>1. tx[r].pc = "apply"
  BY DEF RemoveProduct, At
<1>2. PICK K : K = {i \in Image : HasRow(i)}
  OBVIOUS
<1>3. /\ K \in SUBSET Image
      /\ \A i, j \in Image : scope[i] = scope[j] /\ i \in K => j \in K
      /\ \A i \in Image \ K : HasRow(i) => ~deleted' /\ scope[i] \notin retired'
  BY <1>2 DEF HasRow
<1>4. deleted' \in BOOLEAN /\ retired' \in SUBSET Variant
  BY DEF RemoveProduct
<1>5. DeleteRows(K) /\ Finish(r, K)
  BY <1>2 DEF RemoveProduct
<1>6. files \cup lost \subseteq files' \cup lost' /\ UNCHANGED <<files, lost>>
  BY DEF RemoveProduct
<1>7. /\ scope' \in [Image -> Scope \cup {None}] /\ position' \in [Image -> Nat]
      /\ \A i \in Image : HasRow(i)' <=> HasRow(i) /\ i \notin K
      /\ Tables'
  BY <1>3, <1>5, <1>6, DeletedTables
<1> QED BY <1>1, <1>3, <1>4, <1>5, <1>6, <1>7, FinishStep

LEMMA RemoveStep ==
    ASSUME IInv, NEW r \in Request, Remove(r)
    PROVE  IInv'
<1>1. PICK i, s : i = tx[r].image /\ s = scope[i]
  OBVIOUS
<1>2. PICK S : S = ImagesOf(s) \ {i}
  OBVIOUS
<1>3. tx[r].pc = "apply" /\ i \in Image
  BY <1>1, InState DEF Remove, At, WellFormed
<1>4. CASE Refuse(r)
  BY <1>3, <1>4, RefuseStep
<1>5. ASSUME HasRow(i), scope' = [scope EXCEPT ![i] = None],
             NEW rank \in Rankings(S),
             position' = [j \in Image |-> IF j \in S THEN rank[j]
                                         ELSE IF j = i THEN 0 ELSE position[j]],
             Finish(r, {i}), UNCHANGED <<deleted, retired, files, lost>>
      PROVE  IInv'
  <2>1. /\ scope \in [Image -> Scope \cup {None}] /\ position \in [Image -> Nat]
        /\ deleted' \in BOOLEAN /\ retired' \in SUBSET Variant
    BY <1>5 DEF IInv, TypeOK
  <2>2. i \in ImagesOf(s) /\ s \in Scope /\ None \notin Scope /\ S \in SUBSET Image
    BY <1>1, <1>2, <1>3, <1>5, <2>1, ProductImagesAssumption DEF HasRow, ImagesOf
  <2>3. ImagesOf(s)' = S /\ \A u \in Scope \ {s} : ImagesOf(u)' = ImagesOf(u)
    BY <1>1, <1>2, <1>5, <2>1, <2>2 DEF ImagesOf
  <2>4. CountScope(s)' = Cardinality(S) /\ CountScope(s)' \in Nat
    BY <2>3, FiniteScopeNext DEF CountScope
  <2>5. CountScope(s)' = CountScope(s) - 1 /\ CountScope(s) \in Nat
    BY <1>2, <2>2, <2>4, FiniteScope, FS_RemoveElement DEF CountScope
  <2>6. /\ rank \in [S -> 0..(Cardinality(S) - 1)]
        /\ \A a, b \in S : rank[a] = rank[b] => a = b
    BY <1>5, RankingType
  <2>7. position' \in [Image -> Nat] /\ scope' \in [Image -> Scope \cup {None}]
    <3>1. \A j \in S : rank[j] \in Nat
      BY <2>4, <2>6
    <3>2. \A j \in Image : position'[j] \in Nat
      BY <1>5, <2>1, <3>1
    <3> QED BY <1>5, <2>1, <3>2
  <2>8. \A j \in Image : HasRow(j)' <=> HasRow(j) /\ j \notin {i}
    BY <1>5, <2>1 DEF HasRow
  <2>9. ASSUME NEW u \in Scope
        PROVE  Dense(u)' /\ CountScope(u)' <= CountScope(u)
    <3>1. CASE u = s
      <4>1. \A j \in S : position'[j] = rank[j]
        BY <1>5, <2>2
      <4>2. Dense(s)'
        BY <2>3, <2>4, <2>6, <4>1 DEF Dense
      <4> QED BY <2>5, <3>1, <4>2
    <3>2. CASE u # s
      <4>1. Dense(u)
        BY <2>1, DenseScopes DEF IInv, Tables
      <4>2. \A j \in ImagesOf(u) : position'[j] = position[j]
        BY <1>1, <1>2, <1>5, <2>2, <3>2 DEF ImagesOf
      <4> QED BY <2>3, <3>2, <4>1, <4>2, DenseFrame, FiniteScope DEF CountScope
    <3> QED BY <3>1, <3>2
  <2>10. Tables'
    <3>1. \A j \in Image : HasRow(j)' => ~deleted' /\ scope'[j] \notin retired'
      BY <1>5, <2>1, <2>8 DEF IInv, Tables, OnlyLiveScopes, Live
    <3> QED BY <1>5, <2>7, <2>8, <2>9, <3>1, FewerTables
  <2> QED BY <1>3, <1>5, <2>1, <2>7, <2>8, <2>10, FinishStep
<1> QED BY <1>1, <1>2, <1>4, <1>5 DEF Remove

LEMMA MoveStep ==
    ASSUME IInv, NEW r \in Request, Move(r)
    PROVE  IInv'
<1>1. PICK i, s, target : i = tx[r].image /\ s = scope[i] /\ target = tx[r].position
  OBVIOUS
<1>2. PICK S : S = ImagesOf(s)
  OBVIOUS
<1>3. /\ tx[r].pc = "apply" /\ i \in Image /\ target \in Nat
      /\ Holds(r) /\ InHand(tx[r]) = {}
  BY <1>1, InState DEF Move, At, WellFormed, Transactions, InHand, Holds
<1>4. CASE Refuse(r)
  BY <1>3, <1>4, RefuseStep
<1>5. ASSUME HasRow(i), ~(target >= Cardinality(S)), NEW rank \in Rankings(S),
             position' = [j \in Image |-> IF j \in S THEN Moved(rank[j], rank[i], target)
                                         ELSE position[j]],
             End(r), UNCHANGED <<deleted, retired, scope, files, history>>
      PROVE  IInv'
  <2>1. /\ scope \in [Image -> Scope \cup {None}] /\ position \in [Image -> Nat]
        /\ deleted' \in BOOLEAN /\ retired' \in SUBSET Variant
        /\ lost' = lost /\ lost \in SUBSET Image /\ left' = left /\ left \in SUBSET Image
    BY <1>5 DEF IInv, TypeOK, history
  <2>2. i \in S /\ s \in Scope /\ S \in SUBSET Image
    BY <1>1, <1>2, <1>3, <1>5, <2>1 DEF HasRow, ImagesOf
  <2>3. \A u : ImagesOf(u)' = ImagesOf(u) /\ CountScope(u)' = CountScope(u)
    BY <1>5 DEF ImagesOf, CountScope
  <2>4. PICK n : n = Cardinality(S)
    OBVIOUS
  <2>5. n \in Nat /\ n = CountScope(s)
    BY <1>2, <2>4, FiniteScope DEF CountScope
  <2>6. /\ rank \in [S -> 0..(n - 1)]
        /\ \A a, b \in S : rank[a] = rank[b] => a = b
    BY <1>5, <2>4, RankingType
  <2>7. target \in 0..(n - 1) /\ rank[i] \in 0..(n - 1)
    BY <1>3, <1>5, <2>2, <2>4, <2>5, <2>6
  <2>8. \A j \in S : /\ position'[j] \in 0..(n - 1)
                     /\ \A k \in S : position'[k] = position'[j] => k = j
    <3> SUFFICES ASSUME NEW j \in S, NEW k \in S
                 PROVE  /\ position'[j] \in 0..(n - 1)
                        /\ position'[k] = position'[j] => k = j
      OBVIOUS
    <3>1. /\ position'[j] = Moved(rank[j], rank[i], target)
          /\ position'[k] = Moved(rank[k], rank[i], target)
      BY <1>5, <2>2
    <3>2. rank[j] \in 0..(n - 1) /\ rank[k] \in 0..(n - 1)
      BY <2>6
    <3> QED BY <2>5, <2>6, <2>7, <3>1, <3>2, MovedIsPermutation
  <2>9. position' \in [Image -> Nat] /\ scope' \in [Image -> Scope \cup {None}]
    <3>1. \A j \in S : position'[j] \in Nat
      BY <2>5, <2>8
    <3>2. \A j \in Image : position'[j] \in Nat
      BY <1>5, <2>1, <3>1
    <3> QED BY <1>5, <2>1, <3>2
  <2>10. \A j \in Image : HasRow(j)' <=> HasRow(j)
    BY <1>5 DEF HasRow
  <2>11. ASSUME NEW u \in Scope
         PROVE  Dense(u)' /\ CountScope(u)' <= CountScope(u)
    <3>1. CASE u = s
      BY <1>2, <2>3, <2>5, <2>8, <3>1 DEF Dense
    <3>2. CASE u # s
      <4>1. Dense(u)
        BY <2>1, DenseScopes DEF IInv, Tables
      <4>2. \A j \in ImagesOf(u) : position'[j] = position[j]
        BY <1>1, <1>2, <1>5, <3>2 DEF ImagesOf
      <4> QED BY <2>3, <2>5, <4>1, <4>2, DenseFrame, FiniteScope
    <3> QED BY <2>3, <2>5, <3>1, <3>2
  <2>12. Tables'
    <3>1. \A j \in Image : HasRow(j)' => ~deleted' /\ scope'[j] \notin retired'
      BY <1>5, <2>10 DEF IInv, Tables, OnlyLiveScopes, Live
    <3> QED BY <1>5, <2>1, <2>9, <2>10, <2>11, <3>1, FewerTables
  <2>13. tx' = [tx EXCEPT ![r] = Idle] /\ Idle.pc = "idle"
    BY <1>5 DEF End, Idle
  <2>14. \A j \in files : HasRow(j) \/ j \in InHand(tx[r])
             => HasRow(j)' \/ j \in left' \cup InHand(Idle)
    BY <1>3, <2>10 DEF IInv, TypeOK
  <2>15. lost \subseteq lost' /\ left \subseteq left' /\ UNCHANGED files
    BY <1>5, <2>1
  <2> QED BY <1>3, <2>1, <2>9, <2>10, <2>12, <2>13, <2>14, <2>15, IdleFits, CommitStep
<1> QED BY <1>1, <1>2, <1>4, <1>5 DEF Move

-----------------------------------------------------------------------------
(* The theorems.                                                           *)

LEMMA InitIInv == Init => IInv
<1> SUFFICES ASSUME Init PROVE IInv
  OBVIOUS
<1>1. TypeOK
  BY IdleFits DEF Init, TypeOK
<1>2. \A r \in Request : tx[r] = Idle
  BY DEF Init
<1>3. \A r \in Request : WellFormed(tx[r]) /\ Knows(tx[r])
  BY <1>2, IdleFits
<1>4. Exclusive /\ Reserved
  BY <1>2 DEF Exclusive, Reserved, Holds, Idle
<1>5. \A s \in Scope : ImagesOf(s) = {}
  BY ProductImagesAssumption DEF Init, ImagesOf
<1>6. WithinLimits
  BY <1>5, FS_EmptySet, LimitType DEF WithinLimits, CountScope
<1>7. DensePositions /\ OnlyLiveScopes /\ NoRowWithoutFile /\ NoSilentOrphan
  BY DEF Init, DensePositions, OnlyLiveScopes, NoRowWithoutFile, NoSilentOrphan, HasRow
<1> QED BY <1>1, <1>3, <1>4, <1>6, <1>7 DEF IInv, Tables

LEMMA StutterIInv ==
    ASSUME IInv, UNCHANGED vars
    PROVE  IInv'
<1> USE DEF vars
<1>1. \A r \in Request : Knows(tx[r])'
  BY DEF IInv, Knows, HasRow, Live, CountScope, ImagesOf, Limit
<1>2. \A r \in Request : WellFormed(tx'[r])
  BY DEF IInv
<1>3. TypeOK' /\ Exclusive' /\ Reserved'
  BY DEF IInv, TypeOK, Exclusive, Reserved, Holds
<1>4. DensePositions' /\ WithinLimits' /\ OnlyLiveScopes' /\ NoRowWithoutFile'
  BY DEF IInv, Tables, DensePositions, WithinLimits, OnlyLiveScopes, NoRowWithoutFile,
         HasRow, Live, CountScope, ImagesOf, Limit
<1>5. NoSilentOrphan'
  BY DEF IInv, NoSilentOrphan, HasRow
<1> QED BY <1>1, <1>2, <1>3, <1>4, <1>5 DEF IInv, Tables

LEMMA StepIInv == IInv /\ [Next]_vars => IInv'
<1> SUFFICES ASSUME IInv, [Next]_vars PROVE IInv'
  OBVIOUS
<1>1. ASSUME NEW r \in Request, Step(r)
      PROVE  IInv'
  BY <1>1, LockStep, CheckStep, StoreStep, InsertStep, UndoStep, MoveStep, RemoveStep,
     RemoveVariantStep, RemoveProductStep, CleanStep DEF Step
<1>2. CASE UNCHANGED vars
  BY <1>2, StutterIInv
<1> QED BY <1>1, <1>2, BeginStep, AbortStep DEF Next

\* The invariant is inductive.
THEOREM Inductive == Spec => []IInv
BY InitIInv, StepIInv, PTL DEF Spec

\* Every variable keeps its shape.
THEOREM TypeCorrect == Spec => []TypeOK
<1>1. IInv => TypeOK
  BY DEF IInv
<1> QED BY <1>1, Inductive, PTL

\* However many requests upload, move and delete, with failures and crashes
\* anywhere, the positions of a scope are 0..n-1.
THEOREM PositionsAreDense == Spec => []DensePositions
<1>1. IInv => DensePositions
  BY DEF IInv, Tables
<1> QED BY <1>1, Inductive, PTL

\* No interleaving of uploads passes the limit of a scope.
THEOREM LimitsHold == Spec => []WithinLimits
<1>1. IInv => WithinLimits
  BY DEF IInv, Tables
<1> QED BY <1>1, Inductive, PTL

\* No image outlives its variant or its product.
THEOREM ImagesGoWithTheirScope == Spec => []OnlyLiveScopes
<1>1. IInv => OnlyLiveScopes
  BY DEF IInv, Tables
<1> QED BY <1>1, Inductive, PTL

\* A row without a file is the work of an unanswered commit.
THEOREM RowsHaveFiles == Spec => []NoRowWithoutFile
<1>1. IInv => NoRowWithoutFile
  BY DEF IInv, Tables
<1> QED BY <1>1, Inductive, PTL

\* A file without a row is in a request's hand, or a failure or a crash left it.
THEOREM OrphansAreExplained == Spec => []NoSilentOrphan
<1>1. IInv => NoSilentOrphan
  BY DEF IInv
<1> QED BY <1>1, Inductive, PTL
=============================================================================
