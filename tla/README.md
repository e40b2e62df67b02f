# Models of the shop back end

TLA+ models of the back end under `src/`: an asynchronous FastAPI program over
PostgreSQL and Redis that keeps accounts, shops, sessions, a category tree with
its attributes, and the products of the shops. The modules here model the rules
that span several tables or several requests, TLC checks them on small
instances, and TLAPS proves the most important ones for instances of any size.

## How the program runs

Every HTTP request gets a database session of its own (`api/deps.py`,
`get_application_db_session`), which is one PostgreSQL transaction at READ
COMMITTED: a statement sees what is committed when it starts. The services
(`services/*.py`) run several statements, decide between them, and commit once;
the repositories (`repositories/*.py`) never commit. An exception, a deadlock
victim or a lost connection rolls the whole transaction back. Between two
statements of one request any number of other requests may run and commit.
What coordinates them is:

- row locks: `get_category(lock="update" | "share")` and `get_product(lock=True)`;
- partial unique indexes and foreign keys;
- the fact that an `UPDATE` or a `DELETE` waits for the row's last writer;
- nothing else. In particular the session layer, the attribute configuration and
  the reference data take no locks at all, and files and Redis are outside of every
  transaction.

The session cache of SQLAlchemy (`expire_on_commit=False`, identity map) adds a
second kind of staleness: a later `SELECT` in the same transaction decides which
rows are returned, but an object that is already in use keeps the columns of its
first read.

## Inventory

| component | state | operations | what makes it correct |
|---|---|---|---|
| category tree (`category_service`) | `categories`, its `parent_id`; which categories products refer to | create, edit, move, delete; create a product | no loop, bounded depth, products only in leaves, no dangling reference |
| attribute configuration (`CategoryAttributeService`) | `category_attributes` with `required`, `is_variation` | put, detach | no flip and no detachment of an attribute that is used |
| products (`product_service`, `product_rules`) | `products.status`, `deleted_at`, `product_attribute_values` | create, edit, set values, publish, unpublish, delete | an active product satisfies the publication rules when it is edited; what is deleted stays |
| variants (`variant_service`) | `product_variants`, their options, status, `deleted_at` | create, update, delete | one attribute set per product, distinct combinations, one active variant while the product is active |
| sessions (`auth_service`, `session_service`) | `refresh_tokens` (owner, audience, shop, family, revoked, expiry) | register, sign in, refresh, sign out, switch shop | what has ended stays ended, reuse ends the family, one live token per family |
| account and shop (`account_service`, `shop_service`, `cli`) | `users.deactivated_at`, `shops.is_active`, `deleted_at`, `memberships` | deactivate, delete shop, suspend, promote | ending an account or a shop ends its sessions |
| attributes, options, brands (`attribute_service`, `brand_service`) | `attributes`, `attribute_options`, `brands`, and the rows that point at them | create, rename, delete; attach; create a product or a variant | unique names and slugs, nothing points at a row that is gone, a value has its attribute's type, only races end in a database error |
| product images (`product_image_service`) | `product_images`, files | upload, move, delete; delete a variant or a product | dense positions, limits, images go with their scope, no row without a file |
| avatars, backgrounds (`media_uploads`, `shops`, `media_service`) | `users.avatar_key`, `shops.background_key`, files | upload, delete | no key without a file |
| rate limiter (`rate_limit_service`) | Redis counters with an expiry | one check per request | refuses past the limit, forgets after the window, never refuses because Redis fails |

Roles, read models, media decoding, health, settings, logging and migrations keep
no state with a rule about its changes; `PROJECT.json` lists each with its reason.

Interactions: a product's creation reads the category tree under a share lock; the
publication rules read the configuration that staff change meanwhile; deleting a
product deletes its variants and images; attaching an attribute, naming a brand and
choosing an option make rows point at reference data that staff delete; every upload
of an avatar or a background asks the rate limiter first; deactivating an account and deleting a
shop reach into the tokens; each guarded request reads the account, the
membership and the shop again (`get_current_principal`).

What is hard here: checks and writes in different statements (nearly every
operation), two locks taken one after the other, values computed before the lock
that should protect them, two requests on one token, rows pruned by a third
request, configuration that changes under products that were published against the
old one, files that are written before and removed after the commit that they belong
to, a commit whose answer is lost, and a counter that is made in two commands.

## Modules

Each component's module has one action per step that others can interleave with:
a lock or a read together with the decision that follows from it, and the last
write together with the commit. (A write that is not committed is seen by no one
else; where the writing transaction itself reads it back, as the publication
rules do, the module computes what it sees: `ValuesWritten`, `ShapesWritten`.)
`tx[r]` is what request `r` holds in its local variables and its session: the
statement it runs next, the arguments, and the values it has read. `Begin` lists
what a client may ask, `Rollback` ends a request at any point with nothing
written, and so stands for every refusal that depends on data the model leaves
out.

| module | models |
|---|---|
| `CategoryTree` | `category_service`, `category_repository`, the part of `create_product` that touches a category. `forUpdate`, `forShare` are the row locks. |
| `CategoryRules` | the same operations as indivisible steps: the abstract specification |
| `ProductLifecycle` | products, values, variants and the configuration of one category (`products.category_id` never changes) |
| `Listing` | what a shop shows: the phase of each product, what is for sale; abstract |
| `Sessions` | `auth_service`, `session_service`, `account_service.deactivate`, `shop_service.delete_active_shop`, suspension and `create-admin` |
| `ProductImages` | `product_image_service`, `product_image_repository`, and what `delete_variant` and `delete_product` do to images |
| `ImageLists` | what a product promises about its images: one list per scope; abstract |
| `RateLimiter` | `enforce_rate_limit`, Redis failing or being cut off at either command, and the clock of Redis; a component without a specification of its own |
| `Pictures` | the uploads and deletions of one avatar or background, composed with `RateLimiter` |
| `References` | `attribute_service`, `brand_service` and what attaches, values and uses an entry |
| `MC...` | instances and symmetry sets for TLC |
| `CategoryTreeProofs`, `ProductLifecycleProofs`, `SessionsProofs`, `ProductImagesProofs`, `PicturesProofs`, `ReferencesProofs` | theorems and proofs, each about the module of its name |
| `ProductRulesProofs` | on top of `ProductLifecycleProofs`: the rules of the configuration |
| `ImageListsProofs` | on top of `ProductImagesProofs`: `ProductImages` implements `ImageLists` |

Correspondence, module by module:

- `CategoryTree`. `LockNode`, `Measure`, `LockParent`, `CheckStock`, `CheckChain`
  are, in this order, the statements of `update_category` with
  `_check_can_move_under` and `_check_can_hold_child`; a creation starts at
  `LockParent`; a deletion runs `LockNode`, `CheckLeaf`, `CheckEmpty`; a product
  runs `LockShared`, `CheckLeaf`. The recursive queries are defined by closure
  (`Chain`), not by recursion; when the tree has a loop they are not enabled, as
  the queries do not return. `crossed` is history, in no guard: which rules
  moves that were under way together, or beside the creation of a child, may have broken.
- `ProductLifecycle`. `LockProduct` is `get_product(lock=True)`, held until the
  request ends. `Decide...`, `Validate...` and `Enforce` are the reads of the
  configuration and of the variants; `ReadConfig`, `CheckValued`, `CheckVaried`, `Upsert` are
  those of `put_configuration` and `detach` (`used_in_category` is two queries). `Merged` is the `UPDATE` of only those
  columns that differ from what the session has read.
- `Sessions`. `Present...` finds the token of the cookie, `CheckAccount`,
  `CheckOwner`, `ChooseScope`, `CheckScope`, `CheckTarget`, `CheckShop` are the
  reads of account, membership and shop; `Issue` is the second look of `issue_session`,
  its insertion, the revocation and pruning around it and the commit, in one step:
  nobody sees these writes before the commit. `Revoke...` chooses the rows of the
  revoking `UPDATE` and `Commit` ends it. `PresentToSwitch` looks at `revoked_at` and at
  nothing else, as the code does: an expired token hands its family on. Row locks on `refresh_tokens` are left
  out, because setting `revoked_at` twice is setting it once; those on `users` and
  `shops` decide what a waiting `UPDATE` sees and are in (`HoldsUser`,
  `HoldsShop`). `InScope` and `StillInScope` are the first and the second look at
  a shop: the second notices a deletion and not a suspension. Expiry is an
  action of its own, in any order. History, in no guard: `closed` are the families that
  were ended as a whole, `outlived` names the tokens that were issued too late for an
  `UPDATE` and what should have ended them; of a request, `late` and `stale` say that its
  session, or the token in its cookie, had ended when it started, and `saw` which rows its
  `UPDATE` could see. `from` of a token is the one it was issued in the place of.
- `ProductImages`. `LockProduct` is `_locked_product`; an upload then runs
  `CheckUpload` (variant, limit, position, file check), `Store` (the file) and `Insert`
  (the row and the commit), and `Undo` is its clean-up path. `Move`, `Remove`,
  `RemoveVariant`, `RemoveProduct` are each the rest of their handler up to the commit;
  `CleanUp` is the removal of one file after it. `Insert` has one disjunct per
  outcome: the commit succeeds, it fails, or it succeeds and the answer is lost;
  `Finish` goes on to the files after a commit or, when its answer is lost or the process
  ends, leaves them. `Abort` is a refusal, a lost connection or a crash. `lost` and `left` are
  history: which failures have happened to which image.
- `RateLimiter`. `Count` is INCR with the decision, `SetLifetime` is EXPIRE; each may
  do its work or not, and answer or not. An exception lets the attempt through, as the
  `except` clause does; a cancelled request ends. `Tick` is the time of Redis.
- `Pictures`. `BeginUpload`, `Gate`, `Open` and `Write` (`write_bytes` empties the file,
  then fills it), `Get`, `SetKey` are an upload in the order of `upload_avatar` and
  `upload_background`; `BeginDeletion`, `Unlink`, `ClearKey` a deletion. A file is named
  by the digest of its bytes, and two uploads of the same bytes share one. A row's key
  is written only if it differs from what the session has read.
- `References`. One step per query: `Read`, `LookUp` (name and slug of a new brand),
  `CheckAttached`, `CheckValues`, `CheckVariants` (the three queries of
  `attribute_in_use`, or the one of a brand or an option), `ReadConfig`, `ReadBrand`,
  `ReadRules`, `ReadOptions`; and `Insert`, `Update`, `Remove`, `AttachNew`,
  `AttachAgain`, `Detach`, `Write` the writes with their commits. The constraints are
  operators (`Taken`, `SlugTaken`, `Restricted`, `KeysHold`); what a violated one turns
  into is the answer: "exists" for an error that the service maps, "failed" for one
  that reaches the client as a server error. `disturbed` is history: the requests
  during which another one has committed a change.

Operators whose comment starts with "Mutant" are wrong versions of the definition
below them. They are used by no specification; they show that each property can
fail: with the mutant in the definition's place TLC finds the property violated
(`PROJECT.json`, "mutants").

## Runs

| run | instance | shows |
|---|---|---|
| `category_concurrent` | 4 categories, 2 requests, 3 levels | `LeafOnly`, `NoDanglingRow`, `ChecksStillHold` under every interleaving of statements; `AcyclicUntilMovesCross`, `DepthBoundedUntilMovesCross`; every commit implements `CategoryRules` |
| `category_loop` | 4 categories, 2 requests, 4 levels | counterexample, see below |
| `product_concurrent` | 1 product, 2 variants, 1 SELECT attribute with 2 options, 2 requests | `ActiveSells`, `OneVariationSet`, `NoOrphanVariant`, `DeletedRowsAreKept` with staff changing the configuration |
| `product_apart` | 1 product, 2 variants, 1 SELECT attribute with 2 options, 2 requests, `Apart` | `ValuesFollowConfiguration`, `SavesKeepTheRules`, `NeverPushedOut` with stale products, with sellers beside sellers and staff beside staff; implements `Listing` |
| `product_config_race` | 1 product, 2 requests | counterexample |
| `product_stale_delete` | 1 product, 2 variants, 2 attributes, 1 request | counterexample |
| `sessions` | 1 account, 1 shop, 2 tokens, 2 requests; sign-ins to `cms` and `admin`, `storefront` by registration | `EndedSessionsStayEnded`, `RevokedTokensHandNothingOver`, `DeactivationEndsSessions`, `DeletionEndsSessions`, `FamiliesEndWhole`, `OneLiveTokenPerFamily` |
| `sessions_family` | 1 account, storefront, 2 tokens, 2 requests | counterexample |
| `product_images` | 1 variant, 3 images, limits 3 and 1, 2 requests | `DensePositions`, `WithinLimits`, `OnlyLiveScopes`, `NoRowWithoutFile`, `NoSilentOrphan`, with failing stores, lost answers and crashes; implements `ImageLists` |
| `pictures` | 1 address, limit 2, window of 2 ticks, 2 pictures, 2 requests | `KeyHasFile`, `WithinLimit`, `CounterEnds`, and the liveness property `ServedAgain` |
| `references` | a SELECT attribute with 2 options and another attribute, or 2 brands with one slug; 1 product, 1 variant, 2 requests | `NoDanglingReference`, `ValuesMatchTheirType`, `NamesAreUnique`, `OnlyRacesFail` |
| `upload_lockout` | the instance of `pictures` | counterexample |

Bounds. Ids (`Category`, `Product`, `Variant`, `Shop`, `Token`) are used once, as
uuids are, and a creation starts only while one is left; nothing else is bounded.
Two requests are enough for every pair of operations to interleave, and no rule
here compares three requests. Four categories are the fewest in which two moves
that each pass their check close a loop; the depth bound is 3, so that
some moves and creations fail it and some do not, and 4 in `category_loop`, which needs
that many (the code's 6 only needs more categories). Two
variants are enough for "the last active one" and "a second, different set". Two tokens are enough for
a rotation, a switch, a reuse and an overtaken sign-in. Two branches of one family (`Forked`)
need three tokens: these the run does not reach, and `RotationReplaces` and
`FamiliesAreRevokedWhole`, which are about any number of tokens, do.

`ProductImages`: three images make every move of a list distinct from its inverse,
the product's own limit is met by all three and the variant's by one; an id whose
upload has left no trace may be drawn again. `RateLimiter`: counts stop at `Cap`, one
above the limit, where every count has the same consequences; a window of two ticks
lets a counter live on after a tick. With two requests, both may be let through by one
counter while later attempts are refused. `References`: one category, one value per product, one option
per variant. All attributes share one key, so that two of them cannot exist at once,
and `Together = FALSE` keeps brands and attributes in separate behaviours: no operation
on the one reads the other, except that a product names both. The theorems have
neither bound.

`Apart` is the CONSTRAINT of `product_apart` and of no other run. It cuts off the
behaviours in which a change of the configuration overlaps a seller's request, and is the
hypothesis of the theorems that state its first three properties for every instance;
`product_config_race` is what it cuts off. (The fourth, `ImplementsListing`, needs no such
hypothesis and is a theorem without it: it speaks of nothing that staff change.) The other runs cut nothing off: where a race
can break a property, the property names it through a history variable (`crossed`,
`outlived`, `lost`, `torn`, `untimed`, `disturbed`) or by what it leaves behind (`Forked`),
and holds of every behaviour.

The symmetry sets hold only interchangeable ids. The runs of `MCPictures`, the only
ones that check a liveness property, use none.

Deadlock is checked in every run: a request can always roll back, so a state
without a successor would be one that the model cannot explain.

Fairness. A client may go away, a transaction may be rolled back at any point and no
service retries, so nothing that a request does to the database is bound to happen,
and no liveness property is stated of it. What must pass is the rate limiter's window.
`ServedAgain` says that a refused address is served again unless its counter has lost
its EXPIRE; it assumes `WF(Tick)`, as Redis counts down every lifetime whatever its
clients do, and `WF(Gate(r))`, as a handler that awaits Redis is resumed with an answer
or an error (which includes that it is cut off). Nothing assumes that a request is
made, that a command succeeds, or that a request goes on after the gate.

## What disagrees with the repository's own statements

- `category_loop`: two moves on different rows each check the other's old
  position; both commit, and the tree has a loop (`category_service.py` says "it
  never contains a cycle"). The recursive queries of these categories then do not
  end.
- `product_config_race`: an attribute becomes a variation between the check of its
  uses and the commit, while a value is written for it.
- `product_stale_delete`: `delete_variant` is the one edit of an active product that does
  not ask for the publication rules. It can break none that held (`NeverPushedOut`), and
  leaves a stale product stale; R16 lists the deletion of a variant among the edits that
  are checked, and `product_rules.py` says "every mutation". `SavesKeepTheRules` is what
  holds: R16 for every other edit.
- `sessions_family`: a rotation that is under way when its family is revoked, by a
  sign-out or because a token was used twice, commits a live token of that family: the
  copy that the response was meant to end lives on. `FamiliesEndWhole` shows that nothing
  else survives, and that the branches of an earlier race do not.
- `upload_lockout`: the lifetime of a counter is set only by the attempt whose INCR
  returned 1. If that EXPIRE fails, or the process ends before it, the counter counts
  on without one, and past the limit it refuses its address for ever, also when
  Redis has recovered (`rate_limit_service.py` says "a cache outage must not become a
  sign-in outage"). `CounterEnds` and `ServedAgain` show that this is the only way.

Each of these claims is the repository's own, and a run refutes it. The properties of the
passing runs that say what does hold instead name the exception, so that nothing else can
break them: `AcyclicUntilMovesCross`, `ValuesFollowConfiguration` (under `Apart`),
`SavesKeepTheRules`, `FamiliesEndWhole`, `CounterEnds`.

Smaller ones have no run of their own; the exception in a property of a passing run is
the disagreement:

- Depth (`DepthBoundedUntilMovesCross`). The height of a moved subtree is measured before its
  new parent is locked, and a category created below a descendant locks neither; two
  moves can miss one another in the same way. R12 says that the tree has at most six levels.
- Deactivation (`DeactivationEndsSessions`). A sign-in or rotation that has already looked at
  the account commits a token after the deactivation ("a deactivated account must not keep a
  live session anywhere"). Nothing but such a request leaves one, and a request which
  starts later cannot rotate it (`EndedSessionsStayEnded`).
- Deletion of a shop (`DeletionEndsSessions`). A token for the shop is committed between the
  revoking `UPDATE` and the commit; M6 says that every session of the shop is revoked.
- Reuse (`OneLiveTokenPerFamily`). Two requests rotate one token at the same time, both
  succeed, and both new tokens live on unnoticed, although `refresh` is "detecting reuse".
- A lost answer (`NoRowWithoutFile`). If the commit of an upload succeeds and its answer is
  lost, the clean-up path removes the file while the row stays ("never a row that points
  at nothing", and R24).
- A rewritten picture (`KeyHasFile`). `local.py` calls the upload of bytes that are already
  there "a no-op". The file is emptied before it is filled again, so a row's key names a
  partial file meanwhile, and for good if the process ends there. (A deletion and an
  upload of one picture can also end with a key and no file.)
- Foreign keys (`OnlyRacesFail`). `attribute_service.py` says that being in use is "decided by
  an existence query, not by catching a foreign-key error". What attaches or uses an
  attribute between the query and the DELETE makes the foreign key refuse it, which no
  handler maps: a server error instead of the 409. The same goes for options and brands,
  for the rename of a row that is deleted meanwhile, and for a value whose attribute is
  detached. An option created under an attribute that is deleted meanwhile is refused as
  `OptionExists`, and two brands racing for one slug as `BrandExists` although their
  names differ.

Not counted here: a token that is issued in a shop suspended between the two looks at
it. M4 lets the members' sessions live through a suspension, and the token is refused at
its next use.

## What is proved

The theorems hold for every value of the constants that satisfies the modules'
assumptions (`CategoryTreeAssumption`: a finite set of categories, a root that is
none of them, a positive depth; `ProductLifecycleAssumption`: `None` is no id, the
SELECT attributes are attributes; `SessionsAssumption`: `None` is no id, the audiences
are the code's three).

`CategoryTreeProofs`:

- `TypeCorrect`, `LeafRule`, `RowsStayAttached` and `ChecksHoldAtWrite` rest on one
  inductive invariant (`IInv`). Neither rule is inductive alone: that a write keeps
  it needs what the request has checked to be still so, and that needs the locks.
  The invariant has a part for each link of this argument. `WellFormed`: which
  statements a kind of request goes through. `LocksExclude`: a row locked for update
  has one holder, and a locked row is there. `LocksHeld`: past its lock statement a
  request holds the lock. `Learnt`: what a request was told stays true until it
  ends, because whoever would undo it needs the same row.
- `ImplementsCategoryRules`: the initial state maps to the abstract one and each
  step to an operation or a stutter, from the same invariant.
- `NoLoopWithoutTwoMoves`: until two moves have been under way together, no tree of any
  size ever has a loop, whatever creations, deletions, edits and products overlap.
  `category_loop` is thus the only kind of race that closes one. The invariant adds
  `MoveIsSafe`: once a move has looked at the chain of its new parent, the moved category
  is not in it, and no request but a move could put it there. The argument needs no
  induction over the tree: `Acyclic` and `Chain` are stated by closed sets, and a move
  closes a loop exactly when the moved category is in every upward closed set that
  contains the new parent.
- `DepthHoldsWhenMovesAreAlone`: until a move has been under way together with another
  move or with the creation of a child, no category lies deeper than the limit.
  `Measured` says that the height a move has read still bounds its subtree, `Fits` that
  the chain it has read leaves room for it; the chain of a category below the moved one
  is counted as the two parts that meet there.

The last two have no hypothesis on the behaviour. `Crossings`, the invariant of the
history, says that what `crossed` does not name has not happened: as long as it lacks
"loop" one move at most is under way (`OneMove`), as long as it lacks "depth" no move has
another one or the creation of a child beside it (`MoveAlone`).

`ProductLifecycleProofs`: `TypeCorrect`, `ActiveProductsSell`, `VariantsAgree`,
`VariantsHaveProducts`, `DeletedRowsStay` and `ImplementsTheListing`. Here the
inductive invariant says that one request at a time is past the lock of a product
and that an id goes to one creation (`Exclusive`), which steps a request goes through
(`WellFormed`), and what it has established about the rows it is going to change
(`Knows`: its product is live, another active variant remains, the new variant has
the attributes of the others), which no other request changes without the same lock.
The configuration plays no part in it: these proofs hold whatever staff do meanwhile.

`ProductRulesProofs` is about the configuration: `ValuesFollowWhenApart`,
`SavesKeepRulesWhenApart` and `NeverPushedOutWhenApart` state the first three properties of
`product_apart` for every behaviour in which no change of the configuration overlaps
a seller's request (`Apart`). Without that hypothesis the first is false
(`product_config_race`); with it nothing else is needed, although sellers lock no
configuration and staff lock no product. The invariant adds two parts to the one above.
`SellerKnows`: the values or options that a request has validated are valid, and the
product it has found complete will be complete with what it is about to write, because
only staff could change the one and only a request with the same product's lock the
other. `StaffKnows`: an attribute that is about to be detached, or whose flag is about
to change, is still without a value once the first query has said so, and without a use
once the second has, because only sellers use one.

`SessionsProofs`: `TypeCorrect`, `DeactivationIsComplete`, `DeletionIsComplete`,
`RotationReplaces`, `FamiliesAreRevokedWhole`, `MembersComeAndGo`, `NothingIssuedLate` and
`NothingHandedOver`, which state every property the run `sessions` checks, and with
`MembersComeAndGo` one that no run does (`ShopsHaveMembers`: a live shop has a member), all
without a hypothesis on which requests overlap. Nothing is locked here, so what a request
has read may be false by the time it writes; the invariant says how far that goes.

- `Doomed`: for a request that started too late, why it will be refused: its token is
  `Dead`, its account `Barred` or its shop `Closed`, and the statement that would let
  it pass in spite of that one is behind it only if another reason remains. None of
  the three is ever undone (`Onward`), which is why no request beside it can help.
  `EmptyHanded` is the same for a switch whose cookie held a revoked token: it has no
  family to hand on.
- `Chosen`: between the `UPDATE` that chooses the rows and the commit, every live row
  the revocation is for has been chosen, or was not there to be seen (`saw`).
  (Without this part the commit would not be known to end anything.) The commit records
  the latter in `outlived`, and a later commit into what has ended does so itself,
  because a request that is not `late` had started before.
- `Linked`: a token is the first of its family, or was issued in the place of one of the
  same family that is revoked or pruned. `Chained`: unless two tokens took the place of
  one (`Forked`), a family has at most one token that nothing has replaced. Only such a
  token can be live, which is `RotationReplaces`.
- `Reserved`, `WellFormed`: one registration per shop, which steps a kind of request goes
  through and what it carries.

`OthersFit` is the frame: a step that is `Onward` keeps all of this for the requests
beside it, so that each action is left with its own request and the tables.

`ProductImagesProofs` (`ProductImagesAssumption`: `Own` is no variant, `None` no id,
finitely many images, limits are numbers) proves every invariant of its run. The
inductive invariant says that one request at a time is past the product's lock
(`Exclusive`), what it knows by then (`Knows`: the scope is live, the position is the
number of images and below the limit, the stored file is there), and that a file
without a row is in one request's hand only (`Reserved`). Without `Knows` the insertion
would not be known to keep the positions dense or the limit; without `Reserved` another
request's clean-up could take the file that a row is about to name.

`ImageListsProofs` proves `CommitsAreListOperations`, the refinement of `ImageLists`. Where
the code sorts rows by position, the abstract lists are sequences, so the proof first
relates the two: positions that are dense number the images of a scope (`Numbers`), and
a sequence that has each image at its number (`Lined`) is the list of the scope
(`LinedIsList`). That a query ordered by position returns exactly these numbers
(`RankIsPosition`), and after a deletion the numbers with the gap closed (`RankWithout`), is
proved by counting the images below one, not by induction. `AppendLines`, `MoveLines`
and `RemoveLines` are then the three changes of positions on the one side and of
sequences on the other, and each commit is one of them on one scope and leaves the
other lists as they are.

`PicturesProofs` (`RateLimiterAssumption`: some address, a positive limit and window;
`PicturesAssumption`: `None` is no digest) proves the invariants of `pictures`. `Counted`
relates the history `passed` to the counter, also between INCR and EXPIRE, where one
attempt has been counted and not yet passed. `WrittenIsSound` carries the soundness of a
file from the upload that wrote it to the moment it sets the key; a deletion of the
same picture in between is what `torn` records.

`ReferencesProofs` (`ReferencesAssumption`: the kinds of ids are disjoint, slugs are a
function of names) proves every property of its run. For the invariants it suffices
that each write asks the constraints; `Shape` and `Placed` say which requests reach it
and that an id goes to one creation. `OnlyRacesAreFailed` is the theorem about the
queries: `Calm` says that what a request has read still holds as long as nobody has
disturbed it, and each write of a calm request meets no constraint that it has not
asked about. It would fail if a query asked for less than a constraint protects.

Every property of every passing run is stated by a theorem, except `ServedAgain`
(liveness). Only model-checked are that one and the counterexamples. Out of the prover's
reach are liveness, ENABLED and what a recursive definition computes for every input;
the modules use no recursive operator.

## Not modelled, and why

Texts, prices, stock, positions of categories, SKU codes and the slugs of shops and
categories: no rule of the modelled components depends on them except by refusing a
request, which `Rollback` covers (`References` models the lookup of a slug and its index
for brands; the other two are the same statements). Passwords, digests and the encoding of access tokens: data, not
control. Reads that change nothing. Requests with an address or a token that the
database does not know end at once and are not enumerated.

Deadlocks that PostgreSQL ends by rolling one transaction back (two moves, an exchange
of SKU codes, the cascade of an attribute's deletion against the insertion of a value):
the victim is a `Rollback` or `Abort`, and no service retries it. The caches of clients
in front of `api/v1/media.py`. Image decoding: a function of bytes. The failure of a
local disk in the middle of a file other than by the end of the process.

## Plan

Done: the category tree, products and variants, sessions, product images, pictures with
the rate limiter, reference data. Left, in this order:

1. Composition of `ProductLifecycle` with `CategoryTree` and `References` at the creation
   of a product and the change of a configuration.
2. The slugs of shops and categories.
