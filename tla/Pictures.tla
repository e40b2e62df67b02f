------------------------------- MODULE Pictures -------------------------------
(***************************************************************************)
(* One account's avatar or one shop's background: a key in the owner's row *)
(* and the files of the storage, behind the rate limiter.  (The handlers   *)
(* of the two are the same statement by statement.)                        *)
(*                                                                         *)
(* A file is named by the digest of its bytes, so that the same picture    *)
(* uploaded again is written over the file that is there; the file of the  *)
(* picture before is left in place.  An upload writes its file before it   *)
(* sets the key, a deletion removes the file of the key it has read before *)
(* it clears the key, and no lock keeps two requests apart.                *)
(***************************************************************************)
EXTENDS RateLimiter

CONSTANTS
    Digest,     \* the pictures that are uploaded
    None        \* no picture

ASSUME PicturesAssumption == None \notin Digest

VARIABLES
    key,        \* users.avatar_key or shops.background_key
    file,       \* what the storage holds for each digest
    torn,       \* history: the files that a request was cut off from finishing,
                \* or that were removed under an upload
    tx          \* what each request has still to do and has read so far

pictureVars == <<key, file, torn, tx>>
vars == <<limiterVars, pictureVars>>

-----------------------------------------------------------------------------
Idle == [pc |-> "idle", digest |-> None, seen |-> None]

Transactions ==
    [pc : {"idle", "gate", "write", "get", "set", "unlink", "clear"},
     digest : Digest \cup {None}, seen : Digest \cup {None}]

Init ==
    /\ LimiterInit
    /\ key = None
    /\ file = [d \in Digest |-> "absent"]
    /\ torn = {}
    /\ tx = [r \in Request |-> Idle]

At(r, point) == tx[r].pc = point
Goto(r, point) == tx' = [tx EXCEPT ![r].pc = point]

\* The request is over, in the limiter too.
End(r) == tx' = [tx EXCEPT ![r] = Idle] /\ Leave(r)

\* The uploads of picture d that have opened its file, and those that have
\* written it and have still to set the key.
Writing(d) == {r \in Request : At(r, "write") /\ tx[r].digest = d}
Written(d) == {r \in Request : (At(r, "get") \/ At(r, "set")) /\ tx[r].digest = d}

-----------------------------------------------------------------------------
(* An upload.                                                              *)

BeginUpload(r) ==
    /\ At(r, "idle")
    /\ \E h \in Host : Ask(r, h)
    /\ \E d \in Digest : tx' = [tx EXCEPT ![r] = [Idle EXCEPT !.pc = "gate", !.digest = d]]
    /\ UNCHANGED <<key, file, torn>>

Gate(r) == (Count(r) \/ SetLifetime(r)) /\ UNCHANGED pictureVars

Refuse(r) ==
    /\ InGate(r, "refused")
    /\ End(r)
    /\ UNCHANGED <<key, file, torn>>

\* LocalStorageBackend.put: the file is opened, and emptied if it was there.
Open(r) ==
    /\ At(r, "gate") /\ InGate(r, "open")
    /\ file' = [file EXCEPT ![tx[r].digest] = "partial"]
    /\ Goto(r, "write") /\ Leave(r)
    /\ UNCHANGED <<key, torn>>

\* The bytes are written.  With another writer of the file in the middle they
\* need not all be there yet.
Write(r) ==
    /\ At(r, "write")
    /\ LET d == tx[r].digest IN
       \/ /\ file' = [file EXCEPT ![d] = "whole"]
          /\ torn' = torn \ {d}
       \/ Writing(d) # {r} /\ UNCHANGED <<file, torn>>
    /\ Goto(r, "get")
    /\ UNCHANGED <<limiterVars, key>>

\* set_avatar, set_shop_background: get_user, get_shop.
Get(r) ==
    /\ At(r, "get")
    /\ tx' = [tx EXCEPT ![r].pc = "set", ![r].seen = key]
    /\ UNCHANGED <<limiterVars, key, file, torn>>

\* Mutant: the file of the key before goes.
SetKeyAndRemoveOld(r) ==
    /\ At(r, "set")
    /\ key' = tx[r].digest
    /\ file' = [d \in Digest |->
                  IF d = tx[r].seen /\ d # tx[r].digest THEN "absent" ELSE file[d]]
    /\ End(r)
    /\ UNCHANGED torn

\* The flush and the commit.  A key that is what the session has read is no
\* change, and is not written.
SetKey(r) ==
    /\ At(r, "set")
    /\ key' = IF tx[r].seen = tx[r].digest THEN key ELSE tx[r].digest
    /\ End(r)
    /\ UNCHANGED <<file, torn>>

-----------------------------------------------------------------------------
(* A deletion.                                                             *)

\* delete_avatar, delete_background: get_user, active_shop.
BeginDeletion(r) ==
    /\ At(r, "idle")
    /\ tx' = [tx EXCEPT ![r] = [Idle EXCEPT !.pc = IF key = None THEN "clear" ELSE "unlink",
                                            !.seen = key]]
    /\ UNCHANGED <<limiterVars, key, file, torn>>

\* media.delete.  An upload that has the file open writes on where no one will
\* read, and is as good as through.
Unlink(r) ==
    /\ At(r, "unlink")
    /\ LET d == tx[r].seen IN
       /\ file' = [file EXCEPT ![d] = "absent"]
       /\ torn' = IF Writing(d) \cup Written(d) # {} THEN torn \cup {d} ELSE torn
       /\ tx' = [q \in Request |->
                   IF q = r THEN [tx[r] EXCEPT !.pc = "clear"]
                   ELSE IF q \in Writing(d) THEN [tx[q] EXCEPT !.pc = "get"]
                   ELSE tx[q]]
    /\ UNCHANGED <<limiterVars, key>>

\* Mutant: the column is emptied, not set to null.
EmptyKey(r) ==
    /\ At(r, "clear")
    /\ key' = IF tx[r].seen = None THEN key ELSE ""
    /\ End(r)
    /\ UNCHANGED <<file, torn>>

\* set_avatar, set_shop_background and the commit: the row is the one that the
\* session already holds, and a key it has read as null is not written.
ClearKey(r) ==
    /\ At(r, "clear")
    /\ key' = IF tx[r].seen = None THEN key ELSE None
    /\ End(r)
    /\ UNCHANGED <<file, torn>>

-----------------------------------------------------------------------------
\* The process dies, the storage or the database fails, or a check refuses the
\* request.
Abort(r) ==
    /\ ~At(r, "idle")
    /\ End(r)
    /\ torn' = IF At(r, "write") THEN torn \cup {tx[r].digest}
               ELSE IF At(r, "clear") /\ tx[r].seen # None THEN torn \cup {tx[r].seen}
               ELSE torn
    /\ UNCHANGED <<key, file>>

Step(r) ==
    \/ BeginUpload(r) \/ Gate(r) \/ Refuse(r) \/ Open(r) \/ Write(r) \/ Get(r) \/ SetKey(r)
    \/ BeginDeletion(r) \/ Unlink(r) \/ ClearKey(r) \/ Abort(r)

Next == (Tick /\ UNCHANGED pictureVars) \/ \E r \in Request : Step(r)

Spec == Init /\ [][Next]_vars

\* Redis counts lifetimes down, and a handler that waits for Redis is resumed
\* with its answer or its failure.
Fairness ==
    /\ WF_vars(Tick /\ UNCHANGED pictureVars)
    /\ \A r \in Request : WF_vars(Gate(r))

FairSpec == Spec /\ Fairness

-----------------------------------------------------------------------------
(* Properties.                                                             *)

\* Every variable keeps its shape.
TypeOK ==
    /\ LimiterTypeOK
    /\ key \in Digest \cup {None}
    /\ file \in [Digest -> {"absent", "partial", "whole"}]
    /\ torn \in SUBSET Digest
    /\ tx \in [Request -> Transactions]

\* A key names a whole file, except while its picture is being written over or
\* deleted, and after such an upload or deletion was cut off or overtook an
\* upload of the same picture.
KeyHasFile ==
    key # None =>
        \/ file[key] = "whole"
        \/ key \in torn
        \/ Writing(key) # {}
        \/ \E r \in Request : At(r, "clear") /\ tx[r].seen = key
=============================================================================
