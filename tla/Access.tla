------------------------------- MODULE Access -------------------------------
(***************************************************************************)
(* The private media of a user and the erasure of the profile, beside the  *)
(* sessions of the devices.                                                *)
(*                                                                         *)
(* A media asset is a row and an object in the storage.  The upload is     *)
(* reserved (a pending row, and a signed URL that lives for five minutes), *)
(* the client puts the object straight into the storage, and the upload    *)
(* is finalized once the server has seen the object.  A deletion removes   *)
(* the object first and the row when the transaction commits; in between   *)
(* the server may die and the database may refuse.                         *)
(*                                                                         *)
(* The erasure of a profile locks the row of the user, removes the         *)
(* objects, and deletes the user with every row that refers to it.  The    *)
(* other requests lock a row of their own first and need the user's last:  *)
(* the opposite order, so a deadlock is possible, and the database ends    *)
(* one of the two.  Any transaction can fail like that at any time.        *)
(***************************************************************************)
EXTENDS Sessions, FiniteSets

CONSTANT Media   \* identifiers of media assets

ASSUME MediaAssumption == (Media \cap (SessionIds \cup {User, None})) = {}

VARIABLES
    assets,    \* the media_assets table: the status of each, or none, or gone
    objects,   \* the assets whose object is in the storage
    urls,      \* the assets whose upload URL is alive
    asked,     \* the assets somebody began to remove (history)
    raced      \* the assets whose URL was alive at their last removal (history)
avars == <<svars, assets, objects, urls, asked, raced>>
media == <<assets, objects, urls, asked, raced>>
session == <<user, sessions, wallet, origin, ended, lost>>

Rows == {m \in Media : assets[m] \in {"PENDING", "FINALIZED"}}

Start(c, op, row) ==
    /\ ~InTransaction(c)
    /\ work' = [work EXCEPT ![c] = [op |-> op, row |-> row, step |-> "lock", for |-> None,
                                    holds |-> {}, wants |-> row]]
    /\ UNCHANGED <<session, media>>

\* The transaction goes on to its next step, having locked what it wanted.
Goes(c, step, wants) ==
    work' = [work EXCEPT ![c].step = step, ![c].wants = wants,
                         ![c].holds = @ \cup ({work[c].wants} \ {None})]

At(c, op, step) == work[c].op = op /\ work[c].step = step

-----------------------------------------------------------------------------
(* Uploads *)

Reserve(m) ==
    /\ UserFree /\ assets[m] = "NONE"
    /\ assets' = [assets EXCEPT ![m] = "PENDING"]
    /\ urls' = urls \cup {m}
    /\ UNCHANGED <<svars, objects, asked, raced>>

\* The client uploads, perhaps long after it asked for the URL.
Put(m) ==
    /\ m \in urls /\ m \notin objects
    /\ objects' = objects \cup {m}
    /\ UNCHANGED <<svars, assets, urls, asked, raced>>

ExpireUrl(m) ==
    /\ m \in urls
    /\ urls' = urls \ {m}
    /\ UNCHANGED <<svars, assets, objects, asked, raced>>

Uploaded(m) == m \in objects

\* Lock the row, and look at the object unless that was done before.
Inspect(c) ==
    /\ At(c, "finalize", "lock") /\ CanLock(c)
    /\ work[c].row \in Rows
    /\ assets[work[c].row] = "FINALIZED" \/ Uploaded(work[c].row)
    /\ Goes(c, "commit", User)
    /\ UNCHANGED <<session, media>>

CommitFinalize(c) ==
    /\ At(c, "finalize", "commit") /\ CanLock(c) /\ user = "ACTIVE"
    /\ assets' = [assets EXCEPT ![work[c].row] = "FINALIZED"]
    /\ Rollback(c)
    /\ UNCHANGED <<session, objects, urls, asked, raced>>

-----------------------------------------------------------------------------
(* Deletion *)

LockForDelete(c) ==
    /\ At(c, "delete", "lock") /\ CanLock(c) /\ work[c].row \in Rows
    /\ Goes(c, "remove", None)
    /\ UNCHANGED <<session, media>>

\* The storage removes objects at once, whatever becomes of the transaction.
RemoveObjects(gone) == objects' = objects \ gone

\* The assets whose removal began, and those removed that can still be uploaded.
Asked(rows, gone) ==
    /\ asked' = asked \cup rows
    /\ raced' = (raced \ gone) \cup (gone \cap urls)

\* The object goes first.
Remove(c) ==
    /\ At(c, "delete", "remove")
    /\ RemoveObjects({work[c].row}) /\ Asked({work[c].row}, {work[c].row})
    /\ Goes(c, "commit", User)
    /\ UNCHANGED <<session, assets, urls>>

DropRows(gone) == assets' = [m \in Media |-> IF m \in gone THEN "GONE" ELSE assets[m]]

CommitDelete(c) ==
    /\ At(c, "delete", "commit") /\ CanLock(c) /\ user = "ACTIVE"
    /\ DropRows({work[c].row})
    /\ Rollback(c)
    /\ UNCHANGED <<session, objects, urls, asked, raced>>

-----------------------------------------------------------------------------
(* Erasure of the profile *)

MutFinalizedKeys == {m \in Media : assets[m] = "FINALIZED"}

Keys == Rows

\* The row of the user is locked, and then the keys of the objects are read.
LockUser(c) ==
    /\ At(c, "erase", "lock") /\ CanLock(c) /\ user = "ACTIVE"
    /\ work' = [work EXCEPT ![c].step = "remove", ![c].holds = {User}, ![c].wants = None,
                            ![c].row = Keys]
    /\ UNCHANGED <<session, media>>

\* The storage may remove a part of the objects and fail, which ends the transaction.
RemoveAll(c) ==
    /\ At(c, "erase", "remove")
    /\ \E gone \in SUBSET work[c].row :
          /\ RemoveObjects(gone) /\ Asked(work[c].row, gone)
          /\ IF gone = work[c].row THEN Goes(c, "cascade", None) ELSE Rollback(c)
    /\ UNCHANGED <<session, assets, urls>>

LockedByOthers(c) == UNION {work[d].holds : d \in Clients \ {c}}

\* The deletion waits for the rows that others have locked.
WaitForRow(c) ==
    /\ At(c, "erase", "cascade")
    /\ work[c].wants \notin LockedByOthers(c)
    /\ \E x \in LockedByOthers(c) : work' = [work EXCEPT ![c].wants = x]
    /\ UNCHANGED <<session, media>>

EraseProfile(c) ==
    /\ At(c, "erase", "cascade") /\ LockedByOthers(c) = {}
    /\ user' = "GONE"
    /\ sessions' = [s \in SessionIds |-> NoSession]
    /\ origin' = [s \in SessionIds |-> None]
    /\ DropRows(Rows)
    /\ Rollback(c)
    /\ UNCHANGED <<wallet, ended, lost, objects, urls, asked, raced>>

-----------------------------------------------------------------------------
(* The specification *)

\* A row that is missing, an object that is not there, a refusal of the database,
\* a deadlock, a restart of the server.
Fail(c) ==
    /\ work[c].op \in {"finalize", "delete", "erase"}
    /\ Rollback(c)
    /\ UNCHANGED <<session, media>>

AInit ==
    /\ SessionInit
    /\ assets = [m \in Media |-> "NONE"]
    /\ objects = {} /\ urls = {} /\ asked = {} /\ raced = {}

MediaNext ==
    \/ \E m \in Media : \/ Reserve(m) \/ Put(m) \/ ExpireUrl(m)
                        \/ \E c \in Clients : Start(c, "finalize", m) \/ Start(c, "delete", m)
    \/ \E c \in Clients : Inspect(c) \/ CommitFinalize(c) \/ LockForDelete(c) \/ Remove(c)
                          \/ CommitDelete(c) \/ Fail(c)

EraseNext ==
    \E c \in Clients : Start(c, "erase", User) \/ LockUser(c) \/ RemoveAll(c) \/ WaitForRow(c)
                       \/ EraseProfile(c)

ANext == (SessionNext /\ UNCHANGED media) \/ MediaNext \/ EraseNext

ASpec == AInit /\ [][ANext]_avars

-----------------------------------------------------------------------------
(* Properties *)

\* Once the user is gone nothing of the profile is left in the database, and nothing
\* comes back: not a session whose rotation was under way, nor an asset that was being
\* finalized.
ErasureIsComplete ==
    user = "GONE" => Rows = {} /\ \A s \in SessionIds : sessions[s] = NoSession

\* A finalized asset has its object, unless somebody began to remove it and the
\* transaction failed after the object was gone.
FinalizedHasObject ==
    \A m \in Media : assets[m] = "FINALIZED" => m \in objects \/ m \in asked

\* No object outlives its row, unless an upload URL outlived it: not when deletions,
\* finalizations and an erasure of the profile interrupt each other.
NoOrphanObject == \A m \in objects : assets[m] = "GONE" => m \in raced

\* The storage and the table of assets agree, though one changes at once and the other
\* with the transaction: neither has what the other lacks, but for those two cases.
ObjectsMatchRows == FinalizedHasObject /\ NoOrphanObject
=============================================================================
