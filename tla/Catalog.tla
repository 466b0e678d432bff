------------------------------ MODULE Catalog ------------------------------
(***************************************************************************)
(* Categories and tags.  Categories form a hierarchy: a category may have  *)
(* a parent, which must be active and accept the kind of its child.        *)
(*                                                                         *)
(* A request that writes a category takes row locks one after another:     *)
(* that of the category, then those of its ancestors up to the root.       *)
(* Between two of them other requests run, so each lock is a step of its   *)
(* own, with the reads that follow it.  A lock is held until the           *)
(* transaction ends.  Two requests that wait for each other are a deadlock *)
(* of the database, which ends one of them with an error.                  *)
(*                                                                         *)
(* Posting a transaction reads its category without a lock, and commits    *)
(* later.  Tags are single rows, and a request on one is one step.         *)
(*                                                                         *)
(* Names stand for what normalization makes of them.                       *)
(***************************************************************************)
EXTENDS Integers, FiniteSets, RowLocks

CONSTANTS
    Categories,    \* identifiers of categories
    Tags,          \* identifiers of tags
    Names,         \* normalized names of categories
    TagNames,      \* normalized names of tags
    Requests,      \* what the clients may ask for
    Postings,      \* the entries they may post: a category and a kind
    Seeds,         \* the categories every user starts with: identifier to name and kind
    MaxVersion     \* bound: from this version on, no client updates an entry

Kinds == {"EXPENSE", "INCOME", "BOTH"}

Category == [name : Names, kind : Kinds, parent : Categories \cup {None},
             archived : BOOLEAN, version : Nat \ {0}]
Tag      == [name : TagNames, archived : BOOLEAN, version : Nat \ {0}]

\* A client that updates an entry names the version of the row it has, so it
\* knows the values it leaves as they are.  A new entry has version 0 here.
Request == [child : Categories, version : Nat, name : Names, kind : Kinds,
            parent : Categories \cup {None}, archived : BOOLEAN]

ASSUME NoneAssumption     == None \notin Categories
ASSUME RequestsAssumption == /\ Requests \subseteq Request
                             /\ \A r \in Requests : r.version = 0 => ~r.archived
ASSUME PostingsAssumption == Postings \subseteq Categories \X {"EXPENSE", "INCOME"}
ASSUME SeedsAssumption    == /\ DOMAIN Seeds \subseteq Categories
                             /\ \A c \in DOMAIN Seeds : Seeds[c] \in [name : Names, kind : Kinds]
ASSUME MaxVersionAssumption == MaxVersion \in Nat

NoEntry == [version |-> 0]

VARIABLES
    categories,   \* the categories table
    tags,         \* the tags table
    history,      \* for each category, the kinds of the entries posted to it
    overlapped    \* the categories to which one posted while another changed them (history)
cvars == <<categories, tags, history, overlapped, work>>

-----------------------------------------------------------------------------
(* Policies *)

Exists(c) == categories[c] # NoEntry
Active(c) == Exists(c) /\ ~categories[c].archived

\* A parent takes children of its own kind, and one of both kinds takes them all.
ParentAccepts(parentKind, childKind) == parentKind \in {"BOTH", childKind}

\* Likewise for the entries of a category.
CategoryAccepts(categoryKind, kind) == categoryKind \in {"BOTH", kind}

HasActiveChildren(c) == \E d \in Categories : Active(d) /\ categories[d].parent = c

MutForgetsHistory(c, kind) == FALSE

HasIncompatibleHistory(c, kind) == \E k \in history[c] : ~CategoryAccepts(kind, k)

Rollback(c) == /\ work' = [work EXCEPT ![c] = Idle]
               /\ UNCHANGED <<categories, tags, history, overlapped>>

-----------------------------------------------------------------------------
(* Creating and updating a category *)

\* Create starts at the parent, update at the category.
Begin(c, r) ==
    /\ ~InTransaction(c)
    /\ r.version < MaxVersion
    /\ work' = [work EXCEPT ![c] =
                  [op |-> "write", request |-> r, holds |-> {},
                   wants |-> IF r.version = 0 THEN r.parent ELSE r.child]]
    /\ UNCHANGED <<categories, tags, history, overlapped>>

\* What the category must be like for its own update.
MayChange(r) ==
    LET row == categories[r.child]
    IN  /\ row # NoEntry
        /\ row.version = r.version
        /\ r.kind # row.kind \/ r.archived => ~HasActiveChildren(r.child)
        /\ r.kind # row.kind => ~HasIncompatibleHistory(r.child, r.kind)
        /\ r.parent # r.child

\* What the parent must be like.
MayParent(r) == Active(r.parent) /\ ParentAccepts(categories[r.parent].kind, r.kind)

MutMeetsItself(r, c, holds) == holds = holds

\* No ancestor is the category itself, or was met before.
NoCycle(r, c, holds) == categories[c].parent \notin holds \cup {r.child}

MutLocksParentOnly(r, c) == IF c = r.child THEN r.parent ELSE None

\* The next row to lock after c: the parent asked for, then the parents they have.
NextLock(r, c) == IF c = r.child THEN r.parent ELSE categories[c].parent

MayGoOn(c) ==
    LET r == work[c].request
        x == work[c].wants
    IN  IF x = r.child THEN MayChange(r)
        ELSE /\ Exists(x)
             /\ x = r.parent => MayParent(r)
             /\ NoCycle(r, x, work[c].holds)

Locking(c) == work[c].op = "write" /\ work[c].wants # None /\ CanLock(c)

\* Lock a row, read it and decide.
Lock(c) ==
    /\ Locking(c) /\ MayGoOn(c)
    /\ work' = [work EXCEPT ![c].holds = @ \cup {work[c].wants},
                            ![c].wants = NextLock(work[c].request, work[c].wants)]
    /\ UNCHANGED <<categories, tags, history, overlapped>>

\* A refusal ends the transaction.
Refuse(c) == Locking(c) /\ ~MayGoOn(c) /\ Rollback(c)

\* The database ends a transaction that takes part in a deadlock.
AbortDeadlock(c) == InTransaction(c) /\ Deadlocked(c) /\ Rollback(c)

Writing(c) == work[c].op = "write" /\ work[c].wants = None

\* The unique indexes: one row per identifier, one active row per name.
Unique(r) ==
    /\ r.version = 0 => ~Exists(r.child)
    /\ ~r.archived => \A d \in Categories \ {r.child} : Active(d) => categories[d].name # r.name

\* With every lock in hand, write the row and commit.
Write(c) ==
    LET r == work[c].request
    IN  /\ Writing(c) /\ Unique(r)
        /\ categories' = [categories EXCEPT ![r.child] =
                            [name |-> r.name, kind |-> r.kind, parent |-> r.parent,
                             archived |-> r.archived, version |-> r.version + 1]]
        /\ overlapped' = overlapped \cup
                {x \in {r.child} : \E d \in Clients : work[d].op = "post" /\ work[d].entry[1] = x}
        /\ work' = [work EXCEPT ![c] = Idle]
        /\ UNCHANGED <<tags, history>>

RefuseWrite(c) == Writing(c) /\ ~Unique(work[c].request) /\ Rollback(c)

-----------------------------------------------------------------------------
(* Posting an entry of a category *)

ReadCategory(c, p) ==
    /\ ~InTransaction(c)
    /\ Active(p[1]) /\ CategoryAccepts(categories[p[1]].kind, p[2])
    /\ work' = [work EXCEPT ![c] = [op |-> "post", entry |-> p, holds |-> {}, wants |-> None]]
    /\ UNCHANGED <<categories, tags, history, overlapped>>

CommitPost(c) ==
    /\ work[c].op = "post"
    /\ history' = [history EXCEPT ![work[c].entry[1]] = @ \cup {work[c].entry[2]}]
    /\ overlapped' = overlapped \cup
            {x \in {work[c].entry[1]} : \E d \in Clients : x \in work[d].holds}
    /\ work' = [work EXCEPT ![c] = Idle]
    /\ UNCHANGED <<categories, tags>>

-----------------------------------------------------------------------------
(* Tags *)

TagNameFree(t, name) == \A u \in Tags \ {t} :
                            tags[u] # NoEntry /\ ~tags[u].archived => tags[u].name # name

CreateTag(t, name) ==
    /\ tags[t] = NoEntry /\ TagNameFree(t, name)
    /\ tags' = [tags EXCEPT ![t] = [name |-> name, archived |-> FALSE, version |-> 1]]
    /\ UNCHANGED <<categories, history, overlapped, work>>

UpdateTag(t, v, name, archived) ==
    /\ tags[t] # NoEntry /\ tags[t].version = v /\ v < MaxVersion
    /\ archived \/ TagNameFree(t, name)
    /\ tags' = [tags EXCEPT ![t] = [name |-> name, archived |-> archived, version |-> v + 1]]
    /\ UNCHANGED <<categories, history, overlapped, work>>

-----------------------------------------------------------------------------
(* The specification *)

\* A registered user has the default categories, all of them roots.
CInit ==
    /\ categories = [c \in Categories |->
                       IF c \in DOMAIN Seeds
                       THEN [name |-> Seeds[c].name, kind |-> Seeds[c].kind, parent |-> None,
                             archived |-> FALSE, version |-> 1]
                       ELSE NoEntry]
    /\ tags = [t \in Tags |-> NoEntry]
    /\ history = [c \in Categories |-> {}]
    /\ overlapped = {}
    /\ work = [c \in Clients |-> Idle]

\* What the server does for an open transaction.
Serve(c) == Lock(c) \/ Refuse(c) \/ AbortDeadlock(c) \/ Write(c) \/ RefuseWrite(c) \/ CommitPost(c)

CategoryNext == \E c \in Clients, r \in Requests : Begin(c, r)

PostNext == \E c \in Clients, p \in Postings : ReadCategory(c, p)

TagNext == \E t \in Tags, name \in TagNames :
               \/ CreateTag(t, name)
               \/ \E v \in 1 .. MaxVersion, archived \in BOOLEAN : UpdateTag(t, v, name, archived)

CNext == (\E c \in Clients : Serve(c)) \/ CategoryNext \/ PostNext \/ TagNext

\* The database grants a row lock in the order of the requests for it.
CSpec == CInit /\ [][CNext]_cvars /\ \A c \in Clients : SF_cvars(Serve(c))

-----------------------------------------------------------------------------
(* Properties *)

\* Categories are well formed, and only categories are locked or waited for.
CTypeOK ==
    /\ categories \in [Categories -> Category \cup {NoEntry}]
    /\ \A c \in Clients : /\ work[c].holds \subseteq Categories
                         /\ work[c].wants \in Categories \cup {None}

\* The hierarchy has no cycle, though requests move categories under one another
\* at the same time, each seeing only the rows it has locked: no set of categories
\* has all its parents within itself.
NoCategoryCycle ==
    ~\E S \in SUBSET Categories :
        S # {} /\ \A c \in S : Exists(c) /\ categories[c].parent \in S

\* An active category sits under an active one that accepts its kind, though the
\* parent may be archived or change its kind while a child is being added.
ActiveUnderActive ==
    \A c \in Categories : Active(c) /\ categories[c].parent # None =>
        LET p == categories[c].parent
        IN  Active(p) /\ ParentAccepts(categories[p].kind, categories[c].kind)

\* Every request comes to an end, in spite of the locks it waits for.
RequestsEnd == \A c \in Clients : InTransaction(c) ~> ~InTransaction(c)

\* docs/business-rules.md, Categories and tags: "kind changes cannot contradict
\* posted history".  The sentence has no exception, the code has one: the entries of a
\* category agree with its kind unless one was posted while the category was being
\* changed, because posting takes no lock on it.  What is left is that a change looks at
\* all of the history, whatever other changes are under way.
KindAgreesWithHistory ==
    \A c \in Categories \ overlapped :
        \A k \in history[c] : CategoryAccepts(categories[c].kind, k)
=============================================================================
