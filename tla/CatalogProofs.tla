--------------------------- MODULE CatalogProofs ---------------------------
(***************************************************************************)
(* Proofs about Catalog: the hierarchy of categories has no cycle, an      *)
(* active category sits under an active one, and the kind of a category    *)
(* agrees with its entries unless one was posted while it changed, for     *)
(* every number of categories and of requests that move them at once.      *)
(***************************************************************************)
EXTENDS Catalog, TLAPS

-----------------------------------------------------------------------------
(* The inductive invariant *)

Transactions ==
    [op : {"write"}, request : Requests, holds : SUBSET Categories,
     wants : Categories \cup {None}]
      \cup [op : {"post"}, entry : Postings, holds : {{}}, wants : {None}]
      \cup {Idle}

Types ==
    /\ categories \in [Categories -> Category \cup {NoEntry}]
    /\ work \in [Clients -> Transactions]

\* Locks are exclusive, and only rows are locked.
LocksExclusive ==
    /\ \A c, d \in Clients : c # d => work[c].holds \cap work[d].holds = {}
    /\ \A c \in Clients : \A x \in work[c].holds : Exists(x)

\* What a request found when it locked its category, without the history of its
\* entries, which no lock protects.
StillMayChange(r) ==
    LET row == categories[r.child]
    IN  /\ row.version = r.version
        /\ r.kind # row.kind \/ r.archived => ~HasActiveChildren(r.child)
        /\ r.parent # r.child

\* What a request that holds H and wants w has found is still so: the rows above
\* its parent lead from one to the next without meeting the category itself.
Walked(r, H, w) ==
    /\ r.child \in H => StillMayChange(r) /\ w # r.child
    /\ r.parent \in H => MayParent(r)
    /\ r.version # 0 => r.child \in H \/ (H = {} /\ w = r.child)
    /\ r.parent \in H \cup {None, w} \/ (H = {} /\ w = r.child)
    /\ \A h \in H \ {r.child} :
          categories[h].parent # r.child /\ categories[h].parent \in H \cup {w}

\* c has a write open, for the request r.
Doing(c, r, H, w) ==
    work[c] = [op |-> "write", request |-> r, holds |-> H, wants |-> w]

AllWalked ==
    \A c \in Clients, r \in Requests, H \in SUBSET Categories, w \in Categories \cup {None} :
        Doing(c, r, H, w) => Walked(r, H, w)

TreeInv == Types /\ LocksExclusive /\ AllWalked /\ NoCategoryCycle /\ ActiveUnderActive

LEMMA Writes ==
    ASSUME Types, NEW c \in Clients, work[c].op = "write"
    PROVE  \E r \in Requests, H \in SUBSET Categories, w \in Categories \cup {None} :
              Doing(c, r, H, w)
BY DEF Types, Transactions, Idle, Doing

-----------------------------------------------------------------------------
(* Steps that write no category *)

LEMMA SameTree ==
    ASSUME UNCHANGED categories
    PROVE  /\ NoCategoryCycle => NoCategoryCycle'
           /\ ActiveUnderActive => ActiveUnderActive'
           /\ \A x : Exists(x)' <=> Exists(x)
           /\ \A r, H, w : Walked(r, H, w) => Walked(r, H, w)'
<1>1. \A x : (Exists(x)' <=> Exists(x)) /\ (Active(x)' <=> Active(x))
    BY DEF Exists, Active
<1>2. NoCategoryCycle => NoCategoryCycle'
    BY DEF NoCategoryCycle, Exists
<1>3. ActiveUnderActive => ActiveUnderActive'
    BY <1>1 DEF ActiveUnderActive
<1>4. ASSUME NEW r, NEW H, NEW w, Walked(r, H, w)
      PROVE  Walked(r, H, w)'
    <2>1. StillMayChange(r) => StillMayChange(r)'
        BY <1>1 DEF StillMayChange, HasActiveChildren
    <2>2. MayParent(r) => MayParent(r)'
        BY <1>1 DEF MayParent
    <2> QED
        BY <1>4, <2>1, <2>2 DEF Walked
<1> QED
    BY <1>1, <1>2, <1>3, <1>4

LEMMA Moved ==
    ASSUME TreeInv, UNCHANGED categories, NEW c \in Clients,
           NEW new \in Transactions, work' = [work EXCEPT ![c] = new],
           \A d \in Clients \ {c} : new.holds \cap work[d].holds = {},
           \A x \in new.holds : Exists(x),
           \A r \in Requests, H \in SUBSET Categories, w \in Categories \cup {None} :
              new = [op |-> "write", request |-> r, holds |-> H, wants |-> w] => Walked(r, H, w)
    PROVE  TreeInv'
<1>1. work'[c] = new /\ \A d \in Clients \ {c} : work'[d] = work[d]
    BY DEF TreeInv, Types
<1>2. Types'
    BY DEF TreeInv, Types
<1>3. LocksExclusive'
    BY <1>1, SameTree DEF TreeInv, LocksExclusive
<1>4. AllWalked'
    BY <1>1, SameTree DEF TreeInv, AllWalked, Doing
<1> QED
    BY <1>2, <1>3, <1>4, SameTree DEF TreeInv

LEMMA Ended ==
    ASSUME TreeInv, NEW c \in Clients, UNCHANGED categories, work' = [work EXCEPT ![c] = Idle]
    PROVE  TreeInv'
<1>1. Idle \in Transactions /\ Idle.holds = {} /\ Idle.op # "write"
    BY DEF Idle, Transactions
<1>2. \A r, H, w : Idle # [op |-> "write", request |-> r, holds |-> H, wants |-> w]
    BY DEF Idle
<1> QED
    BY <1>1, <1>2, Moved

LEMMA Posting ==
    ASSUME TreeInv, NEW c \in Clients, NEW p \in Postings, ReadCategory(c, p)
    PROVE  TreeInv'
<1> DEFINE new == [op |-> "post", entry |-> p, holds |-> {}, wants |-> None]
<1>1. new \in Transactions /\ new.holds = {} /\ new.op # "write"
    BY DEF Transactions
<1>2. UNCHANGED categories /\ work' = [work EXCEPT ![c] = new]
    BY DEF ReadCategory
<1>3. \A r, H, w : new # [op |-> "write", request |-> r, holds |-> H, wants |-> w]
    OBVIOUS
<1> HIDE DEF new
<1> QED
    BY <1>1, <1>2, <1>3, Moved

LEMMA BeginStep ==
    ASSUME TreeInv, NEW c \in Clients, NEW r \in Requests, Begin(c, r)
    PROVE  TreeInv'
<1> DEFINE x   == IF r.version = 0 THEN r.parent ELSE r.child
           new == [op |-> "write", request |-> r, holds |-> {}, wants |-> x]
<1>1. x \in Categories \cup {None}
    BY RequestsAssumption DEF RequestsAssumption, Request
<1>2. UNCHANGED categories /\ work' = [work EXCEPT ![c] = new]
    BY DEF Begin
<1>3. Walked(r, {}, x)
    BY DEF Walked
<1> HIDE DEF x
<1>4. new \in Transactions /\ new.holds = {}
    BY <1>1 DEF Transactions
<1>5. \A q, H, w : new = [op |-> "write", request |-> q, holds |-> H, wants |-> w]
                      => q = r /\ H = {} /\ w = x
    OBVIOUS
<1>6. \A q, H, w : new = [op |-> "write", request |-> q, holds |-> H, wants |-> w]
                      => Walked(q, H, w)
    BY <1>3, <1>5
<1> HIDE DEF new
<1> QED
    BY <1>2, <1>4, <1>6, Moved

LEMMA LockStep ==
    ASSUME TreeInv, NEW c \in Clients, Lock(c)
    PROVE  TreeInv'
<1>1. PICK r \in Requests, H \in SUBSET Categories, x \in Categories \cup {None} :
         Doing(c, r, H, x)
    BY Writes DEF Lock, Locking, TreeInv
<1>2. work[c].request = r /\ work[c].holds = H /\ work[c].wants = x
    BY <1>1 DEF Doing
<1>3. /\ r \in Request /\ x \in Categories /\ None \notin Categories
      /\ \A d \in Clients \ {c} : x \notin work[d].holds
    BY <1>2, RequestsAssumption, NoneAssumption
    DEF Lock, Locking, CanLock, RequestsAssumption, NoneAssumption
<1>4. Walked(r, H, x)
    BY <1>1 DEF TreeInv, AllWalked
<1>5. MayGoOn(c)
    BY DEF Lock
<1>6. Exists(x) /\ categories[x] \in Category
    BY <1>2, <1>3, <1>5 DEF MayGoOn, MayChange, Exists, TreeInv, Types
<1> DEFINE next == NextLock(r, x)
           new  == [op |-> "write", request |-> r, holds |-> H \cup {x}, wants |-> next]
<1>7. next \in Categories \cup {None}
    BY <1>3, <1>6 DEF NextLock, Request, Category
<1>8. UNCHANGED categories /\ work' = [work EXCEPT ![c] = new]
    <2> DEFINE held == [op |-> "write", request |-> r, holds |-> H \cup {x}, wants |-> x]
    <2>1. work' = [work EXCEPT ![c] = [work[c] EXCEPT !.holds = H \cup {x}, !.wants = next]]
        BY <1>2 DEF Lock
    <2> HIDE DEF next
    <2>2. [work[c] EXCEPT !.holds = H \cup {x}] = held
        BY <1>1 DEF Doing
    <2>3. [held EXCEPT !.wants = next] = new
        OBVIOUS
    <2>4. [work[c] EXCEPT !.holds = H \cup {x}, !.wants = next]
             = [[work[c] EXCEPT !.holds = H \cup {x}] EXCEPT !.wants = next]
        OBVIOUS
    <2> HIDE DEF held, new
    <2> QED
        BY <2>1, <2>2, <2>3, <2>4 DEF Lock
<1>9. Walked(r, H \cup {x}, next)
    <2>1. CASE x = r.child
        <3>1. MayChange(r) /\ next = r.parent
            BY <1>2, <1>5, <2>1 DEF MayGoOn, NextLock
        <3>2. r.version # 0
            BY <1>6, <2>1, <3>1 DEF MayChange, Category
        <3>3. H = {}
            BY <1>4, <2>1, <3>2 DEF Walked
        <3> QED
            BY <2>1, <3>1, <3>3 DEF Walked, MayChange, StillMayChange
    <2>2. CASE x # r.child
        <3>1. /\ next = categories[x].parent /\ next # r.child
              /\ x = r.parent => MayParent(r)
            BY <1>2, <1>5, <2>2 DEF MayGoOn, NoCycle, NextLock
        <3> HIDE DEF next
        <3> QED
            BY <1>3, <1>4, <2>2, <3>1 DEF Walked
    <2> QED
        BY <2>1, <2>2
<1> HIDE DEF next
<1>10. new \in Transactions /\ new.holds = H \cup {x}
    BY <1>3, <1>7 DEF Transactions
<1>11. \A q, G, w : new = [op |-> "write", request |-> q, holds |-> G, wants |-> w]
                       => q = r /\ G = H \cup {x} /\ w = next
    OBVIOUS
<1>12. \A d \in Clients \ {c} : (H \cup {x}) \cap work[d].holds = {}
    BY <1>2, <1>3 DEF TreeInv, LocksExclusive
<1>13. \A y \in H \cup {x} : Exists(y)
    BY <1>2, <1>6 DEF TreeInv, LocksExclusive
<1>14. \A q, G, w : new = [op |-> "write", request |-> q, holds |-> G, wants |-> w]
                       => Walked(q, G, w)
    BY <1>9, <1>11
<1> HIDE DEF new
<1> QED
    BY <1>8, <1>10, <1>12, <1>13, <1>14, Moved

-----------------------------------------------------------------------------
(* The write of a category *)

LEMMA WriteStep ==
    ASSUME TreeInv, NEW c \in Clients, Write(c)
    PROVE  TreeInv'
<1>1. PICK r \in Requests, H \in SUBSET Categories, x \in Categories \cup {None} :
         Doing(c, r, H, x)
    BY Writes DEF Write, Writing, TreeInv
<1>2. work[c].request = r /\ work[c].holds = H /\ work[c].wants = None /\ x = None
    BY <1>1 DEF Doing, Write, Writing
<1>3. r \in Request /\ None \notin Categories
    BY RequestsAssumption, NoneAssumption DEF RequestsAssumption, NoneAssumption
<1> DEFINE row == [name |-> r.name, kind |-> r.kind, parent |-> r.parent,
                   archived |-> r.archived, version |-> r.version + 1]
<1>4. /\ categories' = [categories EXCEPT ![r.child] = row] /\ Unique(r)
      /\ work' = [work EXCEPT ![c] = Idle]
    BY <1>2 DEF Write
<1>5. row \in Category /\ row # NoEntry
    BY <1>3 DEF Request, Category, NoEntry
<1>6. /\ r.child \in Categories /\ categories'[r.child] = row
      /\ \A y \in Categories \ {r.child} : categories'[y] = categories[y]
    BY <1>3, <1>4 DEF Request, TreeInv, Types
<1>7. /\ r.child \in H => StillMayChange(r)
      /\ r.parent \in H => MayParent(r)
      /\ r.version # 0 => r.child \in H
      /\ r.parent \in H \cup {None}
      /\ \A h \in H \ {r.child} :
            categories[h].parent # r.child /\ categories[h].parent \in H \cup {None}
    BY <1>1, <1>2, <1>3, <1>6 DEF TreeInv, AllWalked, Walked
<1>8. r.version = 0 => ~Exists(r.child)
    BY <1>4 DEF Unique
<1>9. r.parent # r.child
    BY <1>3, <1>6, <1>7, <1>8 DEF MayParent, Active, StillMayChange
<1>10. \A d \in Clients \ {c} : r.child \notin work[d].holds /\ work[d].holds \cap H = {}
    BY <1>2, <1>7, <1>8 DEF TreeInv, LocksExclusive
<1>11. work'[c] = Idle /\ \A d \in Clients \ {c} : work'[d] = work[d]
    BY <1>4 DEF TreeInv, Types
<1>12. Types'
    BY <1>4, <1>5, <1>6 DEF TreeInv, Types, Transactions
<1> HIDE DEF row
<1>13. \A y \in Categories : Exists(y) => Exists(y)'
    BY <1>5, <1>6 DEF Exists
<1>14. LocksExclusive'
    <2>1. \A d \in Clients \ {c} : work[d].holds \subseteq Categories
        BY DEF TreeInv, Types, Transactions, Idle
    <2>2. work'[c].holds = {}
        BY <1>11 DEF Idle
    <2> QED
        BY <1>11, <1>13, <2>1, <2>2 DEF TreeInv, LocksExclusive
<1>15. AllWalked'
    <2> SUFFICES ASSUME NEW d \in Clients, NEW q \in Requests, NEW G \in SUBSET Categories,
                        NEW w \in Categories \cup {None}, Doing(d, q, G, w)'
                 PROVE  Walked(q, G, w)'
        BY DEF AllWalked
    <2>1. d # c /\ Doing(d, q, G, w)
        BY <1>11 DEF Doing, Idle
    <2>2. Walked(q, G, w) /\ work[d].holds = G
        BY <2>1 DEF TreeInv, AllWalked, Doing
    <2>3. r.child \notin G /\ G \cap H = {}
        BY <1>10, <2>1, <2>2
    <2>4. \A y \in G : categories'[y] = categories[y] /\ (Exists(y)' <=> Exists(y))
        BY <1>6, <2>3 DEF Exists
    <2>5. ASSUME q.child \in G
          PROVE  StillMayChange(q)'
        <3>1. StillMayChange(q)
            BY <2>2, <2>5 DEF Walked
        <3>2. r.parent # q.child
            BY <1>3, <1>7, <2>3, <2>5
        <3>3. HasActiveChildren(q.child)' => HasActiveChildren(q.child)
            <4> SUFFICES ASSUME NEW y \in Categories, Active(y)',
                                categories'[y].parent = q.child
                         PROVE  HasActiveChildren(q.child)
                BY DEF HasActiveChildren
            <4>1. y # r.child
                BY <1>6, <3>2 DEF row
            <4> QED
                BY <1>6, <4>1 DEF HasActiveChildren, Active, Exists
        <3> QED
            BY <2>4, <2>5, <3>1, <3>3 DEF StillMayChange
    <2>6. ASSUME q.parent \in G
          PROVE  MayParent(q)'
        BY <2>2, <2>4, <2>6 DEF Walked, MayParent, Active
    <2> QED
        BY <2>2, <2>4, <2>5, <2>6 DEF Walked
<1>16. NoCategoryCycle'
    <2> SUFFICES ASSUME NEW S \in SUBSET Categories, S # {},
                        \A y \in S : Exists(y)' /\ categories'[y].parent \in S
                 PROVE  FALSE
        BY DEF NoCategoryCycle
    <2>1. CASE r.child \notin S
        <3>1. \A y \in S : Exists(y) /\ categories[y].parent \in S
            BY <1>6, <2>1 DEF Exists
        <3> QED
            BY <3>1 DEF TreeInv, NoCategoryCycle
    <2>2. CASE r.child \in S
        <3> DEFINE T == S \cap (H \ {r.child})
        <3>1. r.parent \in S
            BY <1>6, <2>2 DEF row
        <3>2. T \in SUBSET Categories /\ r.parent \in T
            BY <1>3, <1>7, <1>9, <3>1
        <3>3. ASSUME NEW y \in T
              PROVE  Exists(y) /\ categories[y].parent \in T
            <4>1. y \in Categories /\ y # r.child /\ categories'[y] = categories[y]
                BY <1>6
            <4>2. Exists(y) /\ categories[y].parent \in S
                BY <4>1 DEF Exists
            <4> QED
                BY <1>3, <1>7, <4>2
        <3> HIDE DEF T
        <3> QED
            BY <3>2, <3>3 DEF TreeInv, NoCategoryCycle
    <2> QED
        BY <2>1, <2>2
<1>17. ActiveUnderActive'
    <2> SUFFICES ASSUME NEW y \in Categories, Active(y)', categories'[y].parent # None,
                        NEW p, p = categories'[y].parent
                 PROVE  Active(p)' /\ ParentAccepts(categories'[p].kind, categories'[y].kind)
        BY DEF ActiveUnderActive
    <2> USE DEF ParentAccepts
    <2>1. CASE y = r.child
        <3>1. p = r.parent /\ categories'[y].kind = r.kind
            BY <1>6, <2>1 DEF row
        <3>2. MayParent(r) /\ p \in Categories \ {r.child}
            BY <1>7, <1>9, <3>1
        <3> QED
            BY <1>6, <3>1, <3>2 DEF MayParent, Active, Exists
    <2>2. CASE y # r.child
        <3>1. Active(y) /\ p = categories[y].parent /\ categories'[y] = categories[y]
            BY <1>6, <2>2 DEF Active, Exists
        <3>2. Active(p) /\ ParentAccepts(categories[p].kind, categories[y].kind)
            BY <3>1 DEF TreeInv, ActiveUnderActive
        <3>3. p \in Categories
            BY <3>1 DEF TreeInv, Types, Category, Active, Exists
        <3>4. CASE p # r.child
            BY <1>6, <3>1, <3>2, <3>3, <3>4 DEF Active, Exists
        <3>5. CASE p = r.child
            <4>1. StillMayChange(r)
                BY <1>7, <1>8, <3>2, <3>5 DEF Active
            <4>2. HasActiveChildren(r.child)
                BY <3>1, <3>5 DEF HasActiveChildren
            <4>3. r.kind = categories[p].kind /\ ~r.archived
                BY <3>5, <4>1, <4>2 DEF StillMayChange
            <4> QED
                BY <1>5, <1>6, <3>1, <3>2, <3>5, <4>3 DEF row, Active, Exists
        <3> QED
            BY <3>4, <3>5
    <2> QED
        BY <2>1, <2>2
<1> QED
    BY <1>12, <1>14, <1>15, <1>16, <1>17 DEF TreeInv

-----------------------------------------------------------------------------
(* Every step *)

LEMMA TreeStep ==
    ASSUME TreeInv, [CNext]_cvars
    PROVE  TreeInv'
<1>1. CASE UNCHANGED <<categories, work>>
    BY <1>1, SameTree DEF TreeInv, Types, LocksExclusive, AllWalked, Doing
<1>2. ASSUME NEW c \in Clients, Serve(c)
      PROVE  TreeInv'
    <2>1. CASE Lock(c)
        BY <2>1, LockStep
    <2>2. CASE Write(c)
        BY <2>2, WriteStep
    <2>3. CASE CommitPost(c)
        BY <2>3, Ended DEF CommitPost
    <2>4. CASE Refuse(c) \/ AbortDeadlock(c) \/ RefuseWrite(c)
        BY <2>4, Ended DEF Refuse, AbortDeadlock, RefuseWrite, Rollback
    <2> QED
        BY <1>2, <2>1, <2>2, <2>3, <2>4 DEF Serve
<1> QED
    BY <1>1, <1>2, BeginStep, Posting
    DEF CNext, CategoryNext, PostNext, TagNext, CreateTag, UpdateTag, cvars

LEMMA TreeInit ==
    ASSUME CInit
    PROVE  TreeInv
<1>1. \A c \in Categories : categories[c] = NoEntry \/ categories[c].parent = None
    BY DEF CInit
<1>2. \A c \in Clients : work[c] = Idle
    BY DEF CInit
<1>3. Types
    BY SeedsAssumption DEF CInit, Types, Category, Transactions, SeedsAssumption
<1>4. LocksExclusive /\ AllWalked
    BY <1>2 DEF LocksExclusive, AllWalked, Doing, Idle
<1>5. NoCategoryCycle
    BY <1>1, NoneAssumption DEF NoCategoryCycle, Exists, NoneAssumption
<1>6. ActiveUnderActive
    BY <1>1 DEF ActiveUnderActive, Active, Exists
<1> QED
    BY <1>3, <1>4, <1>5, <1>6 DEF TreeInv

\* Requests that move categories at once never close a cycle.
THEOREM HierarchyHasNoCycle == CSpec => []NoCategoryCycle
<1>1. TreeInv => NoCategoryCycle
    BY DEF TreeInv
<1> QED
    BY <1>1, TreeInit, TreeStep, PTL DEF CSpec

\* No category is active under one that is archived or of another kind.
THEOREM ParentsAreActive == CSpec => []ActiveUnderActive
<1>1. TreeInv => ActiveUnderActive
    BY DEF TreeInv
<1> QED
    BY <1>1, TreeInit, TreeStep, PTL DEF CSpec

\* Categories are well formed, and only categories are locked or waited for.
THEOREM CatalogTyped == CSpec => []CTypeOK
<1>1. TreeInv => CTypeOK
    BY DEF TreeInv, Types, Transactions, Idle, CTypeOK
<1> QED
    BY <1>1, TreeInit, TreeStep, PTL DEF CSpec

-----------------------------------------------------------------------------
(* Kinds and history *)

\* What a request has found of the entries of a category still holds, unless somebody
\* posted to the category and changed it at the same time.
Judged(w) ==
    /\ w.op = "write" /\ w.request.child \in w.holds \ overlapped =>
          \A k \in history[w.request.child] : CategoryAccepts(w.request.kind, k)
    /\ w.op = "post" =>
          /\ Exists(w.entry[1])
          /\ w.entry[1] \notin overlapped =>
                CategoryAccepts(categories[w.entry[1]].kind, w.entry[2])

HistoryInv ==
    /\ history \in [Categories -> SUBSET {"EXPENSE", "INCOME"}]
    /\ \A c \in Categories : history[c] # {} => Exists(c)
    /\ KindAgreesWithHistory
    /\ \A c \in Clients : Judged(work[c])

\* One transaction moves on, and neither rows nor entries change.
LEMMA HistoryKept ==
    ASSUME HistoryInv, UNCHANGED <<categories, history, overlapped>>, NEW c \in Clients,
           Judged(work'[c]), \A d \in Clients \ {c} : work'[d] = work[d]
    PROVE  HistoryInv'
<1>1. \A d \in Clients : Judged(work'[d])
    BY DEF HistoryInv
<1>2. \A d \in Clients : Judged(work[d])'
    BY <1>1 DEF Judged, Exists
<1> QED
    BY <1>2 DEF HistoryInv, KindAgreesWithHistory, Exists

LEMMA LockJudges ==
    ASSUME TreeInv, HistoryInv, NEW c \in Clients, Lock(c)
    PROVE  HistoryInv'
<1>1. PICK r \in Requests, H \in SUBSET Categories, x \in Categories \cup {None} :
         Doing(c, r, H, x)
    BY Writes DEF Lock, Locking, TreeInv
<1>2. work[c].request = r /\ work[c].holds = H /\ work[c].wants = x /\ work[c].op = "write"
    BY <1>1 DEF Doing
<1>3. r.child \in Categories
    BY RequestsAssumption DEF RequestsAssumption, Request
<1>4. /\ work'[c].op = "write" /\ work'[c].request = r /\ work'[c].holds = H \cup {x}
      /\ \A d \in Clients \ {c} : work'[d] = work[d]
    BY <1>1, <1>2 DEF Lock, Doing, TreeInv, Types
<1>5. x = r.child /\ r.child \notin overlapped =>
         \A k \in history[r.child] : CategoryAccepts(r.kind, k)
    BY <1>2, <1>3 DEF Lock, MayGoOn, MayChange, HasIncompatibleHistory, HistoryInv,
                      KindAgreesWithHistory
<1>6. Judged(work[c])
    BY DEF HistoryInv
<1>7. Judged(work'[c])
    BY <1>2, <1>4, <1>5, <1>6 DEF Judged
<1> QED
    BY <1>4, <1>7, HistoryKept DEF Lock

LEMMA WriteJudged ==
    ASSUME TreeInv, HistoryInv, NEW c \in Clients, Write(c)
    PROVE  HistoryInv'
<1>1. PICK r \in Requests, H \in SUBSET Categories, w \in Categories \cup {None} :
         Doing(c, r, H, w)
    BY Writes DEF Write, Writing, TreeInv
<1>2. work[c].request = r /\ work[c].holds = H /\ work[c].op = "write" /\ w = None
    BY <1>1 DEF Doing, Write, Writing
<1>3. PICK x \in Categories : x = r.child
    BY RequestsAssumption DEF RequestsAssumption, Request
<1>4. /\ categories' = [categories EXCEPT ![x] =
                            [name |-> r.name, kind |-> r.kind, parent |-> r.parent,
                             archived |-> r.archived, version |-> r.version + 1]]
      /\ overlapped' = overlapped \cup
             {y \in {x} : \E d \in Clients : work[d].op = "post" /\ work[d].entry[1] = y}
      /\ work'[c] = Idle /\ \A d \in Clients \ {c} : work'[d] = work[d]
      /\ history' = history
    BY <1>2, <1>3 DEF Write, TreeInv, Types
<1>5. r.version \in Nat /\ categories \in [Categories -> Category \cup {NoEntry}]
    BY RequestsAssumption DEF RequestsAssumption, Request, TreeInv, Types
<1>6. /\ categories'[x].kind = r.kind /\ categories'[x].version = r.version + 1
      /\ \A y \in Categories \ {x} : categories'[y] = categories[y]
    BY <1>4, <1>5
<1>7. categories'[x] # NoEntry
    BY <1>5, <1>6 DEF NoEntry
<1>8. \A y \in Categories : Exists(y) => Exists(y)'
    BY <1>6, <1>7 DEF Exists
<1>9. x \notin overlapped => \A k \in history[x] : CategoryAccepts(r.kind, k)
    <2>1. CASE r.version = 0
        <3>1. ~Exists(x)
            BY <1>2, <1>3, <2>1 DEF Write, Unique
        <3> QED
            BY <3>1 DEF HistoryInv
    <2>2. CASE r.version # 0
        <3>1. Walked(r, H, w)
            BY <1>1 DEF TreeInv, AllWalked
        <3>2. x \in H
            BY <1>2, <1>3, <2>2, <3>1, NoneAssumption DEF Walked, NoneAssumption
        <3>3. Judged(work[c])
            BY DEF HistoryInv
        <3> QED
            BY <1>2, <1>3, <3>2, <3>3 DEF Judged
    <2> QED
        BY <2>1, <2>2
<1>10. KindAgreesWithHistory'
    BY <1>4, <1>6, <1>9 DEF HistoryInv, KindAgreesWithHistory
<1>11. ASSUME NEW d \in Clients
       PROVE  Judged(work[d])'
    <2>1. CASE d = c
        BY <1>4, <2>1 DEF Judged, Idle
    <2>2. CASE d # c
        <3>1. work'[d] = work[d] /\ Judged(work[d]) /\ work[d] \in Transactions
            BY <1>4, <2>2 DEF HistoryInv, TreeInv, Types
        <3>2. CASE work[d].op = "write"
            BY <1>4, <3>1, <3>2 DEF Judged
        <3>3. CASE work[d].op = "post"
            <4>1. PICK y \in Categories : y = work[d].entry[1]
                BY <3>1, <3>3, PostingsAssumption DEF Transactions, Idle, PostingsAssumption
            <4>2. y = x => x \in overlapped'
                BY <1>4, <3>3, <4>1
            <4>3. y # x => categories'[y] = categories[y]
                BY <1>6
            <4> QED
                BY <1>4, <1>8, <3>1, <3>3, <4>1, <4>2, <4>3 DEF Judged
        <3> QED
            BY <3>1, <3>2, <3>3 DEF Judged
    <2> QED
        BY <2>1, <2>2
<1> QED
    BY <1>4, <1>8, <1>10, <1>11 DEF HistoryInv

LEMMA PostJudged ==
    ASSUME TreeInv, HistoryInv, NEW c \in Clients, CommitPost(c)
    PROVE  HistoryInv'
<1>1. work[c] \in Transactions /\ work[c].op = "post" /\ Judged(work[c])
    BY DEF CommitPost, HistoryInv, TreeInv, Types
<1>2. PICK x \in Categories, k \in {"EXPENSE", "INCOME"} :
         x = work[c].entry[1] /\ k = work[c].entry[2]
    BY <1>1, PostingsAssumption DEF Transactions, Idle, PostingsAssumption
<1>3. /\ history' = [history EXCEPT ![x] = history[x] \cup {k}]
      /\ overlapped' = overlapped \cup {y \in {x} : \E d \in Clients : y \in work[d].holds}
      /\ categories' = categories
      /\ work'[c] = Idle /\ \A d \in Clients \ {c} : work'[d] = work[d]
    BY <1>2 DEF CommitPost, TreeInv, Types
<1>4. Exists(x) /\ (x \notin overlapped => CategoryAccepts(categories[x].kind, k))
    BY <1>1, <1>2 DEF Judged
<1>5. /\ history'[x] = history[x] \cup {k}
      /\ \A y \in Categories \ {x} : history'[y] = history[y]
      /\ history' \in [Categories -> SUBSET {"EXPENSE", "INCOME"}]
    BY <1>3 DEF HistoryInv
<1>6. KindAgreesWithHistory'
    BY <1>3, <1>4, <1>5 DEF HistoryInv, KindAgreesWithHistory
<1>7. ASSUME NEW d \in Clients
      PROVE  Judged(work[d])'
    <2>1. CASE d = c
        BY <1>3, <2>1 DEF Judged, Idle
    <2>2. CASE d # c
        <3>1. work'[d] = work[d] /\ Judged(work[d]) /\ work[d] \in Transactions
            BY <1>3, <2>2 DEF HistoryInv, TreeInv, Types
        <3>2. CASE work[d].op = "write"
            <4>1. PICK y \in Categories : y = work[d].request.child
                BY <3>1, <3>2, RequestsAssumption
                DEF Transactions, Idle, RequestsAssumption, Request
            <4>2. y = x /\ y \in work[d].holds => y \in overlapped'
                BY <1>3
            <4>3. y # x => history'[y] = history[y]
                BY <1>5
            <4> QED
                BY <1>3, <3>1, <3>2, <4>1, <4>2, <4>3 DEF Judged
        <3>3. CASE work[d].op = "post"
            BY <1>3, <3>1, <3>3 DEF Judged, Exists
        <3> QED
            BY <3>1, <3>2, <3>3 DEF Judged
    <2> QED
        BY <2>1, <2>2
<1>8. \A y \in Categories : history'[y] # {} => Exists(y)'
    BY <1>3, <1>4, <1>5 DEF HistoryInv, Exists
<1> QED
    BY <1>5, <1>6, <1>7, <1>8 DEF HistoryInv

LEMMA HistoryInit == CInit => HistoryInv
BY DEF CInit, HistoryInv, KindAgreesWithHistory, Judged, Idle

LEMMA HistoryStep ==
    ASSUME TreeInv, HistoryInv, [CNext]_cvars
    PROVE  HistoryInv'
<1>0. work \in [Clients -> Transactions]
    BY DEF TreeInv, Types
<1>1. CASE UNCHANGED <<categories, history, overlapped, work>>
    BY <1>1 DEF HistoryInv, KindAgreesWithHistory, Judged, Exists
<1>2. ASSUME NEW c \in Clients, Refuse(c) \/ AbortDeadlock(c) \/ RefuseWrite(c)
      PROVE  HistoryInv'
    <2>1. /\ UNCHANGED <<categories, history, overlapped>>
          /\ work'[c] = Idle /\ \A d \in Clients \ {c} : work'[d] = work[d]
        BY <1>0, <1>2 DEF Refuse, AbortDeadlock, RefuseWrite, Rollback
    <2>2. Judged(work'[c])
        BY <2>1 DEF Judged, Idle
    <2> QED
        BY <2>1, <2>2, HistoryKept
<1>3. ASSUME NEW c \in Clients, NEW r \in Requests, Begin(c, r)
      PROVE  HistoryInv'
    <2>1. /\ UNCHANGED <<categories, history, overlapped>>
          /\ work'[c].op = "write" /\ work'[c].holds = {}
          /\ \A d \in Clients \ {c} : work'[d] = work[d]
        BY <1>0, <1>3 DEF Begin
    <2>2. Judged(work'[c])
        BY <2>1 DEF Judged
    <2> QED
        BY <2>1, <2>2, HistoryKept
<1>4. ASSUME NEW c \in Clients, NEW p \in Postings, ReadCategory(c, p)
      PROVE  HistoryInv'
    <2>1. /\ UNCHANGED <<categories, history, overlapped>>
          /\ work'[c].op = "post" /\ work'[c].entry = p
          /\ \A d \in Clients \ {c} : work'[d] = work[d]
        BY <1>0, <1>4 DEF ReadCategory
    <2>2. Judged(work'[c])
        BY <1>4, <2>1 DEF Judged, ReadCategory, Active
    <2> QED
        BY <2>1, <2>2, HistoryKept
<1> QED
    BY <1>1, <1>2, <1>3, <1>4, LockJudges, WriteJudged, PostJudged
    DEF CNext, Serve, CategoryNext, PostNext, TagNext, CreateTag, UpdateTag, cvars

\* The kind of a category agrees with the entries posted to it, unless somebody posted
\* to it while it was being changed: the check of the history under the lock of the
\* category is only as good as the lock, which a posting does not take.
THEOREM KindsAgree == CSpec => []KindAgreesWithHistory
<1>1. HistoryInv => KindAgreesWithHistory
    BY DEF HistoryInv
<1> QED
    BY <1>1, TreeInit, TreeStep, HistoryInit, HistoryStep, PTL DEF CSpec

=============================================================================
