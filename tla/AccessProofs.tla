---------------------------- MODULE AccessProofs ----------------------------
(***************************************************************************)
(* Proofs about Access: a chain of sessions has one live end, a chain that *)
(* was ended stays dead, a chain is taken for stolen only after an answer  *)
(* was lost, a finalized asset is in the storage, an object that outlived  *)
(* its row was uploaded late, and nothing of an erased profile comes back, *)
(* for every number of requests, devices, sessions and assets.             *)
(***************************************************************************)
EXTENDS Access, TLAPS

-----------------------------------------------------------------------------
(* The inductive invariant *)

TokenWork ==
    [op : {"refresh", "logout"}, token : SessionIds, for : Devices \cup {None},
     step : {"read", "rotate", "refuse", "unknown", "end", "reuse"},
     holds : SUBSET SessionIds, wants : SessionIds \cup {User, None}]
AnswerWork ==
    [op : {"answer"}, to : {"refresh", "logout"}, token : SessionIds,
     gets : SessionIds \cup {None}, for : Devices \cup {None}, holds : {{}}, wants : {None}]
MediaWork ==
    [op : {"finalize", "delete"}, row : Media, step : {"lock", "remove", "commit"},
     for : {None}, holds : SUBSET (Media \cup {User}), wants : Media \cup {User, None}]
EraseWork ==
    [op : {"erase"}, row : {User} \cup SUBSET Media, step : {"lock"},
     for : {None}, holds : {{}}, wants : {User}]
      \cup [op : {"erase"}, row : {User} \cup SUBSET Media, step : {"remove"},
            for : {None}, holds : SUBSET {User}, wants : {None}]
      \cup [op : {"erase"}, row : {User} \cup SUBSET Media, step : {"cascade"},
            for : {None}, holds : SUBSET {User}, wants : SessionIds \cup Media \cup {User, None}]
Works == {Idle} \cup TokenWork \cup AnswerWork \cup MediaWork \cup EraseWork

SessionTypes ==
    /\ sessions \in [SessionIds -> Session \cup {NoSession}]
    /\ origin \in [SessionIds -> SessionIds \cup {None}]
    /\ wallet \in [Devices -> SessionIds \cup {None}]
    /\ work \in [Clients -> Works]

Known(s)      == sessions[s] # NoSession
Unreplaced(s) == Known(s) /\ sessions[s].replacedBy = None

\* The sessions of one sign-in are a chain, and only its last one is not replaced.
Chained ==
    /\ \A s \in SessionIds : Live(s) => Unreplaced(s)
    /\ \A s \in SessionIds : Known(s) => origin[s] \in SessionIds /\ Known(origin[s])
    /\ \A s, r \in SessionIds :
          Known(s) /\ sessions[s].replacedBy = r => Known(r) /\ origin[r] = origin[s]
    /\ \A s, q \in SessionIds :
          Unreplaced(s) /\ Unreplaced(q) /\ origin[s] = origin[q] => s = q

\* The identifier of a new sign-in was never ended.
EndedKnown == user # "GONE" => \A s \in ended : s \in SessionIds /\ Known(s)

\* What a request has found on its way still holds of the sessions it has locked: the
\* session it rotates is the last of a chain nobody ended, and the walk that ends a
\* chain has passed from one session to the next up to the last.
Sound(w) ==
    w.op \in {"refresh", "logout"} =>
        /\ \A s \in w.holds : Known(s)
        /\ w.step = "read" => w.wants = w.token
        /\ w.step = "rotate" =>
              /\ w.token \in w.holds /\ Unreplaced(w.token)
              /\ origin[w.token] \notin ended
        /\ Ends(w.step) =>
              /\ w.token \in w.holds
              /\ \A s \in w.holds : origin[s] = origin[w.token]
              /\ w.wants \in SessionIds =>
                    Known(w.wants) /\ origin[w.wants] = origin[w.token]
              /\ w.wants = User => \E u \in w.holds : Unreplaced(u)

SessionLocksExclusive ==
    \A c, d \in Clients : c # d => work[c].holds \cap work[d].holds \cap SessionIds = {}

AllSound == \A c \in Clients : Sound(work[c])

AInv ==
    /\ SessionTypes /\ Chained /\ EndedStaysEnded /\ EndedKnown
    /\ SessionLocksExclusive /\ AllSound /\ ErasureIsComplete

-----------------------------------------------------------------------------
(* Open transactions *)

LEMMA WorkKinds ==
    ASSUME NEW w \in Works
    PROVE  /\ w.op \in {"refresh", "logout"} => w \in TokenWork
           /\ w.op = "answer" => w \in AnswerWork
           /\ w.op \in {"finalize", "delete"} => w \in MediaWork
           /\ w.op = "erase" => w \in EraseWork
           /\ w \notin TokenWork => w.holds \cap SessionIds = {}
           /\ w.op = "none" => w = Idle
           /\ w.op \in {"none", "refresh", "logout", "answer", "finalize", "delete", "erase"}
BY UserAssumption, MediaAssumption
DEF Works, Idle, TokenWork, AnswerWork, MediaWork, EraseWork, UserAssumption, MediaAssumption

LEMMA RowsDistinct == User # None /\ User \notin SessionIds /\ None \notin SessionIds
BY UserAssumption DEF UserAssumption

\* The device of a request stops waiting for it.
LEMMA Forgets ==
    ASSUME NEW w \in Works, w # Idle
    PROVE  LET v == [w EXCEPT !.for = None]
           IN  /\ v \in Works /\ v.holds = w.holds
               /\ Sound(w) => Sound(v)
<1> DEFINE v == [w EXCEPT !.for = None]
<1>1. CASE w \in TokenWork
    <2>1. /\ v \in TokenWork /\ v.op = w.op /\ v.token = w.token /\ v.step = w.step
          /\ v.holds = w.holds /\ v.wants = w.wants
        BY <1>1 DEF TokenWork
    <2> HIDE DEF v
    <2> QED
        BY <2>1 DEF Works, Sound, v
<1>2. CASE w \in AnswerWork
    BY <1>2 DEF AnswerWork, Works, Sound
<1>3. CASE w \in MediaWork
    BY <1>3 DEF MediaWork, Works, Sound
<1>4. CASE w \in EraseWork
    BY <1>4 DEF EraseWork, Works, Sound
<1> QED
    BY <1>1, <1>2, <1>3, <1>4 DEF Works

\* Transactions go on, and no session changes.
LEMMA WorkStep ==
    ASSUME AInv, UNCHANGED <<user, sessions, origin, ended>>,
           wallet' \in [Devices -> SessionIds \cup {None}],
           user = "GONE" => Rows' = {},
           work' \in [Clients -> Works],
           \A c \in Clients : Sound(work'[c]),
           SessionLocksExclusive'
    PROVE  AInv'
<1>1. SessionTypes'
    BY DEF AInv, SessionTypes
<1>2. Chained' /\ EndedStaysEnded'
    BY DEF AInv, Chained, EndedStaysEnded, Unreplaced, Known, Live
<1>3. AllSound'
    BY DEF AllSound, Sound, Unreplaced, Known
<1>4. ErasureIsComplete' /\ EndedKnown'
    BY DEF AInv, ErasureIsComplete, EndedKnown, Known
<1> QED
    BY <1>1, <1>2, <1>3, <1>4 DEF AInv

LEMMA OneMoves ==
    ASSUME AInv, UNCHANGED <<user, sessions, origin, ended>>,
           wallet' \in [Devices -> SessionIds \cup {None}],
           user = "GONE" => Rows' = {},
           NEW c \in Clients, NEW w \in Works, work' = [work EXCEPT ![c] = w], Sound(w),
           \A d \in Clients \ {c} : w.holds \cap work[d].holds \cap SessionIds = {}
    PROVE  AInv'
<1>1. \A d \in Clients : work'[d] = IF d = c THEN w ELSE work[d]
    BY DEF AInv, SessionTypes
<1>2. work' \in [Clients -> Works]
    BY DEF AInv, SessionTypes
<1>3. \A d \in Clients : Sound(work'[d])
    <2> SUFFICES ASSUME NEW d \in Clients
                 PROVE  Sound(work'[d])
        OBVIOUS
    <2>1. CASE d = c
        BY <1>1, <2>1
    <2>2. CASE d # c
        <3>1. Sound(work[d]) /\ work'[d] = work[d]
            BY <1>1, <2>2 DEF AInv, AllSound
        <3> QED
            BY <3>1
    <2> QED
        BY <2>1, <2>2
<1>4. SessionLocksExclusive'
    BY <1>1 DEF AInv, SessionLocksExclusive
<1> QED
    BY <1>2, <1>3, <1>4, WorkStep

\* A transaction that is none, or holds no session.
LEMMA Releases ==
    ASSUME AInv, UNCHANGED <<user, sessions, origin, ended>>,
           wallet' \in [Devices -> SessionIds \cup {None}],
           user = "GONE" => Rows' = {},
           NEW c \in Clients, NEW w \in Works \ TokenWork, work' = [work EXCEPT ![c] = w]
    PROVE  AInv'
<1>1. w.holds \cap SessionIds = {} /\ Sound(w)
    BY WorkKinds DEF Sound
<1> QED
    BY <1>1, OneMoves

-----------------------------------------------------------------------------
(* Devices *)

LEMMA CallIsWork ==
    ASSUME AInv, NEW d \in Devices, NEW op \in {"refresh", "logout"}, wallet[d] # None
    PROVE  /\ Call(op, d) \in Works /\ Call(op, d).holds = {}
           /\ Sound(Call(op, d))
<1>1. wallet[d] \in SessionIds
    BY DEF AInv, SessionTypes
<1>2. Call(op, d) \in TokenWork
    BY <1>1 DEF Call, TokenWork
<1>3. Call(op, d).holds = {} /\ Call(op, d).step = "read"
      /\ Call(op, d).wants = Call(op, d).token
    BY DEF Call
<1> QED
    BY <1>2, <1>3 DEF Works, Sound, Ends

LEMMA DeviceCalls ==
    ASSUME AInv, UNCHANGED media, NEW c \in Clients, NEW d \in Devices,
           SendRefresh(c, d) \/ SendLogout(c, d)
    PROVE  AInv'
<1>0. /\ UNCHANGED <<user, sessions, origin, ended>> /\ wallet[d] # None
      /\ wallet' \in [Devices -> SessionIds \cup {None}]
      /\ user = "GONE" => Rows' = {}
    BY DEF SendRefresh, MayRefresh, SendLogout, media, Rows, AInv, ErasureIsComplete, SessionTypes
<1>1. CASE SendRefresh(c, d)
    <2>1. work' = [work EXCEPT ![c] = Call("refresh", d)]
        BY <1>1 DEF SendRefresh
    <2>2. /\ Call("refresh", d) \in Works /\ Call("refresh", d).holds = {}
          /\ Sound(Call("refresh", d))
        BY <1>0, CallIsWork
    <2> QED
        BY <1>0, <2>1, <2>2, OneMoves
<1>2. CASE SendLogout(c, d)
    <2>1. \A k \in Clients : /\ work'[k] \in Works /\ Sound(work'[k])
                             /\ work'[k].holds \subseteq work[k].holds
        <3> SUFFICES ASSUME NEW k \in Clients
                     PROVE  /\ work'[k] \in Works /\ Sound(work'[k])
                            /\ work'[k].holds \subseteq work[k].holds
            OBVIOUS
        <3>1. work[k] \in Works /\ Sound(work[k])
            BY DEF AInv, SessionTypes, AllSound
        <3>2. CASE k = c
            <4>1. work'[k] = Call("logout", d)
                BY <1>2, <3>2 DEF SendLogout
            <4> QED
                BY <1>0, <4>1, CallIsWork
        <3>3. CASE k # c /\ work[k] # Idle
            <4>1. work'[k] = [work[k] EXCEPT !.for = None] \/ work'[k] = work[k]
                BY <1>2, <3>3 DEF SendLogout
            <4> QED
                BY <3>1, <3>3, <4>1, Forgets
        <3>4. CASE k # c /\ work[k] = Idle
            BY <1>2, <3>1, <3>4 DEF SendLogout, InTransaction
        <3> QED
            BY <3>2, <3>3, <3>4
    <2>2. work' \in [Clients -> Works]
        <3>1. work' = [k \in Clients |-> work'[k]]
            BY <1>2 DEF SendLogout
        <3> QED
            BY <2>1, <3>1
    <2>3. SessionLocksExclusive'
        BY <2>1 DEF AInv, SessionLocksExclusive
    <2> QED
        BY <1>0, <2>1, <2>2, <2>3, WorkStep
<1> QED
    BY <1>1, <1>2

LEMMA GiveUpStep ==
    ASSUME AInv, UNCHANGED media, NEW c \in Clients, GiveUp(c)
    PROVE  AInv'
<1> DEFINE w == [work[c] EXCEPT !.for = None]
<1>1. /\ UNCHANGED <<user, sessions, origin, ended>>
      /\ wallet' \in [Devices -> SessionIds \cup {None}]
      /\ user = "GONE" => Rows' = {}
      /\ work' = [work EXCEPT ![c] = w]
    BY DEF GiveUp, media, Rows, AInv, ErasureIsComplete, SessionTypes
<1>2. work[c] \in Works /\ work[c] # Idle /\ Sound(work[c])
    BY DEF GiveUp, Idle, AInv, SessionTypes, AllSound
<1>3. w \in Works /\ w.holds = work[c].holds /\ Sound(w)
    BY <1>2, Forgets
<1> HIDE DEF w
<1>4. \A d \in Clients \ {c} : w.holds \cap work[d].holds \cap SessionIds = {}
    BY <1>3 DEF AInv, SessionLocksExclusive
<1> QED
    BY <1>1, <1>3, <1>4, OneMoves

\* The end of a transaction, and of its answer.
LEMMA ReleaseSteps ==
    ASSUME AInv, UNCHANGED media, NEW c \in Clients, FailSession(c) \/ Deliver(c) \/ Lose(c)
    PROVE  AInv'
<1>1. /\ UNCHANGED <<user, sessions, origin, ended>>
      /\ user = "GONE" => Rows' = {}
      /\ work' = [work EXCEPT ![c] = Idle]
    BY DEF FailSession, Deliver, Lose, Rollback, media, Rows, AInv, ErasureIsComplete
<1>2. wallet' \in [Devices -> SessionIds \cup {None}]
    <2>1. work[c] \in Works /\ wallet \in [Devices -> SessionIds \cup {None}]
        BY DEF AInv, SessionTypes
    <2>2. CASE FailSession(c)
        BY <2>1, <2>2 DEF FailSession
    <2>3. CASE Deliver(c) \/ Lose(c)
        <3>1. work[c].gets \in SessionIds \cup {None}
            BY <2>1, <2>3, WorkKinds DEF Deliver, Lose, AnswerWork
        <3>2. Stored(c) \in [Devices -> SessionIds \cup {None}]
            BY <2>1, <3>1 DEF Stored
        <3> QED
            BY <2>1, <2>3, <3>2 DEF Deliver, Lose
    <2> QED
        BY <2>2, <2>3
<1>3. Idle \in Works \ TokenWork
    BY DEF Works, Idle, TokenWork
<1> QED
    BY <1>1, <1>2, <1>3, Releases

-----------------------------------------------------------------------------
(* The walk of a request *)

LEMMA AfterIsChained ==
    ASSUME AInv, NEW s \in SessionIds, Known(s)
    PROVE  LET x == AfterRow(sessions[s])
           IN  /\ x \in SessionIds \cup {User}
               /\ x \in SessionIds => Known(x) /\ origin[x] = origin[s]
               /\ x = User => Unreplaced(s)
<1>1. sessions[s] \in Session
    BY DEF AInv, SessionTypes, Known
<1> QED
    BY <1>1, RowsDistinct DEF AfterRow, Session, AInv, Chained, Unreplaced

LEMMA VerdictFacts ==
    ASSUME NEW row \in Session \cup {NoSession}, NEW op \in {"refresh", "logout"}
    PROVE  /\ Verdict(row, op) \in {"rotate", "refuse", "unknown", "end", "reuse"}
           /\ Verdict(row, op) = "unknown" <=> row = NoSession
           /\ Verdict(row, op) = "rotate" => row.state = "LIVE" /\ row.replacedBy = None
<1>1. CASE row = NoSession
    BY <1>1 DEF Verdict
<1>2. CASE row # NoSession /\ op = "logout"
    BY <1>2 DEF Verdict
<1>3. CASE row # NoSession /\ op = "refresh"
    <2>1. CASE row.replacedBy # None \/ row.compromised
        <3>1. Verdict(row, op) = "reuse"
            BY <1>3, <2>1 DEF Verdict
        <3> QED
            BY <1>3, <3>1
    <2>2. CASE row.replacedBy = None /\ ~row.compromised
        <3>1. CASE row.state # "LIVE"
            <4>1. Verdict(row, op) = "refuse"
                BY <1>3, <2>2, <3>1 DEF Verdict
            <4> QED
                BY <1>3, <4>1
        <3>2. CASE row.state = "LIVE"
            <4>1. Verdict(row, op) = "rotate"
                BY <1>3, <2>2, <3>2 DEF Verdict
            <4> QED
                BY <1>3, <2>2, <3>2, <4>1
        <3> QED
            BY <3>1, <3>2
    <2> QED
        BY <2>1, <2>2
<1> QED
    BY <1>1, <1>2, <1>3

LEMMA ReadStep ==
    ASSUME AInv, UNCHANGED media, NEW c \in Clients, ReadSession(c)
    PROVE  AInv'
<1> DEFINE t    == work[c].token
           row  == sessions[t]
           step == Verdict(row, work[c].op)
           H    == IF step = "unknown" THEN {} ELSE {t}
           x    == CASE step \in {"unknown", "refuse"} -> None
                     [] step = "rotate" -> User
                     [] OTHER -> AfterRow(row)
           w    == [[[work[c] EXCEPT !.step = step] EXCEPT !.holds = H] EXCEPT !.wants = x]
<1>1. work[c] \in TokenWork /\ t \in SessionIds /\ work[c].wants = t /\ work[c].step = "read"
    <2>1. work[c] \in TokenWork /\ work[c].step = "read" /\ Sound(work[c])
        BY WorkKinds DEF ReadSession, AInv, SessionTypes, AllSound
    <2> QED
        BY <2>1 DEF Sound, TokenWork
<1>2. /\ step \in {"rotate", "refuse", "unknown", "end", "reuse"}
      /\ step = "unknown" <=> ~Known(t)
      /\ step = "rotate" => Live(t) /\ row.replacedBy = None
    <2>1. row \in Session \cup {NoSession} /\ work[c].op \in {"refresh", "logout"}
        BY <1>1 DEF AInv, SessionTypes, TokenWork
    <2> QED
        BY <2>1, VerdictFacts DEF Known, Live
<1>3. /\ UNCHANGED <<user, sessions, origin, ended>>
      /\ wallet' \in [Devices -> SessionIds \cup {None}]
      /\ user = "GONE" => Rows' = {}
    BY DEF ReadSession, media, Rows, AInv, ErasureIsComplete, SessionTypes
<1>4. work' = [work EXCEPT ![c] = w]
    BY DEF ReadSession
<1>5. \A d \in Clients \ {c} : t \notin work[d].holds
    BY <1>1 DEF ReadSession, CanLock
<1> HIDE DEF step
<1>6. Known(t) => LET y == AfterRow(row)
                  IN  /\ y \in SessionIds \cup {User}
                      /\ y \in SessionIds => Known(y) /\ origin[y] = origin[t]
                      /\ y = User => Unreplaced(t)
    BY <1>1, AfterIsChained
<1>7. /\ x \in SessionIds \cup {User, None} /\ H \in SUBSET SessionIds
      /\ step \in {"end", "reuse"} => x = AfterRow(row)
    BY <1>1, <1>2, <1>6
<1>8. step \notin {"unknown"} => H = {t}
    OBVIOUS
<1>9. step = "unknown" => H = {}
    OBVIOUS
<1> HIDE DEF x, H
<1>10. /\ w \in TokenWork /\ w.op = work[c].op /\ w.token = t
       /\ w.step = step /\ w.holds = H /\ w.wants = x
    <2>1. step \in {"read", "rotate", "refuse", "unknown", "end", "reuse"}
        BY <1>2
    <2>2. work[c] \in TokenWork /\ H \in SUBSET SessionIds /\ x \in SessionIds \cup {User, None}
        BY <1>1, <1>7
    <2>3. /\ w \in TokenWork /\ w.op = work[c].op /\ w.token = work[c].token
          /\ w.step = step /\ w.holds = H /\ w.wants = x
        <3> DEFINE u == [work[c] EXCEPT !.step = step]
                   v == [u EXCEPT !.holds = H]
        <3>1. /\ u \in TokenWork /\ u.op = work[c].op /\ u.token = work[c].token
              /\ u.step = step
            BY <2>1, <2>2 DEF TokenWork
        <3> HIDE DEF u
        <3>2. /\ v \in TokenWork /\ v.op = work[c].op /\ v.token = work[c].token
              /\ v.step = step /\ v.holds = H
            BY <2>2, <3>1 DEF TokenWork
        <3> HIDE DEF v
        <3>3. LET z == [v EXCEPT !.wants = x]
              IN  /\ z \in TokenWork /\ z.op = work[c].op /\ z.token = work[c].token
                  /\ z.step = step /\ z.holds = H /\ z.wants = x
            BY <2>2, <3>2 DEF TokenWork
        <3> QED
            BY <3>3 DEF v, u
    <2> QED
        BY <2>3
<1> HIDE DEF w, row
<1>11. Sound(w)
    <2>1. CASE step = "unknown"
        BY <1>9, <1>10, <2>1 DEF Sound, Ends
    <2>2. CASE step = "refuse"
        BY <1>2, <1>8, <1>10, <2>2 DEF Sound, Ends
    <2>3. CASE step = "rotate"
        <3>1. Unreplaced(t) /\ Known(t) /\ origin[t] \notin ended
            BY <1>1, <1>2, <2>3 DEF AInv, Chained, EndedStaysEnded
        <3> QED
            BY <1>8, <1>10, <2>3, <3>1 DEF Sound, Ends
    <2>4. CASE step \in {"end", "reuse"}
        <3>1. Known(t) /\ x = AfterRow(row)
            BY <1>2, <1>7, <2>4
        <3> QED
            BY <1>6, <1>8, <1>10, <2>4, <3>1 DEF Sound, Ends
    <2> QED
        BY <1>2, <2>1, <2>2, <2>3, <2>4
<1>12. \A d \in Clients \ {c} : w.holds \cap work[d].holds \cap SessionIds = {}
    BY <1>2, <1>5, <1>8, <1>9, <1>10
<1>13. w \in Works
    BY <1>10 DEF Works
<1> QED
    BY <1>3, <1>4, <1>11, <1>12, <1>13, OneMoves

LEMMA WalkStep ==
    ASSUME AInv, UNCHANGED media, NEW c \in Clients, WalkChain(c)
    PROVE  AInv'
<1> DEFINE n == work[c].wants
           H == work[c].holds \cup {n}
           x == AfterRow(sessions[n])
           w == [[work[c] EXCEPT !.holds = H] EXCEPT !.wants = x]
<1>1. /\ work[c] \in TokenWork /\ Sound(work[c]) /\ Ends(work[c].step)
      /\ work[c].op \in {"refresh", "logout"}
      /\ n \in SessionIds /\ \A d \in Clients \ {c} : n \notin work[d].holds
    BY WorkKinds DEF WalkChain, CanLock, AInv, SessionTypes, AllSound
<1>2. /\ UNCHANGED <<user, sessions, origin, ended>>
      /\ wallet' \in [Devices -> SessionIds \cup {None}]
      /\ user = "GONE" => Rows' = {}
      /\ work' = [work EXCEPT ![c] = w]
    BY DEF WalkChain, media, Rows, AInv, ErasureIsComplete, SessionTypes
<1>3. /\ Known(n) /\ origin[n] = origin[work[c].token]
      /\ work[c].token \in work[c].holds
      /\ \A s \in work[c].holds : Known(s) /\ origin[s] = origin[work[c].token]
    BY <1>1 DEF Sound
<1>4. /\ x \in SessionIds \cup {User}
      /\ x \in SessionIds => Known(x) /\ origin[x] = origin[n]
      /\ x = User => Unreplaced(n)
    BY <1>1, <1>3, AfterIsChained
<1>5. H \in SUBSET SessionIds
    BY <1>1 DEF TokenWork
<1> HIDE DEF x
<1>6. /\ w \in TokenWork /\ w.op = work[c].op /\ w.token = work[c].token
      /\ w.step = work[c].step /\ w.holds = H /\ w.wants = x
    <2> DEFINE v == [work[c] EXCEPT !.holds = H]
    <2> HIDE DEF H
    <2>1. /\ v \in TokenWork /\ v.op = work[c].op /\ v.token = work[c].token
          /\ v.step = work[c].step /\ v.holds = H
        BY <1>1, <1>5 DEF TokenWork
    <2> HIDE DEF v
    <2>2. LET z == [v EXCEPT !.wants = x]
          IN  /\ z \in TokenWork /\ z.op = work[c].op /\ z.token = work[c].token
              /\ z.step = work[c].step /\ z.holds = H /\ z.wants = x
        BY <1>4, <2>1 DEF TokenWork
    <2> QED
        BY <2>2 DEF v
<1> HIDE DEF w
<1>7. Sound(w)
    <2>1. work[c].step # "rotate" /\ work[c].step # "read"
        BY <1>1 DEF Ends
    <2> QED
        BY <1>1, <1>3, <1>4, <1>6, <2>1 DEF Sound
<1>8. \A d \in Clients \ {c} : w.holds \cap work[d].holds \cap SessionIds = {}
    BY <1>1, <1>6 DEF AInv, SessionLocksExclusive
<1>9. w \in Works
    BY <1>6 DEF Works
<1> QED
    BY <1>2, <1>7, <1>8, <1>9, OneMoves

-----------------------------------------------------------------------------
(* Sessions change *)

\* A transaction that goes on while others change sessions it has not locked.
LEMMA KeepsSound ==
    ASSUME AInv, NEW d \in Clients, work'[d] = work[d],
           \A s \in SessionIds : Known(s) => Known(s)' /\ origin'[s] = origin[s],
           \A s \in SessionIds \cap work[d].holds : Unreplaced(s) => Unreplaced(s)',
           /\ work[d].op \in {"refresh", "logout"} /\ work[d].step = "rotate"
             => origin[work[d].token] \notin ended'
    PROVE  Sound(work[d])'
<1>1. Sound(work[d]) /\ work[d] \in Works
    BY DEF AInv, AllSound, SessionTypes
<1> SUFFICES ASSUME work[d].op \in {"refresh", "logout"}
             PROVE  Sound(work[d])'
    BY DEF Sound
<1>2. work[d] \in TokenWork /\ work[d].holds \subseteq SessionIds
    BY <1>1, WorkKinds DEF TokenWork
<1>3. \A s \in work[d].holds : Known(s)'
    BY <1>1, <1>2 DEF Sound
<1>4. work[d].step = "rotate" =>
         /\ work[d].token \in work[d].holds /\ Unreplaced(work[d].token)'
         /\ origin'[work[d].token] \notin ended'
    <2>1. work[d].step = "rotate" =>
             /\ work[d].token \in work[d].holds /\ Unreplaced(work[d].token)
             /\ Known(work[d].token)
        BY <1>1 DEF Sound, Unreplaced
    <2>2. ASSUME NEW t \in SessionIds, t = work[d].token
          PROVE  work[d].step = "rotate" => /\ t \in work[d].holds /\ Unreplaced(t)'
                                            /\ origin'[t] \notin ended'
        BY <1>2, <2>1, <2>2
    <2>3. work[d].token \in SessionIds
        BY <1>2 DEF TokenWork
    <2> QED
        BY <2>2, <2>3 DEF Unreplaced, Known
<1>5. Ends(work[d].step) =>
         /\ work[d].token \in work[d].holds
         /\ \A s \in work[d].holds : origin'[s] = origin'[work[d].token]
         /\ work[d].wants \in SessionIds =>
               sessions'[work[d].wants] # NoSession
               /\ origin'[work[d].wants] = origin'[work[d].token]
         /\ work[d].wants = User => \E u \in work[d].holds : Unreplaced(u)'
    BY <1>1, <1>2 DEF Sound, Known
<1>6. work[d].step = "read" => work[d].wants = work[d].token
    BY <1>1 DEF Sound
<1> QED
    BY <1>3, <1>4, <1>5, <1>6 DEF Sound, Known, Unreplaced, Ends

\* Sessions are revoked or expire.
LEMMA StatesChange ==
    ASSUME AInv, origin' = origin, user' = user, user = "GONE" => Rows' = {},
           \A s \in ended' : s \in ended \/ (s \in SessionIds /\ Known(s)),
           wallet' \in [Devices -> SessionIds \cup {None}],
           sessions' \in [SessionIds -> Session \cup {NoSession}],
           \A s \in SessionIds : /\ Known(s)' <=> Known(s)
                                 /\ Known(s) => sessions'[s].replacedBy = sessions[s].replacedBy
                                 /\ Live(s)' => Live(s) /\ origin[s] \notin ended',
           work' \in [Clients -> Works],
           \A d \in Clients : work'[d] = work[d] \/ work'[d] \notin TokenWork,
           \A d \in Clients :
              work'[d] = work[d] /\ work[d].op \in {"refresh", "logout"} /\ work[d].step = "rotate"
              => origin[work[d].token] \notin ended'
    PROVE  AInv'
<1>1. SessionTypes'
    BY DEF AInv, SessionTypes
<1>2. \A s \in SessionIds : Unreplaced(s)' <=> Unreplaced(s)
    BY DEF Unreplaced, Known
<1>3. Chained'
    BY <1>2 DEF AInv, Chained, Unreplaced, Known
<1>4. EndedStaysEnded'
    BY DEF EndedStaysEnded
<1>5. AllSound'
    <2> SUFFICES ASSUME NEW d \in Clients
                 PROVE  Sound(work[d])'
        BY DEF AllSound
    <2>1. CASE work'[d] = work[d]
        BY <1>2, <2>1, KeepsSound
    <2>2. CASE work'[d] \notin TokenWork
        <3>1. work'[d].op \notin {"refresh", "logout"}
            BY <2>2, WorkKinds
        <3> QED
            BY <3>1 DEF Sound
    <2> QED
        BY <2>1, <2>2
<1>6. SessionLocksExclusive'
    <2>1. \A d \in Clients : work'[d] = work[d] \/ work'[d].holds \cap SessionIds = {}
        BY WorkKinds
    <2> QED
        BY <2>1 DEF AInv, SessionLocksExclusive
<1>7. ErasureIsComplete'
    BY DEF AInv, ErasureIsComplete, Known
<1>8. EndedKnown'
    BY DEF AInv, EndedKnown, Known
<1> QED
    BY <1>1, <1>3, <1>4, <1>5, <1>6, <1>7, <1>8 DEF AInv

\* A session that is being rotated is the last of a chain that nobody ended.
LEMMA RotatesLast ==
    ASSUME AInv, NEW d \in Clients, work[d].op \in {"refresh", "logout"},
           work[d].step = "rotate"
    PROVE  /\ work[d].token \in SessionIds /\ work[d].token \in work[d].holds
           /\ Unreplaced(work[d].token) /\ origin[work[d].token] \notin ended
<1>1. Sound(work[d]) /\ work[d] \in TokenWork
    BY WorkKinds DEF AInv, AllSound, SessionTypes
<1> QED
    BY <1>1 DEF Sound, TokenWork

LEMMA ExpireStep ==
    ASSUME AInv, UNCHANGED media, NEW q \in SessionIds, Expire(q)
    PROVE  AInv'
<1>1. /\ user' = user /\ wallet' = wallet /\ origin' = origin /\ ended' = ended
      /\ work' = work /\ (user = "GONE" => Rows' = {})
      /\ wallet' \in [Devices -> SessionIds \cup {None}] /\ work' \in [Clients -> Works]
    BY DEF Expire, media, Rows, AInv, ErasureIsComplete, SessionTypes
<1>2. sessions[q] \in Session /\ Known(q) /\ Live(q)
    BY DEF Expire, Live, NoSession, Known, AInv, SessionTypes
<1> DEFINE row == [sessions[q] EXCEPT !.state = "EXPIRED"]
<1>3. row \in Session /\ row.state = "EXPIRED" /\ row.replacedBy = sessions[q].replacedBy
    BY <1>2 DEF Session
<1>4. sessions' = [sessions EXCEPT ![q] = row]
    BY DEF Expire
<1> HIDE DEF row
<1>5. \A s \in SessionIds : /\ Known(s)' <=> Known(s)
                            /\ Known(s) => sessions'[s].replacedBy = sessions[s].replacedBy
                            /\ Live(s)' => Live(s) /\ origin[s] \notin ended'
    <2> SUFFICES ASSUME NEW s \in SessionIds
                 PROVE  /\ Known(s)' <=> Known(s)
                        /\ Known(s) => sessions'[s].replacedBy = sessions[s].replacedBy
                        /\ Live(s)' => Live(s) /\ origin[s] \notin ended'
        OBVIOUS
    <2>1. sessions'[s] = IF s = q THEN row ELSE sessions[s]
        BY <1>4 DEF AInv, SessionTypes
    <2>2. CASE s = q
        <3>1. row # NoSession
            BY <1>3 DEF NoSession
        <3> QED
            BY <1>2, <1>3, <2>1, <2>2, <3>1 DEF Known, Live
    <2>3. CASE s # q
        <3>1. sessions'[s] = sessions[s]
            BY <2>1, <2>3
        <3>2. Live(s) => origin[s] \notin ended'
            BY <1>1 DEF AInv, EndedStaysEnded
        <3> QED
            BY <3>1, <3>2 DEF Known, Live
    <2> QED
        BY <2>2, <2>3
<1>6. sessions' \in [SessionIds -> Session \cup {NoSession}]
    BY <1>3, <1>4 DEF AInv, SessionTypes
<1>7. \A d \in Clients :
         work'[d] = work[d] /\ work[d].op \in {"refresh", "logout"} /\ work[d].step = "rotate"
         => origin[work[d].token] \notin ended'
    BY <1>1, RotatesLast
<1>8. \A d \in Clients : work'[d] = work[d] \/ work'[d] \notin TokenWork
    BY <1>1
<1>9. \A s \in ended' : s \in ended \/ (s \in SessionIds /\ Known(s))
    BY <1>1
<1> QED
    BY <1>1, <1>5, <1>6, <1>7, <1>8, <1>9, StatesChange

\* What a transaction of a token answers with.
LEMMA AnswerFacts ==
    ASSUME AInv, NEW c \in Clients, work[c].op \in {"refresh", "logout"},
           NEW token \in SessionIds \cup {None}, Answer(c, token)
    PROVE  /\ work' \in [Clients -> Works]
           /\ work'[c] \notin TokenWork /\ work'[c].holds = {}
           /\ \A d \in Clients \ {c} : work'[d] = work[d]
<1> DEFINE w == [op |-> "answer", to |-> work[c].op, token |-> work[c].token,
                 gets |-> token, for |-> work[c].for, holds |-> {}, wants |-> None]
<1>1. work[c] \in TokenWork
    BY WorkKinds DEF AInv, SessionTypes
<1>2. w \in AnswerWork
    BY <1>1 DEF TokenWork, AnswerWork
<1>3. w \notin TokenWork /\ w.holds = {}
    BY DEF TokenWork
<1>4. work' = [work EXCEPT ![c] = w]
    BY DEF Answer
<1> HIDE DEF w
<1>5. w \in Works
    BY <1>2 DEF Works
<1> QED
    BY <1>3, <1>4, <1>5 DEF AInv, SessionTypes

\* What a transaction of a token holds.
LEMMA HeldSessions ==
    ASSUME AInv, NEW c \in Clients, work[c].op \in {"refresh", "logout"}
    PROVE  /\ work[c].token \in SessionIds /\ work[c].holds \subseteq SessionIds
           /\ Sound(work[c])
           /\ \A s \in work[c].holds : Known(s) /\ sessions[s] \in Session
           /\ \A d \in Clients \ {c} : work[c].holds \cap work[d].holds = {}
<1>1. Sound(work[c]) /\ work[c] \in TokenWork
    BY WorkKinds DEF AInv, AllSound, SessionTypes
<1>2. work[c].token \in SessionIds /\ work[c].holds \subseteq SessionIds
    BY <1>1 DEF TokenWork
<1>3. \A s \in work[c].holds : Known(s) /\ sessions[s] \in Session
    BY <1>1, <1>2 DEF Sound, Known, AInv, SessionTypes
<1>4. \A d \in Clients \ {c} : work[c].holds \cap work[d].holds = {}
    BY <1>2 DEF AInv, SessionLocksExclusive
<1> QED
    BY <1>1, <1>2, <1>3, <1>4

LEMMA CommitRefusalStep ==
    ASSUME AInv, UNCHANGED media, NEW c \in Clients, CommitRefusal(c)
    PROVE  AInv'
<1> DEFINE H == work[c].holds
           row(s) == [sessions[s] EXCEPT !.state = "REVOKED"]
<1>1. /\ user' = user /\ wallet' = wallet /\ origin' = origin /\ ended' = ended
      /\ (user = "GONE" => Rows' = {}) /\ wallet' \in [Devices -> SessionIds \cup {None}]
    BY DEF CommitRefusal, media, Rows, AInv, ErasureIsComplete, SessionTypes
<1>2. /\ work[c].op \in {"refresh", "logout"} /\ Answer(c, None)
      /\ sessions' = [s \in SessionIds |-> IF s \in H THEN row(s) ELSE sessions[s]]
    BY DEF CommitRefusal
<1>3. \A s \in H : Known(s) /\ sessions[s] \in Session
    BY <1>2, HeldSessions
<1>4. \A s \in H : row(s) \in Session /\ row(s).state = "REVOKED"
                   /\ row(s).replacedBy = sessions[s].replacedBy
    BY <1>3 DEF Session
<1> HIDE DEF row, H
<1>5. \A s \in SessionIds : /\ Known(s)' <=> Known(s)
                            /\ Known(s) => sessions'[s].replacedBy = sessions[s].replacedBy
                            /\ Live(s)' => Live(s) /\ origin[s] \notin ended'
    <2> SUFFICES ASSUME NEW s \in SessionIds
                 PROVE  /\ Known(s)' <=> Known(s)
                        /\ Known(s) => sessions'[s].replacedBy = sessions[s].replacedBy
                        /\ Live(s)' => Live(s) /\ origin[s] \notin ended'
        OBVIOUS
    <2>1. CASE s \in H
        <3>1. sessions'[s] = row(s) /\ row(s).state = "REVOKED" /\ Known(s)
              /\ row(s).replacedBy = sessions[s].replacedBy
            BY <1>2, <1>3, <1>4, <2>1
        <3> QED
            BY <3>1 DEF Known, Live, NoSession
    <2>2. CASE s \notin H
        <3>1. sessions'[s] = sessions[s]
            BY <1>2, <2>2
        <3>2. Live(s) => origin[s] \notin ended'
            BY <1>1 DEF AInv, EndedStaysEnded
        <3> QED
            BY <3>1, <3>2 DEF Known, Live
    <2> QED
        BY <2>1, <2>2
<1>6. sessions' \in [SessionIds -> Session \cup {NoSession}]
    BY <1>2, <1>4 DEF AInv, SessionTypes
<1>7. \A d \in Clients :
         work'[d] = work[d] /\ work[d].op \in {"refresh", "logout"} /\ work[d].step = "rotate"
         => origin[work[d].token] \notin ended'
    BY <1>1, RotatesLast
<1>8. /\ work' \in [Clients -> Works]
      /\ \A d \in Clients : work'[d] = work[d] \/ work'[d] \notin TokenWork
    BY <1>2, AnswerFacts
<1>9. \A s \in ended' : s \in ended \/ (s \in SessionIds /\ Known(s))
    BY <1>1
<1> QED
    BY <1>1, <1>5, <1>6, <1>7, <1>8, <1>9, StatesChange

LEMMA CommitEndStep ==
    ASSUME AInv, UNCHANGED media, NEW c \in Clients, CommitEnd(c)
    PROVE  AInv'
<1> DEFINE H == work[c].holds
           o == origin[work[c].token]
           b(s) == sessions[s].compromised \/ work[c].step = "reuse"
           row(s) == [[sessions[s] EXCEPT !.state = "REVOKED"] EXCEPT !.compromised = b(s)]
<1>1. /\ user' = user /\ wallet' = wallet /\ origin' = origin /\ ended' = ended \cup {o}
      /\ (user = "GONE" => Rows' = {}) /\ wallet' \in [Devices -> SessionIds \cup {None}]
    BY DEF CommitEnd, media, Rows, AInv, ErasureIsComplete, SessionTypes
<1>2. /\ work[c].op \in {"refresh", "logout"} /\ Answer(c, None)
      /\ Ends(work[c].step) /\ work[c].wants = User
      /\ sessions' = [s \in SessionIds |-> IF s \in H THEN row(s) ELSE sessions[s]]
    BY DEF CommitEnd, Committing
<1>3. /\ \A s \in H : Known(s) /\ sessions[s] \in Session /\ s \in SessionIds
      /\ \A d \in Clients \ {c} : H \cap work[d].holds = {}
      /\ work[c].token \in H /\ Sound(work[c])
    BY <1>2, HeldSessions DEF Sound
<1>4. PICK u \in H : Unreplaced(u) /\ origin[u] = o
    BY <1>2, <1>3 DEF Sound
<1>5. \A s \in H : row(s) \in Session /\ row(s).state = "REVOKED"
                   /\ row(s).replacedBy = sessions[s].replacedBy
    <2> SUFFICES ASSUME NEW s \in H
                 PROVE  row(s) \in Session /\ row(s).state = "REVOKED"
                        /\ row(s).replacedBy = sessions[s].replacedBy
        OBVIOUS
    <2> DEFINE v == [sessions[s] EXCEPT !.state = "REVOKED"]
    <2>1. v \in Session /\ v.state = "REVOKED" /\ v.replacedBy = sessions[s].replacedBy
        BY <1>3 DEF Session
    <2>2. b(s) \in BOOLEAN
        OBVIOUS
    <2> HIDE DEF v, b
    <2>3. LET z == [v EXCEPT !.compromised = b(s)]
          IN  z \in Session /\ z.state = "REVOKED" /\ z.replacedBy = sessions[s].replacedBy
        BY <2>1, <2>2 DEF Session
    <2> QED
        BY <2>3 DEF v
<1> HIDE DEF row, H, o
<1>6. \A s \in SessionIds : Unreplaced(s) /\ origin[s] = o => s = u
    BY <1>3, <1>4 DEF AInv, Chained
<1>7. \A s \in SessionIds : /\ Known(s)' <=> Known(s)
                            /\ Known(s) => sessions'[s].replacedBy = sessions[s].replacedBy
                            /\ Live(s)' => Live(s) /\ origin[s] \notin ended'
    <2> SUFFICES ASSUME NEW s \in SessionIds
                 PROVE  /\ Known(s)' <=> Known(s)
                        /\ Known(s) => sessions'[s].replacedBy = sessions[s].replacedBy
                        /\ Live(s)' => Live(s) /\ origin[s] \notin ended'
        OBVIOUS
    <2>1. CASE s \in H
        <3>1. sessions'[s] = row(s) /\ row(s).state = "REVOKED" /\ Known(s)
              /\ row(s).replacedBy = sessions[s].replacedBy
            BY <1>2, <1>3, <1>5, <2>1
        <3> QED
            BY <3>1 DEF Known, Live, NoSession
    <2>2. CASE s \notin H
        <3>1. sessions'[s] = sessions[s]
            BY <1>2, <2>2
        <3>2. Live(s) => Unreplaced(s) /\ origin[s] \notin ended
            BY DEF AInv, EndedStaysEnded, Chained
        <3>3. Live(s) => origin[s] \notin ended'
            BY <1>1, <1>4, <1>6, <2>2, <3>2
        <3> QED
            BY <3>1, <3>3 DEF Known, Live
    <2> QED
        BY <2>1, <2>2
<1>8. sessions' \in [SessionIds -> Session \cup {NoSession}]
    BY <1>2, <1>5 DEF AInv, SessionTypes
<1>9. /\ work' \in [Clients -> Works]
      /\ work'[c] \notin TokenWork
      /\ \A d \in Clients \ {c} : work'[d] = work[d]
    BY <1>2, AnswerFacts
<1>10. \A d \in Clients :
         work'[d] = work[d] /\ work[d].op \in {"refresh", "logout"} /\ work[d].step = "rotate"
         => origin[work[d].token] \notin ended'
    <2> SUFFICES ASSUME NEW d \in Clients, work[d].op \in {"refresh", "logout"},
                        work[d].step = "rotate"
                 PROVE  origin[work[d].token] \notin ended'
        OBVIOUS
    <2>1. d # c
        BY <1>2 DEF Ends
    <2>2. /\ work[d].token \in SessionIds /\ work[d].token \in work[d].holds
          /\ Unreplaced(work[d].token) /\ origin[work[d].token] \notin ended
        BY RotatesLast
    <2>3. work[d].token # u
        BY <1>3, <1>4, <2>1, <2>2
    <2> QED
        BY <1>1, <1>6, <2>2, <2>3
<1>11. \A d \in Clients : work'[d] = work[d] \/ work'[d] \notin TokenWork
    BY <1>9
<1>12. \A s \in ended' : s \in ended \/ (s \in SessionIds /\ Known(s))
    <2>1. o \in SessionIds /\ Known(o)
        BY <1>3, <1>4 DEF AInv, Chained
    <2> QED
        BY <1>1, <2>1
<1> QED
    BY <1>1, <1>7, <1>8, <1>9, <1>10, <1>11, <1>12, StatesChange

-----------------------------------------------------------------------------
(* New sessions *)

LEMMA NewFacts ==
    NewSession \in Session /\ NewSession # NoSession
    /\ NewSession.state = "LIVE" /\ NewSession.replacedBy = None
BY DEF NewSession, NoSession, Session

LEMMA LoginStep ==
    ASSUME AInv, UNCHANGED media, NEW d \in Devices, Login(d)
    PROVE  AInv'
<1>1. /\ user = "ACTIVE" /\ user' = user /\ ended' = ended /\ work' = work
    BY DEF Login, UserFree
<1>2. PICK s \in SessionIds :
         /\ ~Known(s) /\ sessions' = [sessions EXCEPT ![s] = NewSession]
         /\ origin' = [origin EXCEPT ![s] = s] /\ wallet' = [wallet EXCEPT ![d] = s]
    BY DEF Login, Fresh, Known
<1>3. /\ sessions'[s] = NewSession /\ origin'[s] = s
      /\ \A q \in SessionIds \ {s} : sessions'[q] = sessions[q] /\ origin'[q] = origin[q]
    BY <1>2 DEF AInv, SessionTypes
<1> HIDE DEF NewSession
<1>4. SessionTypes'
    BY <1>1, <1>2, NewFacts DEF AInv, SessionTypes
<1>5. /\ Known(s)' /\ Unreplaced(s)' /\ Live(s)'
      /\ \A q \in SessionIds \ {s} : /\ Known(q)' <=> Known(q)
                                     /\ Unreplaced(q)' <=> Unreplaced(q)
                                     /\ Live(q)' <=> Live(q)
    BY <1>3, NewFacts DEF Known, Unreplaced, Live
<1>6. \A q \in SessionIds : Known(q) =>
         /\ q # s /\ origin[q] # s /\ origin[q] \in SessionIds /\ Known(origin[q])
    BY <1>2 DEF AInv, Chained
<1>7. Chained'
    <2>1. \A q \in SessionIds : Live(q)' => Unreplaced(q)'
        BY <1>5 DEF AInv, Chained
    <2>2. \A q \in SessionIds :
             Known(q)' => origin'[q] \in SessionIds /\ sessions'[origin'[q]] # NoSession
        BY <1>3, <1>5, <1>6 DEF Known
    <2>3. \A q, r \in SessionIds :
             Known(q)' /\ sessions'[q].replacedBy = r => Known(r)' /\ origin'[r] = origin'[q]
        <3> SUFFICES ASSUME NEW q \in SessionIds, NEW r \in SessionIds, Known(q)',
                            sessions'[q].replacedBy = r
                     PROVE  Known(r)' /\ origin'[r] = origin'[q]
            OBVIOUS
        <3>1. q # s
            BY <1>3, NewFacts, RowsDistinct
        <3>2. Known(q) /\ sessions[q].replacedBy = r
            BY <1>3, <1>5, <3>1
        <3>3. Known(r) /\ origin[r] = origin[q] /\ r # s
            BY <1>2, <3>2 DEF AInv, Chained
        <3> QED
            BY <1>3, <1>5, <3>1, <3>3
    <2>4. \A q, r \in SessionIds :
             Unreplaced(q)' /\ Unreplaced(r)' /\ origin'[q] = origin'[r] => q = r
        <3> SUFFICES ASSUME NEW q \in SessionIds, NEW r \in SessionIds, Unreplaced(q)',
                            Unreplaced(r)', origin'[q] = origin'[r]
                     PROVE  q = r
            OBVIOUS
        <3>1. CASE q # s /\ r # s
            BY <1>3, <1>5, <3>1 DEF AInv, Chained
        <3>2. CASE q = s /\ r # s
            BY <1>3, <1>5, <1>6, <3>2 DEF Unreplaced
        <3>3. CASE q # s /\ r = s
            BY <1>3, <1>5, <1>6, <3>3 DEF Unreplaced
        <3> QED
            BY <3>1, <3>2, <3>3
    <2> QED
        BY <2>1, <2>2, <2>3, <2>4 DEF Chained, Known, Unreplaced
<1>8. EndedStaysEnded' /\ EndedKnown'
    <2>1. \A q \in ended : q \in SessionIds /\ Known(q) /\ q # s
        BY <1>1, <1>2 DEF AInv, EndedKnown
    <2>2. \A q \in SessionIds : origin'[q] \in ended' => ~Live(q)'
        BY <1>1, <1>3, <1>5, <2>1 DEF AInv, EndedStaysEnded
    <2>3. \A q \in ended' : q \in SessionIds /\ Known(q)'
        BY <1>1, <1>5, <2>1
    <2> QED
        BY <2>2, <2>3 DEF EndedStaysEnded, EndedKnown
<1>9. AllSound'
    <2> SUFFICES ASSUME NEW e \in Clients
                 PROVE  Sound(work[e])'
        BY DEF AllSound
    <2>1. \A q \in SessionIds : Known(q) => Known(q)' /\ origin'[q] = origin[q]
        BY <1>3, <1>5, <1>6
    <2>2. \A q \in SessionIds \cap work[e].holds : Unreplaced(q) => Unreplaced(q)'
        BY <1>5
    <2>3. work[e].op \in {"refresh", "logout"} /\ work[e].step = "rotate"
             => origin[work[e].token] \notin ended'
        BY <1>1, RotatesLast
    <2>4. work'[e] = work[e]
        BY <1>1
    <2> QED
        BY <2>1, <2>2, <2>3, <2>4, KeepsSound
<1>10. SessionLocksExclusive' /\ ErasureIsComplete'
    BY <1>1 DEF AInv, SessionLocksExclusive, ErasureIsComplete
<1> QED
    BY <1>4, <1>7, <1>8, <1>9, <1>10 DEF AInv

LEMMA CommitRotationStep ==
    ASSUME AInv, UNCHANGED media, NEW c \in Clients, CommitRotation(c)
    PROVE  AInv'
<1>1. /\ user = "ACTIVE" /\ user' = user /\ ended' = ended /\ wallet' = wallet
      /\ work[c].op \in {"refresh", "logout"} /\ work[c].step = "rotate"
    BY DEF CommitRotation, Committing
<1>2. PICK t \in SessionIds :
         /\ t = work[c].token /\ t \in work[c].holds /\ Unreplaced(t) /\ origin[t] \notin ended
    BY <1>1, RotatesLast
<1>3. PICK s \in SessionIds :
         /\ ~Known(s) /\ Answer(c, s)
         /\ sessions' = [sessions EXCEPT ![s] = NewSession, ![t].state = "REVOKED",
                                         ![t].replacedBy = s]
         /\ origin' = [origin EXCEPT ![s] = origin[t]]
    BY <1>2 DEF CommitRotation, Fresh, Known
<1> DEFINE row == [[sessions[t] EXCEPT !.state = "REVOKED"] EXCEPT !.replacedBy = s]
<1>4. Known(t) /\ s # t /\ sessions[t] \in Session
    BY <1>2, <1>3 DEF Unreplaced, Known, AInv, SessionTypes
<1>5. row \in Session /\ row.state = "REVOKED" /\ row.replacedBy = s
    <2> DEFINE v == [sessions[t] EXCEPT !.state = "REVOKED"]
    <2>1. v \in Session /\ v.state = "REVOKED"
        BY <1>4 DEF Session
    <2> HIDE DEF v
    <2>2. LET z == [v EXCEPT !.replacedBy = s]
          IN  z \in Session /\ z.state = "REVOKED" /\ z.replacedBy = s
        BY <2>1 DEF Session
    <2> QED
        BY <2>2 DEF v
<1>6. /\ sessions'[s] = NewSession /\ sessions'[t] = row
      /\ \A q \in SessionIds \ {s, t} : sessions'[q] = sessions[q]
      /\ sessions' = [q \in SessionIds |-> sessions'[q]]
    BY <1>3, <1>4 DEF AInv, SessionTypes
<1>7. /\ origin'[s] = origin[t]
      /\ \A q \in SessionIds \ {s} : origin'[q] = origin[q]
    BY <1>3 DEF AInv, SessionTypes
<1> HIDE DEF NewSession, row
<1>8. /\ work' \in [Clients -> Works]
      /\ work'[c] \notin TokenWork /\ work'[c].holds = {}
      /\ \A d \in Clients \ {c} : work'[d] = work[d]
    BY <1>1, <1>3, AnswerFacts
<1>9. SessionTypes'
    <2>1. \A q \in SessionIds : sessions'[q] \in Session \cup {NoSession}
        BY <1>5, <1>6, NewFacts DEF AInv, SessionTypes
    <2>2. sessions' \in [SessionIds -> Session \cup {NoSession}]
        BY <1>6, <2>1
    <2> QED
        BY <1>1, <1>2, <1>3, <1>8, <2>2 DEF AInv, SessionTypes
<1>10. row # NoSession
    BY <1>5 DEF NoSession
<1>11. /\ Known(s)' /\ Unreplaced(s)' /\ Live(s)'
       /\ Known(t)' /\ ~Unreplaced(t)' /\ ~Live(t)'
       /\ \A q \in SessionIds \ {s, t} :
             /\ Known(q)' <=> Known(q)
             /\ Unreplaced(q)' <=> Unreplaced(q)
             /\ Live(q)' <=> Live(q)
    BY <1>5, <1>6, <1>10, NewFacts, RowsDistinct DEF Known, Unreplaced, Live
<1>12. \A q \in SessionIds : Known(q) =>
          /\ q # s /\ origin[q] # s /\ origin[q] \in SessionIds /\ Known(origin[q])
    BY <1>3 DEF AInv, Chained
<1>13. \A q \in SessionIds : Known(q) => Known(q)' /\ origin'[q] = origin[q]
    BY <1>7, <1>11, <1>12
<1>14. Chained'
    <2>1. \A q \in SessionIds : Live(q)' => Unreplaced(q)'
        BY <1>11 DEF AInv, Chained
    <2>2. \A q \in SessionIds :
             Known(q)' => origin'[q] \in SessionIds /\ sessions'[origin'[q]] # NoSession
        <3> SUFFICES ASSUME NEW q \in SessionIds, Known(q)'
                     PROVE  origin'[q] \in SessionIds /\ sessions'[origin'[q]] # NoSession
            OBVIOUS
        <3>1. \E r \in SessionIds : Known(r) /\ origin'[q] = origin[r]
            BY <1>4, <1>7, <1>11
        <3>2. PICK r \in SessionIds : Known(r) /\ origin'[q] = origin[r]
            BY <3>1
        <3> QED
            BY <1>12, <1>13, <3>2 DEF Known
    <2>3. \A q, r \in SessionIds :
             Known(q)' /\ sessions'[q].replacedBy = r => Known(r)' /\ origin'[r] = origin'[q]
        <3> SUFFICES ASSUME NEW q \in SessionIds, NEW r \in SessionIds, Known(q)',
                            sessions'[q].replacedBy = r
                     PROVE  Known(r)' /\ origin'[r] = origin'[q]
            OBVIOUS
        <3>1. q # s
            BY <1>6, NewFacts, RowsDistinct
        <3>2. CASE q = t
            <4>1. r = s
                BY <1>5, <1>6, <3>2
            <4> QED
                BY <1>4, <1>7, <1>11, <3>2, <4>1
        <3>3. CASE q # t
            <4>1. Known(q) /\ sessions[q].replacedBy = r
                BY <1>6, <1>11, <3>1, <3>3
            <4>2. Known(r) /\ origin[r] = origin[q]
                BY <4>1 DEF AInv, Chained
            <4> QED
                BY <1>13, <4>1, <4>2
        <3> QED
            BY <3>2, <3>3
    <2>4. \A q \in SessionIds : Unreplaced(q) /\ origin[q] = origin[t] => q = t
        BY <1>2 DEF AInv, Chained
    <2>5. \A q, r \in SessionIds :
             Unreplaced(q)' /\ Unreplaced(r)' /\ origin'[q] = origin'[r] => q = r
        <3> SUFFICES ASSUME NEW q \in SessionIds, NEW r \in SessionIds, Unreplaced(q)',
                            Unreplaced(r)', origin'[q] = origin'[r]
                     PROVE  q = r
            OBVIOUS
        <3>1. q # t /\ r # t
            BY <1>11
        <3>2. CASE q # s /\ r # s
            BY <1>7, <1>11, <3>1, <3>2 DEF AInv, Chained
        <3>3. CASE q = s /\ r # s
            BY <1>7, <1>11, <2>4, <3>1, <3>3
        <3>4. CASE q # s /\ r = s
            BY <1>7, <1>11, <2>4, <3>1, <3>4
        <3> QED
            BY <3>2, <3>3, <3>4
    <2> QED
        BY <2>1, <2>2, <2>3, <2>5 DEF Chained, Known, Unreplaced
<1>15. EndedStaysEnded' /\ EndedKnown'
    <2>1. \A q \in ended : q \in SessionIds /\ Known(q)
        BY <1>1 DEF AInv, EndedKnown
    <2>2. \A q \in SessionIds : origin'[q] \in ended' => ~Live(q)'
        BY <1>1, <1>2, <1>7, <1>11 DEF AInv, EndedStaysEnded
    <2>3. \A q \in ended' : q \in SessionIds /\ Known(q)'
        BY <1>1, <1>13, <2>1
    <2> QED
        BY <2>2, <2>3 DEF EndedStaysEnded, EndedKnown
<1>16. AllSound'
    <2> SUFFICES ASSUME NEW e \in Clients
                 PROVE  Sound(work[e])'
        BY DEF AllSound
    <2>1. CASE e = c
        <3>1. work'[e].op \notin {"refresh", "logout"}
            BY <1>8, <2>1, WorkKinds
        <3> QED
            BY <3>1 DEF Sound
    <2>2. CASE e # c
        <3>1. \A q \in SessionIds \cap work[e].holds : q # t
            BY <1>2, <2>2 DEF AInv, SessionLocksExclusive
        <3>2. \A q \in SessionIds \cap work[e].holds : Unreplaced(q) => Unreplaced(q)'
            BY <1>11, <3>1
        <3>3. work[e].op \in {"refresh", "logout"} /\ work[e].step = "rotate"
                 => origin[work[e].token] \notin ended'
            BY <1>1, RotatesLast
        <3>4. work'[e] = work[e]
            BY <1>8, <2>2
        <3> QED
            BY <1>13, <3>2, <3>3, <3>4, KeepsSound
    <2> QED
        BY <2>1, <2>2
<1>17. SessionLocksExclusive'
    BY <1>8 DEF AInv, SessionLocksExclusive
<1>18. ErasureIsComplete'
    BY <1>1 DEF ErasureIsComplete
<1> QED
    BY <1>9, <1>14, <1>15, <1>16, <1>17, <1>18 DEF AInv

-----------------------------------------------------------------------------
(* Media *)

LEMMA SameWork ==
    ASSUME AInv, UNCHANGED <<user, sessions, origin, ended>>, wallet' = wallet, work' = work,
           user = "GONE" => Rows' = {}
    PROVE  AInv'
<1>1. \A d \in Clients : work'[d] = work[d] /\ Sound(work[d])
    BY DEF AInv, AllSound
<1>2. \A d \in Clients : Sound(work'[d])
    <2> SUFFICES ASSUME NEW d \in Clients
                 PROVE  Sound(work'[d])
        OBVIOUS
    <2>1. work'[d] = work[d] /\ Sound(work[d])
        BY <1>1
    <2> QED
        BY <2>1
<1>3. /\ wallet' \in [Devices -> SessionIds \cup {None}] /\ work' \in [Clients -> Works]
      /\ SessionLocksExclusive'
    BY DEF AInv, SessionTypes, SessionLocksExclusive
<1> QED
    BY <1>2, <1>3, WorkStep

LEMMA UploadSteps ==
    ASSUME AInv, NEW m \in Media, Reserve(m) \/ Put(m) \/ ExpireUrl(m)
    PROVE  AInv'
<1>1. /\ UNCHANGED <<user, sessions, origin, ended>> /\ wallet' = wallet /\ work' = work
    BY DEF Reserve, Put, ExpireUrl, svars
<1>2. user = "GONE" => Rows' = {}
    BY DEF Reserve, Put, ExpireUrl, UserFree, Rows, AInv, ErasureIsComplete
<1> QED
    BY <1>1, <1>2, SameWork

\* A transaction that holds no session becomes another one of that kind.
LEMMA Becomes ==
    ASSUME AInv, NEW c \in Clients, NEW w \in MediaWork \cup EraseWork \cup {Idle},
           work' = [work EXCEPT ![c] = w], UNCHANGED session,
           user = "GONE" => Rows' = {}
    PROVE  AInv'
<1>1. w \in Works \ TokenWork
    BY DEF Works, MediaWork, EraseWork, Idle, TokenWork
<1>2. /\ UNCHANGED <<user, sessions, origin, ended>>
      /\ wallet' \in [Devices -> SessionIds \cup {None}]
    BY DEF session, AInv, SessionTypes
<1> HIDE DEF session
<1> QED
    BY <1>1, <1>2, Releases

LEMMA StartStep ==
    ASSUME AInv, NEW c \in Clients,
           \/ \E m \in Media : Start(c, "finalize", m) \/ Start(c, "delete", m)
           \/ Start(c, "erase", User)
    PROVE  AInv'
<1>1. UNCHANGED session /\ (user = "GONE" => Rows' = {})
    BY DEF Start, media, Rows, AInv, ErasureIsComplete
<1>2. ASSUME NEW m \in Media, NEW op \in {"finalize", "delete"}, Start(c, op, m)
      PROVE  AInv'
    <2> DEFINE w == [op |-> op, row |-> m, step |-> "lock", for |-> None,
                     holds |-> {}, wants |-> m]
    <2>1. w \in MediaWork
        BY DEF MediaWork
    <2>2. work' = [work EXCEPT ![c] = w]
        BY <1>2 DEF Start
    <2> HIDE DEF w
    <2> QED
        BY <1>1, <2>1, <2>2, Becomes
<1>3. CASE Start(c, "erase", User)
    <2> DEFINE w == [op |-> "erase", row |-> User, step |-> "lock", for |-> None,
                     holds |-> {}, wants |-> User]
    <2>1. w \in EraseWork
        BY DEF EraseWork
    <2>2. work' = [work EXCEPT ![c] = w]
        BY <1>3 DEF Start
    <2> HIDE DEF w
    <2> QED
        BY <1>1, <2>1, <2>2, Becomes
<1> QED
    BY <1>2, <1>3

\* The row of a media transaction, and what it is after its next step.
LEMMA MediaGoes ==
    ASSUME AInv, NEW c \in Clients, work[c].op \in {"finalize", "delete"},
           NEW step \in {"remove", "commit"}, NEW wants \in {User, None}, Goes(c, step, wants),
           UNCHANGED session, user = "GONE" => Rows' = {}
    PROVE  AInv'
<1> DEFINE H == work[c].holds \cup ({work[c].wants} \ {None})
           w == [[[work[c] EXCEPT !.step = step] EXCEPT !.wants = wants] EXCEPT !.holds = H]
<1>1. work[c] \in MediaWork
    BY WorkKinds DEF AInv, SessionTypes
<1>2. H \in SUBSET (Media \cup {User})
    BY <1>1 DEF MediaWork
<1>3. work' = [work EXCEPT ![c] = w]
    BY DEF Goes
<1> HIDE DEF H
<1>4. w \in MediaWork
    <2> DEFINE u == [work[c] EXCEPT !.step = step]
               v == [u EXCEPT !.wants = wants]
    <2>1. u \in MediaWork
        BY <1>1 DEF MediaWork
    <2> HIDE DEF u
    <2>2. v \in MediaWork
        BY <2>1 DEF MediaWork
    <2> HIDE DEF v
    <2>3. [v EXCEPT !.holds = H] \in MediaWork
        BY <1>2, <2>2 DEF MediaWork
    <2> QED
        BY <2>3 DEF v, u
<1> HIDE DEF w
<1> QED
    BY <1>3, <1>4, Becomes

LEMMA MediaSteps ==
    ASSUME AInv, NEW c \in Clients,
           \/ Inspect(c) \/ CommitFinalize(c) \/ LockForDelete(c) \/ Remove(c)
           \/ CommitDelete(c) \/ Fail(c)
    PROVE  AInv'
<1>1. /\ UNCHANGED session
      /\ user = "GONE" => Rows' = {}
    BY DEF Inspect, CommitFinalize, LockForDelete, Remove, CommitDelete, Fail, media, Rows, AInv,
           ErasureIsComplete
<1>2. CASE Inspect(c)
    BY <1>1, <1>2, MediaGoes DEF Inspect, At
<1>3. CASE LockForDelete(c)
    BY <1>1, <1>3, MediaGoes DEF LockForDelete, At
<1>4. CASE Remove(c)
    BY <1>1, <1>4, MediaGoes DEF Remove, At
<1>5. CASE CommitFinalize(c) \/ CommitDelete(c) \/ Fail(c)
    <2>1. work' = [work EXCEPT ![c] = Idle]
        BY <1>5 DEF CommitFinalize, CommitDelete, Fail, Rollback
    <2> QED
        BY <1>1, <2>1, Becomes
<1> QED
    BY <1>2, <1>3, <1>4, <1>5

-----------------------------------------------------------------------------
(* The erasure of the profile *)

LEMMA LockUserStep ==
    ASSUME AInv, NEW c \in Clients, LockUser(c)
    PROVE  AInv'
<1> DEFINE w == [[[[work[c] EXCEPT !.step = "remove"] EXCEPT !.holds = {User}]
                        EXCEPT !.wants = None] EXCEPT !.row = Keys]
<1>1. UNCHANGED session /\ (user = "GONE" => Rows' = {})
    BY DEF LockUser, media, Rows, AInv, ErasureIsComplete
<1>2. work[c] \in EraseWork /\ work[c].op = "erase"
    BY WorkKinds DEF LockUser, At, AInv, SessionTypes
<1>3. work' = [work EXCEPT ![c] = w]
    BY DEF LockUser
<1>4. Keys \in SUBSET Media
    BY DEF Keys, Rows
<1>5. w = [op |-> "erase", row |-> Keys, step |-> "remove", for |-> None,
           holds |-> {User}, wants |-> None]
    <2> HIDE DEF Keys
    <2> DEFINE u == [work[c] EXCEPT !.step = "remove"]
               v == [u EXCEPT !.holds = {User}]
               x == [v EXCEPT !.wants = None]
    <2>1. u = [op |-> "erase", row |-> u.row, step |-> "remove", for |-> None,
               holds |-> u.holds, wants |-> u.wants]
        BY <1>2 DEF EraseWork
    <2> HIDE DEF u
    <2>2. v = [op |-> "erase", row |-> v.row, step |-> "remove", for |-> None,
               holds |-> {User}, wants |-> v.wants]
        BY <2>1
    <2> HIDE DEF v
    <2>3. x = [op |-> "erase", row |-> x.row, step |-> "remove", for |-> None,
               holds |-> {User}, wants |-> None]
        BY <2>2
    <2> HIDE DEF x
    <2>4. [x EXCEPT !.row = Keys] = [op |-> "erase", row |-> Keys, step |-> "remove",
                                     for |-> None, holds |-> {User}, wants |-> None]
        BY <2>3
    <2> QED
        BY <2>4 DEF u, v, x
<1> HIDE DEF w, Keys
<1>6. w \in EraseWork
    BY <1>4, <1>5 DEF EraseWork
<1> QED
    BY <1>1, <1>3, <1>6, Becomes

LEMMA RemoveAllStep ==
    ASSUME AInv, NEW c \in Clients, RemoveAll(c)
    PROVE  AInv'
<1>1. UNCHANGED session /\ (user = "GONE" => Rows' = {})
    BY DEF RemoveAll, Rows, AInv, ErasureIsComplete
<1>2. work[c] \in EraseWork /\ work[c].op = "erase" /\ work[c].step = "remove"
    BY WorkKinds DEF RemoveAll, At, AInv, SessionTypes
<1>3. Goes(c, "cascade", None) \/ Rollback(c)
    BY DEF RemoveAll
<1>4. CASE Goes(c, "cascade", None)
    <2> DEFINE H == work[c].holds \cup ({work[c].wants} \ {None})
               w == [[[work[c] EXCEPT !.step = "cascade"] EXCEPT !.wants = None]
                        EXCEPT !.holds = H]
    <2>1. H \in SUBSET {User} /\ work[c].row \in {User} \cup SUBSET Media
          /\ work[c].for = None
        BY <1>2 DEF EraseWork
    <2>2. work' = [work EXCEPT ![c] = w]
        BY <1>4 DEF Goes
    <2> HIDE DEF H
    <2>3. w = [op |-> "erase", row |-> work[c].row, step |-> "cascade", for |-> None,
               holds |-> H, wants |-> None]
        <3> DEFINE u == [work[c] EXCEPT !.step = "cascade"]
                   v == [u EXCEPT !.wants = None]
        <3>1. u = [op |-> "erase", row |-> work[c].row, step |-> "cascade", for |-> None,
                   holds |-> u.holds, wants |-> u.wants]
            BY <1>2 DEF EraseWork
        <3> HIDE DEF u
        <3>2. v = [op |-> "erase", row |-> work[c].row, step |-> "cascade", for |-> None,
                   holds |-> v.holds, wants |-> None]
            BY <3>1
        <3> HIDE DEF v
        <3>3. [v EXCEPT !.holds = H] = [op |-> "erase", row |-> work[c].row, step |-> "cascade",
                                        for |-> None, holds |-> H, wants |-> None]
            BY <3>2
        <3> QED
            BY <3>3 DEF u, v
    <2> HIDE DEF w
    <2>4. w \in EraseWork
        BY <2>1, <2>3 DEF EraseWork
    <2> QED
        BY <1>1, <2>2, <2>4, Becomes
<1>5. CASE Rollback(c)
    BY <1>1, <1>5, Becomes DEF Rollback
<1> QED
    BY <1>3, <1>4, <1>5

LEMMA WaitStep ==
    ASSUME AInv, NEW c \in Clients, WaitForRow(c)
    PROVE  AInv'
<1>1. UNCHANGED session /\ (user = "GONE" => Rows' = {})
    BY DEF WaitForRow, media, Rows, AInv, ErasureIsComplete
<1>2. work[c] \in EraseWork /\ work[c].op = "erase" /\ work[c].step = "cascade"
    BY WorkKinds DEF WaitForRow, At, AInv, SessionTypes
<1>3. PICK x \in LockedByOthers(c) : work' = [work EXCEPT ![c].wants = x]
    BY DEF WaitForRow
<1>4. x \in SessionIds \cup Media \cup {User}
    <2>1. PICK d \in Clients : x \in work[d].holds
        BY DEF LockedByOthers
    <2>2. work[d] \in Works
        BY DEF AInv, SessionTypes
    <2> QED
        BY <2>1, <2>2 DEF Works, Idle, TokenWork, AnswerWork, MediaWork, EraseWork
<1> DEFINE w == [work[c] EXCEPT !.wants = x]
<1>5. w \in EraseWork
    BY <1>2, <1>4 DEF EraseWork
<1>6. work' = [work EXCEPT ![c] = w]
    BY <1>3
<1> HIDE DEF w
<1> QED
    BY <1>1, <1>5, <1>6, Becomes

LEMMA EraseProfileStep ==
    ASSUME AInv, NEW c \in Clients, EraseProfile(c)
    PROVE  AInv'
<1>1. /\ user' = "GONE" /\ wallet' = wallet
      /\ sessions' = [s \in SessionIds |-> NoSession]
      /\ origin' = [s \in SessionIds |-> None]
      /\ work' = [work EXCEPT ![c] = Idle]
    BY DEF EraseProfile, Rollback
<1>2. \A s \in SessionIds : sessions'[s] = NoSession /\ ~Known(s)' /\ ~Unreplaced(s)' /\ ~Live(s)'
    BY <1>1 DEF Known, Unreplaced, Live, NoSession
<1>3. /\ work' \in [Clients -> Works] /\ work'[c] = Idle
      /\ \A d \in Clients \ {c} : work'[d] = work[d]
    BY <1>1 DEF AInv, SessionTypes, Works
<1>4. SessionTypes'
    BY <1>1, <1>3 DEF AInv, SessionTypes
<1>5. Chained' /\ EndedStaysEnded' /\ EndedKnown'
    BY <1>1, <1>2 DEF Chained, EndedStaysEnded, EndedKnown, Unreplaced
<1>6. \A d \in Clients \ {c} : work[d].holds = {}
    BY DEF EraseProfile, LockedByOthers
<1>7. AllSound'
    <2> SUFFICES ASSUME NEW d \in Clients
                 PROVE  Sound(work[d])'
        BY DEF AllSound
    <2>1. CASE d = c
        BY <1>3, <2>1 DEF Sound, Idle
    <2>2. CASE d # c
        <3>1. Sound(work[d]) /\ work[d].holds = {} /\ work'[d] = work[d]
            BY <1>3, <1>6, <2>2 DEF AInv, AllSound
        <3> QED
            BY <3>1 DEF Sound, Ends
    <2> QED
        BY <2>1, <2>2
<1>8. SessionLocksExclusive'
    BY <1>3, <1>6 DEF SessionLocksExclusive, Idle
<1>9. Rows' = {}
    BY DEF EraseProfile, DropRows, Rows
<1>10. ErasureIsComplete'
    BY <1>2, <1>9 DEF ErasureIsComplete
<1> QED
    BY <1>4, <1>5, <1>7, <1>8, <1>10 DEF AInv

-----------------------------------------------------------------------------
(* The specification *)

LEMMA AInitEstablishes == AInit => AInv
<1> SUFFICES ASSUME AInit
             PROVE  AInv
    OBVIOUS
<1>1. /\ sessions = [s \in SessionIds |-> NoSession]
      /\ origin = [s \in SessionIds |-> None] /\ wallet = [d \in Devices |-> None]
      /\ work = [c \in Clients |-> Idle] /\ user = "ACTIVE" /\ ended = {}
    BY DEF AInit, SessionInit
<1>2. SessionTypes
    BY <1>1 DEF SessionTypes, Works
<1>3. Chained /\ EndedStaysEnded /\ EndedKnown /\ ErasureIsComplete
    BY <1>1 DEF Chained, EndedStaysEnded, EndedKnown, ErasureIsComplete, Known, Unreplaced,
                Live, NoSession
<1>4. SessionLocksExclusive /\ AllSound
    BY <1>1 DEF SessionLocksExclusive, AllSound, Sound, Idle
<1> QED
    BY <1>2, <1>3, <1>4 DEF AInv

LEMMA AStep == AInv /\ [ANext]_avars => AInv'
<1> SUFFICES ASSUME AInv, [ANext]_avars
             PROVE  AInv'
    OBVIOUS
<1>1. CASE SessionNext /\ UNCHANGED media
    <2>1. ASSUME NEW d \in Devices, Login(d)
          PROVE  AInv'
        BY <1>1, <2>1, LoginStep
    <2>2. ASSUME NEW c \in Clients, NEW d \in Devices, SendRefresh(c, d) \/ SendLogout(c, d)
          PROVE  AInv'
        BY <1>1, <2>2, DeviceCalls
    <2>3. ASSUME NEW c \in Clients, ReadSession(c) \/ WalkChain(c)
          PROVE  AInv'
        BY <1>1, <2>3, ReadStep, WalkStep
    <2>4. ASSUME NEW c \in Clients, CommitRotation(c) \/ CommitEnd(c) \/ CommitRefusal(c)
          PROVE  AInv'
        BY <1>1, <2>4, CommitRotationStep, CommitEndStep, CommitRefusalStep
    <2>5. ASSUME NEW c \in Clients, FailSession(c) \/ GiveUp(c) \/ Deliver(c) \/ Lose(c)
          PROVE  AInv'
        BY <1>1, <2>5, ReleaseSteps, GiveUpStep
    <2>6. ASSUME NEW s \in SessionIds, Expire(s)
          PROVE  AInv'
        BY <1>1, <2>6, ExpireStep
    <2> QED
        BY <1>1, <2>1, <2>2, <2>3, <2>4, <2>5, <2>6 DEF SessionNext, DeviceNext, TokenNext
<1>2. CASE MediaNext
    BY <1>2, UploadSteps, StartStep, MediaSteps DEF MediaNext
<1>3. CASE EraseNext
    BY <1>3, StartStep, LockUserStep, RemoveAllStep, WaitStep, EraseProfileStep DEF EraseNext
<1>4. CASE UNCHANGED avars
    <2>1. /\ UNCHANGED <<user, sessions, origin, ended>> /\ wallet' = wallet /\ work' = work
          /\ user = "GONE" => Rows' = {}
        BY <1>4 DEF avars, svars, Rows, AInv, ErasureIsComplete
    <2> QED
        BY <2>1, SameWork
<1> QED
    BY <1>1, <1>2, <1>3, <1>4 DEF ANext

\* What requests on tokens, media requests and the erasure of the profile rely on: of
\* a sign-in one session at most has no replacement, and what a request has read of the
\* sessions it locked stays true until it commits.
THEOREM AccessInvariant == ASpec => []AInv
BY AInitEstablishes, AStep, PTL DEF ASpec

\* A chain never forks: of the sessions of one sign-in one at most is alive, however
\* many requests with its old and new tokens run at once.
THEOREM ChainsDoNotFork == ASpec => []OneLivePerSignIn
<1>1. AInv => OneLivePerSignIn
    BY DEF AInv, Chained, OneLivePerSignIn
<1> QED
    BY <1>1, AccessInvariant, PTL

\* A sign-in that was signed out, or whose token came back, never has a live session again.
THEOREM EndedIsForEver == ASpec => []EndedStaysEnded
<1>1. AInv => EndedStaysEnded
    BY DEF AInv
<1> QED
    BY <1>1, AccessInvariant, PTL

\* Nothing of the profile is left, or comes back, once the user is gone.
THEOREM ErasureCompletes == ASpec => []ErasureIsComplete
<1>1. AInv => ErasureIsComplete
    BY DEF AInv
<1> QED
    BY <1>1, AccessInvariant, PTL

-----------------------------------------------------------------------------
(* The objects of the storage *)

\* An asset whose row may go: what it leaves in the storage was uploaded late.
Covered(m) == m \in objects \cup urls => m \in raced

\* What a media request, or an erasure, has established on its way.
Prepared(w) ==
    /\ w.op = "finalize" /\ w.step = "commit" => w.wants = User /\ w.row \in objects \cup asked
    /\ w.op = "delete" /\ w.step \in {"remove", "commit"} => assets[w.row] # "NONE"
    /\ w.op = "delete" /\ w.step = "commit" => Covered(w.row)
    /\ w.op = "erase" /\ w.step \in {"remove", "cascade"} => User \in w.holds
    /\ w.op = "erase" /\ w.step = "remove" => Rows \subseteq w.row
    /\ w.op = "erase" /\ w.step = "cascade" => \A m \in Rows : Covered(m)

MediaInv ==
    /\ assets \in [Media -> {"NONE", "PENDING", "FINALIZED", "GONE"}]
    /\ objects \subseteq Media /\ urls \subseteq Media
    /\ FinalizedHasObject
    /\ \A m \in Media : assets[m] = "GONE" => Covered(m)
    /\ \A c \in Clients : Prepared(work[c])

MediaOps == {"finalize", "delete", "erase"}

\* The same media transaction, whatever its device waits for.
SameMedia(w, v) ==
    w.op = v.op /\ w.step = v.step /\ w.row = v.row /\ w.holds = v.holds /\ w.wants = v.wants

LEMMA MediaKept ==
    ASSUME MediaInv, UNCHANGED media,
           \A c \in Clients : work'[c].op \in MediaOps => SameMedia(work'[c], work[c])
    PROVE  MediaInv'
<1>1. \A m : (Covered(m) <=> Covered(m)') /\ Rows' = Rows
    BY DEF media, Covered, Rows
<1>2. ASSUME NEW c \in Clients
      PROVE  Prepared(work[c])'
    <2>1. CASE work'[c].op \in MediaOps
        <3>1. SameMedia(work'[c], work[c]) /\ Prepared(work[c])
            BY <1>2, <2>1 DEF MediaInv
        <3> QED
            BY <1>1, <3>1 DEF Prepared, SameMedia, media
    <2>2. CASE work'[c].op \notin MediaOps
        BY <2>2 DEF Prepared, MediaOps
    <2> QED
        BY <2>1, <2>2
<1> QED
    BY <1>1, <1>2 DEF MediaInv, FinalizedHasObject, media

\* The steps of the sessions leave the media transactions alone.
LEMMA SessionsLeaveMedia ==
    ASSUME AInv, SessionNext, NEW k \in Clients, work'[k].op \in MediaOps
    PROVE  SameMedia(work'[k], work[k])
<1>1. work \in [Clients -> Works] /\ work[k] \in Works
    BY DEF AInv, SessionTypes
<1>2. ASSUME NEW d \in Devices, Login(d)
      PROVE  SameMedia(work'[k], work[k])
    BY <1>2 DEF Login, SameMedia
<1>3. ASSUME NEW c \in Clients, NEW d \in Devices, SendRefresh(c, d)
      PROVE  SameMedia(work'[k], work[k])
    <2>1. work' = [work EXCEPT ![c] = Call("refresh", d)] /\ Call("refresh", d).op = "refresh"
        BY <1>3 DEF SendRefresh, Call
    <2> QED
        BY <1>1, <2>1 DEF SameMedia, MediaOps
<1>4. ASSUME NEW c \in Clients, NEW d \in Devices, SendLogout(c, d)
      PROVE  SameMedia(work'[k], work[k])
    <2>1. k # c
        BY <1>4 DEF SendLogout, Call, MediaOps
    <2>2. work'[k] = [work[k] EXCEPT !.for = None] \/ work'[k] = work[k]
        BY <1>4, <2>1 DEF SendLogout
    <2>3. CASE work'[k] = [work[k] EXCEPT !.for = None]
        <3>1. CASE work[k] \in TokenWork \cup AnswerWork
            BY <2>3, <3>1 DEF TokenWork, AnswerWork, MediaOps
        <3>2. CASE work[k] = Idle
            BY <2>3, <3>2 DEF Idle, MediaOps
        <3>3. CASE work[k] \in MediaWork
            BY <2>3, <3>3 DEF MediaWork, SameMedia
        <3>4. CASE work[k] \in EraseWork
            BY <2>3, <3>4 DEF EraseWork, SameMedia
        <3> QED
            BY <1>1, <3>1, <3>2, <3>3, <3>4 DEF Works
    <2> QED
        BY <2>2, <2>3 DEF SameMedia
<1>5. ASSUME NEW c \in Clients, work[c].op \in {"refresh", "logout", "answer"},
             \A x \in Clients \ {c} : work'[x] = work[x],
             work'[c].op = work[c].op \/ work'[c].op \in {"answer", "none"}
      PROVE  SameMedia(work'[k], work[k])
    BY <1>5 DEF SameMedia, MediaOps
<1>6. ASSUME NEW c \in Clients, ReadSession(c)
      PROVE  SameMedia(work'[k], work[k])
    <2>1. work[c] \in TokenWork
        BY <1>6, WorkKinds DEF ReadSession, AInv, SessionTypes
    <2> QED
        BY <1>1, <1>5, <1>6, <2>1 DEF ReadSession, TokenWork
<1>7. ASSUME NEW c \in Clients, WalkChain(c)
      PROVE  SameMedia(work'[k], work[k])
    <2>1. work[c] \in TokenWork
        BY <1>7, WorkKinds DEF WalkChain, AInv, SessionTypes
    <2> QED
        BY <1>1, <1>5, <1>7, <2>1 DEF WalkChain, TokenWork
<1>8. ASSUME NEW c \in Clients, GiveUp(c)
      PROVE  SameMedia(work'[k], work[k])
    <2>1. work[c] \in TokenWork
        BY <1>8, WorkKinds DEF GiveUp, AInv, SessionTypes
    <2> QED
        BY <1>1, <1>5, <1>8, <2>1 DEF GiveUp, TokenWork
<1>9. ASSUME NEW c \in Clients, CommitRotation(c) \/ CommitEnd(c) \/ CommitRefusal(c)
      PROVE  SameMedia(work'[k], work[k])
    <2>1. work[c].op \in {"refresh", "logout"} /\ \E token : Answer(c, token)
        BY <1>9 DEF CommitRotation, CommitEnd, CommitRefusal, Committing
    <2> QED
        BY <1>1, <1>5, <2>1 DEF Answer
<1>10. ASSUME NEW c \in Clients, FailSession(c) \/ Deliver(c) \/ Lose(c)
       PROVE  SameMedia(work'[k], work[k])
    <2>1. work[c].op \in {"refresh", "logout", "answer"} /\ Rollback(c)
        BY <1>10 DEF FailSession, Deliver, Lose
    <2> QED
        BY <1>1, <1>5, <2>1 DEF Rollback, Idle
<1>11. ASSUME NEW s \in SessionIds, Expire(s)
       PROVE  SameMedia(work'[k], work[k])
    BY <1>11 DEF Expire, SameMedia
<1> QED
    BY <1>2, <1>3, <1>4, <1>6, <1>7, <1>8, <1>9, <1>10, <1>11 DEF SessionNext, DeviceNext, TokenNext

LEMMA UploadsKeepMedia ==
    ASSUME AInv, MediaInv, NEW m \in Media, Reserve(m) \/ Put(m) \/ ExpireUrl(m)
    PROVE  MediaInv'
<1>1. work' = work
    BY DEF Reserve, Put, ExpireUrl, svars
<1>2. CASE Reserve(m)
    <2>1. ASSUME NEW x \in Media, x # m
          PROVE  assets'[x] = assets[x] /\ (Covered(x) => Covered(x)')
        BY <1>2, <2>1 DEF Reserve, MediaInv, Covered
    <2>2. assets[m] = "NONE" /\ assets'[m] = "PENDING"
        BY <1>2 DEF Reserve, MediaInv
    <2>3. ASSUME NEW c \in Clients
          PROVE  Prepared(work[c])'
        <3>1. Prepared(work[c]) /\ User \notin work[c].holds /\ work[c] \in Works
            BY <1>2 DEF MediaInv, Reserve, UserFree, AInv, SessionTypes
        <3>2. work[c].op = "delete" => work[c].row \in Media
            BY <3>1, WorkKinds DEF MediaWork
        <3> QED
            BY <1>1, <1>2, <2>1, <2>2, <3>1, <3>2 DEF Prepared, Reserve
    <2> QED
        BY <1>1, <1>2, <2>1, <2>2, <2>3 DEF MediaInv, Reserve, FinalizedHasObject
<1>3. CASE Put(m)
    <2>1. \A x : Covered(x) => Covered(x)'
        BY <1>3 DEF Put, Covered
    <2>2. Rows' = Rows
        BY <1>3 DEF Put, Rows
    <2>3. ASSUME NEW c \in Clients
          PROVE  Prepared(work[c])'
        <3>1. Prepared(work[c])
            BY DEF MediaInv
        <3> QED
            BY <1>1, <1>3, <2>1, <2>2, <3>1 DEF Prepared, Put
    <2> QED
        BY <1>1, <1>3, <2>1, <2>3 DEF MediaInv, Put, FinalizedHasObject
<1>4. CASE ExpireUrl(m)
    <2>1. \A x : Covered(x) => Covered(x)'
        BY <1>4 DEF ExpireUrl, Covered
    <2>2. Rows' = Rows
        BY <1>4 DEF ExpireUrl, Rows
    <2>3. ASSUME NEW c \in Clients
          PROVE  Prepared(work[c])'
        <3>1. Prepared(work[c])
            BY DEF MediaInv
        <3> QED
            BY <1>1, <1>4, <2>1, <2>2, <3>1 DEF Prepared, ExpireUrl
    <2> QED
        BY <1>1, <1>4, <2>1, <2>3 DEF MediaInv, ExpireUrl, FinalizedHasObject
<1> QED
    BY <1>2, <1>3, <1>4

\* One transaction begins, goes on or ends, and the tables stay as they are.
LEMMA OneMediaMoves ==
    ASSUME AInv, MediaInv, UNCHANGED media, NEW c \in Clients, Prepared(work'[c]),
           \A d \in Clients \ {c} : work'[d] = work[d]
    PROVE  MediaInv'
<1>1. \A m : (Covered(m) <=> Covered(m)') /\ Rows' = Rows
    BY DEF media, Covered, Rows
<1>2. \A d \in Clients : Prepared(work'[d])
    BY DEF MediaInv
<1>3. ASSUME NEW d \in Clients
      PROVE  Prepared(work[d])'
    BY <1>1, <1>2 DEF Prepared, media
<1> QED
    BY <1>1, <1>3 DEF MediaInv, FinalizedHasObject, media

\* One transaction goes on, having removed objects and kept every row.
LEMMA RemovalKeepsMedia ==
    ASSUME AInv, MediaInv, NEW c \in Clients, NEW rows, NEW gone \in SUBSET rows,
           RemoveObjects(gone), Asked(rows, gone), UNCHANGED <<assets, urls>>,
           \A d \in Clients \ {c} : work'[d] = work[d],
           Prepared(work[c])'
    PROVE  MediaInv'
<1>1. \A m : Covered(m) => Covered(m)'
    BY DEF Covered, RemoveObjects, Asked
<1>2. \A m : m \in objects \cup asked => m \in (objects \cup asked)'
    BY DEF RemoveObjects, Asked
<1>3. Rows' = Rows
    BY DEF Rows
<1>4. ASSUME NEW d \in Clients
      PROVE  Prepared(work[d])'
    <2>1. CASE d = c
        BY <2>1
    <2>2. CASE d # c
        <3>1. work'[d] = work[d] /\ Prepared(work[d])
            BY <2>2 DEF MediaInv
        <3> QED
            BY <1>1, <1>2, <1>3, <3>1 DEF Prepared
    <2> QED
        BY <2>1, <2>2
<1>5. objects' \subseteq objects
    BY DEF RemoveObjects
<1>6. FinalizedHasObject'
    BY <1>2 DEF FinalizedHasObject, MediaInv
<1> QED
    BY <1>1, <1>4, <1>5, <1>6 DEF MediaInv

LEMMA MediaStepsKeepMedia ==
    ASSUME AInv, MediaInv, NEW c \in Clients,
           \/ Inspect(c) \/ CommitFinalize(c) \/ LockForDelete(c) \/ Remove(c)
           \/ CommitDelete(c) \/ Fail(c)
    PROVE  MediaInv'
<1>1. work \in [Clients -> Works] /\ Prepared(work[c])
    BY DEF AInv, SessionTypes, MediaInv
<1>2. CASE Inspect(c)
    <2>1. work[c] \in MediaWork /\ work[c].op = "finalize"
        BY <1>1, <1>2, WorkKinds DEF Inspect, At
    <2>2. /\ work'[c].op = "finalize" /\ work'[c].row = work[c].row /\ work'[c].step = "commit"
          /\ work'[c].wants = User
          /\ \A d \in Clients \ {c} : work'[d] = work[d]
        BY <1>1, <1>2, <2>1 DEF Inspect, Goes, MediaWork
    <2>3. work[c].row \in objects \cup asked
        BY <1>2, <2>1 DEF Inspect, Uploaded, MediaInv, FinalizedHasObject, MediaWork
    <2>4. Prepared(work'[c])
        BY <2>2, <2>3 DEF Prepared
    <2> QED
        BY <1>2, <2>2, <2>4, OneMediaMoves DEF Inspect
<1>3. CASE LockForDelete(c)
    <2>1. work[c] \in MediaWork /\ work[c].op = "delete"
        BY <1>1, <1>3, WorkKinds DEF LockForDelete, At
    <2>2. /\ work'[c].op = "delete" /\ work'[c].row = work[c].row /\ work'[c].step = "remove"
          /\ \A d \in Clients \ {c} : work'[d] = work[d]
        BY <1>1, <1>3, <2>1 DEF LockForDelete, Goes, MediaWork
    <2>3. assets[work[c].row] # "NONE"
        BY <1>3 DEF LockForDelete, Rows
    <2>4. Prepared(work'[c])
        BY <2>2, <2>3 DEF Prepared
    <2> QED
        BY <1>3, <2>2, <2>4, OneMediaMoves DEF LockForDelete
<1>4. CASE Remove(c)
    <2>1. work[c] \in MediaWork /\ work[c].op = "delete" /\ work[c].step = "remove"
        BY <1>1, <1>4, WorkKinds DEF Remove, At
    <2>2. /\ work'[c].op = "delete" /\ work'[c].row = work[c].row /\ work'[c].step = "commit"
          /\ \A d \in Clients \ {c} : work'[d] = work[d]
        BY <1>1, <1>4, <2>1 DEF Remove, Goes, MediaWork
    <2>3. PICK m : m = work[c].row
        OBVIOUS
    <2>4. /\ RemoveObjects({m}) /\ Asked({m}, {m}) /\ UNCHANGED <<assets, urls>>
        BY <1>4, <2>3 DEF Remove
    <2>5. Covered(m)' /\ assets'[m] # "NONE"
        BY <1>1, <2>1, <2>3, <2>4 DEF Covered, RemoveObjects, Asked, Prepared
    <2>6. Prepared(work[c])'
        BY <2>2, <2>3, <2>5 DEF Prepared
    <2> QED
        BY <2>2, <2>4, <2>6, RemovalKeepsMedia
<1>5. CASE CommitFinalize(c)
    <2>1. work[c] \in MediaWork /\ work[c].op = "finalize" /\ work[c].step = "commit"
        BY <1>1, <1>5, WorkKinds DEF CommitFinalize, At
    <2>2. PICK m \in Media : m = work[c].row
        BY <2>1 DEF MediaWork
    <2>3. /\ assets' = [assets EXCEPT ![m] = "FINALIZED"] /\ UNCHANGED <<objects, urls, asked, raced>>
          /\ work'[c] = Idle /\ \A d \in Clients \ {c} : work'[d] = work[d]
          /\ work[c].wants = User /\ m \in objects \cup asked
        BY <1>1, <1>5, <2>1, <2>2 DEF CommitFinalize, Rollback, Prepared
    <2>4. \A x : Covered(x) <=> Covered(x)'
        BY <2>3 DEF Covered
    <2>5. ASSUME NEW d \in Clients \ {c}
          PROVE  Prepared(work[d])'
        <3>1. Prepared(work[d]) /\ User \notin work[d].holds /\ work'[d] = work[d]
            BY <1>5, <2>3 DEF MediaInv, CommitFinalize, CanLock
        <3>2. \A x : assets[x] # "NONE" => assets'[x] # "NONE" \/ x \notin Media
            BY <2>3 DEF MediaInv
        <3>3. work[d].op = "delete" => work[d].row \in Media
            BY <1>1, WorkKinds DEF MediaWork
        <3> QED
            BY <2>3, <2>4, <3>1, <3>2, <3>3 DEF Prepared
    <2>6. Prepared(work[c])'
        BY <2>3 DEF Prepared, Idle
    <2>7. FinalizedHasObject'
        BY <2>3 DEF FinalizedHasObject, MediaInv
    <2>8. \A x \in Media : assets'[x] = "GONE" => Covered(x)'
        BY <2>3, <2>4 DEF MediaInv
    <2> QED
        BY <2>3, <2>5, <2>6, <2>7, <2>8 DEF MediaInv
<1>6. CASE CommitDelete(c)
    <2>1. work[c] \in MediaWork /\ work[c].op = "delete" /\ work[c].step = "commit"
        BY <1>1, <1>6, WorkKinds DEF CommitDelete, At
    <2>2. PICK m \in Media : m = work[c].row
        BY <2>1 DEF MediaWork
    <2>3. /\ assets' = [x \in Media |-> IF x = m THEN "GONE" ELSE assets[x]]
          /\ UNCHANGED <<objects, urls, asked, raced>>
          /\ work'[c] = Idle /\ \A d \in Clients \ {c} : work'[d] = work[d]
          /\ Covered(m)
        BY <1>1, <1>6, <2>1, <2>2 DEF CommitDelete, DropRows, Rollback, Prepared
    <2>4. \A x : Covered(x) <=> Covered(x)'
        BY <2>3 DEF Covered
    <2>5. ASSUME NEW d \in Clients \ {c}
          PROVE  Prepared(work[d])'
        <3>1. Prepared(work[d]) /\ work'[d] = work[d]
            BY <2>3 DEF MediaInv
        <3>2. \A x \in Media : assets[x] # "NONE" => assets'[x] # "NONE"
            BY <2>3
        <3>3. work[d].op = "delete" => work[d].row \in Media
            BY <1>1, WorkKinds DEF MediaWork
        <3>4. Rows' \subseteq Rows
            BY <2>3 DEF Rows
        <3> QED
            BY <2>3, <2>4, <3>1, <3>2, <3>3, <3>4 DEF Prepared
    <2>6. Prepared(work[c])'
        BY <2>3 DEF Prepared, Idle
    <2>7. FinalizedHasObject'
        BY <2>3 DEF FinalizedHasObject, MediaInv
    <2>8. \A x \in Media : assets'[x] = "GONE" => Covered(x)'
        BY <2>3, <2>4 DEF MediaInv
    <2> QED
        BY <2>3, <2>5, <2>6, <2>7, <2>8 DEF MediaInv
<1>7. CASE Fail(c)
    <2>1. work'[c] = Idle /\ \A d \in Clients \ {c} : work'[d] = work[d]
        BY <1>1, <1>7 DEF Fail, Rollback
    <2>2. Prepared(work'[c])
        BY <2>1 DEF Prepared, Idle
    <2> QED
        BY <1>7, <2>1, <2>2, OneMediaMoves DEF Fail
<1> QED
    BY <1>2, <1>3, <1>4, <1>5, <1>6, <1>7

LEMMA StartsKeepMedia ==
    ASSUME AInv, MediaInv, NEW c \in Clients, NEW op \in MediaOps, NEW row, Start(c, op, row)
    PROVE  MediaInv'
<1>1. work'[c].step = "lock" /\ \A d \in Clients \ {c} : work'[d] = work[d]
    BY DEF Start, AInv, SessionTypes
<1>2. Prepared(work'[c])
    BY <1>1 DEF Prepared
<1> QED
    BY <1>1, <1>2, OneMediaMoves DEF Start

LEMMA EraseStepsKeepMedia ==
    ASSUME AInv, MediaInv, NEW c \in Clients,
           LockUser(c) \/ RemoveAll(c) \/ WaitForRow(c) \/ EraseProfile(c)
    PROVE  MediaInv'
<1>1. work \in [Clients -> Works] /\ Prepared(work[c]) /\ work[c] \in EraseWork
      /\ work[c].op = "erase"
    BY WorkKinds DEF AInv, SessionTypes, MediaInv, LockUser, RemoveAll, WaitForRow, EraseProfile, At
<1>2. CASE LockUser(c)
    <2>1. /\ work'[c].op = "erase" /\ work'[c].step = "remove" /\ work'[c].holds = {User}
          /\ work'[c].row = Keys
          /\ \A d \in Clients \ {c} : work'[d] = work[d]
        BY <1>1, <1>2 DEF LockUser, EraseWork
    <2>2. Prepared(work'[c])
        BY <2>1 DEF Prepared, Keys
    <2> QED
        BY <1>2, <2>1, <2>2, OneMediaMoves DEF LockUser
<1>3. CASE RemoveAll(c)
    <2>1. PICK rows : rows = work[c].row
        OBVIOUS
    <2>2. PICK gone \in SUBSET rows :
             /\ RemoveObjects(gone) /\ Asked(rows, gone)
             /\ IF gone = rows THEN Goes(c, "cascade", None) ELSE Rollback(c)
        BY <1>3, <2>1 DEF RemoveAll
    <2>3. UNCHANGED <<assets, urls>> /\ \A d \in Clients \ {c} : work'[d] = work[d]
        BY <1>1, <1>3, <2>2 DEF RemoveAll, Goes, Rollback
    <2>4. Prepared(work[c])'
        <3>1. CASE gone = rows
            <4>1. /\ work'[c].op = "erase" /\ work'[c].step = "cascade"
                  /\ work[c].holds \subseteq work'[c].holds
                BY <1>1, <2>2, <3>1 DEF Goes, EraseWork
            <4>2. Rows \subseteq gone /\ User \in work[c].holds
                BY <1>1, <1>3, <2>1, <3>1 DEF RemoveAll, At, Prepared
            <4>3. Rows' = Rows
                BY <2>3 DEF Rows
            <4>4. \A m \in Rows' : Covered(m)'
                BY <2>2, <2>3, <4>2, <4>3 DEF Covered, RemoveObjects, Asked
            <4> QED
                BY <4>1, <4>2, <4>4 DEF Prepared
        <3>2. CASE gone # rows
            <4>1. work'[c] = Idle
                BY <1>1, <2>2, <3>2 DEF Rollback
            <4> QED
                BY <4>1 DEF Prepared, Idle
        <3> QED
            BY <3>1, <3>2
    <2> QED
        BY <2>2, <2>3, <2>4, RemovalKeepsMedia
<1>4. CASE WaitForRow(c)
    <2>1. /\ work'[c].op = work[c].op /\ work'[c].step = work[c].step
          /\ work'[c].holds = work[c].holds /\ work'[c].row = work[c].row
          /\ \A d \in Clients \ {c} : work'[d] = work[d]
        BY <1>1, <1>4 DEF WaitForRow, EraseWork
    <2>2. Prepared(work'[c])
        BY <1>1, <2>1 DEF Prepared
    <2> QED
        BY <1>4, <2>1, <2>2, OneMediaMoves DEF WaitForRow
<1>5. CASE EraseProfile(c)
    <2>1. /\ assets' = [m \in Media |-> IF m \in Rows THEN "GONE" ELSE assets[m]]
          /\ UNCHANGED <<objects, urls, asked, raced>>
          /\ work'[c] = Idle /\ \A d \in Clients \ {c} : work'[d] = work[d]
          /\ \A m \in Rows : Covered(m)
        BY <1>1, <1>5 DEF EraseProfile, DropRows, Rollback, Prepared, At
    <2>2. \A x : Covered(x) <=> Covered(x)'
        BY <2>1 DEF Covered
    <2>3. Rows' = {}
        BY <2>1 DEF Rows
    <2>4. ASSUME NEW d \in Clients \ {c}
          PROVE  Prepared(work[d])'
        <3>1. Prepared(work[d]) /\ work'[d] = work[d]
            BY <2>1 DEF MediaInv
        <3>2. \A x \in Media : assets[x] # "NONE" => assets'[x] # "NONE"
            BY <2>1
        <3>3. work[d].op = "delete" => work[d].row \in Media
            BY <1>1, WorkKinds DEF MediaWork
        <3> QED
            BY <2>1, <2>2, <2>3, <3>1, <3>2, <3>3 DEF Prepared
    <2>5. Prepared(work[c])'
        BY <2>1 DEF Prepared, Idle
    <2>6. FinalizedHasObject'
        BY <2>1 DEF FinalizedHasObject, MediaInv
    <2>7. \A x \in Media : assets'[x] = "GONE" => Covered(x)'
        BY <2>1, <2>2 DEF MediaInv
    <2> QED
        BY <2>1, <2>4, <2>5, <2>6, <2>7 DEF MediaInv
<1> QED
    BY <1>2, <1>3, <1>4, <1>5

LEMMA MediaInit == AInit => MediaInv
BY DEF AInit, SessionInit, MediaInv, FinalizedHasObject, Prepared, Idle

LEMMA MediaStep == AInv /\ MediaInv /\ [ANext]_avars => MediaInv'
<1> SUFFICES ASSUME AInv, MediaInv, [ANext]_avars
             PROVE  MediaInv'
    OBVIOUS
<1>1. CASE SessionNext /\ UNCHANGED media
    BY <1>1, SessionsLeaveMedia, MediaKept
<1>2. CASE MediaNext
    BY <1>2, UploadsKeepMedia, StartsKeepMedia, MediaStepsKeepMedia DEF MediaNext, MediaOps
<1>3. CASE EraseNext
    BY <1>3, StartsKeepMedia, EraseStepsKeepMedia DEF EraseNext, MediaOps
<1>4. CASE UNCHANGED avars
    BY <1>4, MediaKept DEF avars, svars, media, SameMedia
<1> QED
    BY <1>1, <1>2, <1>3, <1>4 DEF ANext

\* A finalized asset has its object, or somebody began to remove it: what a finalization
\* saw of the storage still holds when it commits, whatever deletions and erasures run.
THEOREM FinalizedIsStored == ASpec => []FinalizedHasObject
<1>1. MediaInv => FinalizedHasObject
    BY DEF MediaInv
<1> QED
    BY <1>1, AInitEstablishes, AStep, MediaInit, MediaStep, PTL DEF ASpec

\* An object whose row is gone was uploaded with a URL that outlived the removal: until
\* the row goes, nothing else comes back of what was removed.
THEOREM OrphansAreLate == ASpec => []NoOrphanObject
<1>1. MediaInv => NoOrphanObject
    BY DEF MediaInv, NoOrphanObject, Covered
<1> QED
    BY <1>1, AInitEstablishes, AStep, MediaInit, MediaStep, PTL DEF ASpec

\* Both: whatever uploads, finalizations, deletions and erasures are under way, and
\* wherever one of them fails, the rows and the objects agree.
THEOREM ObjectsAgree == ASpec => []ObjectsMatchRows
BY FinalizedIsStored, OrphansAreLate, PTL DEF ObjectsMatchRows

-----------------------------------------------------------------------------
(* No false alarm *)

\* The device that waits for a request or for its answer, the token that is being
\* refreshed, and the token that an answer brings to a device that waits for it.
For(k)    == IF InTransaction(k) THEN work[k].for ELSE None
Token(k)  == IF work[k].op = "refresh" THEN work[k].token ELSE None
Gift(k)   == IF work[k].op = "answer" /\ work[k].to = "refresh" /\ work[k].for # None
             THEN work[k].gets ELSE None
Busy(d)   == \E k \in Clients : For(k) = d

\* No request has met a token that was replaced.
CleanSteps ==
    \A k \in Clients :
        /\ work[k].op = "logout" => work[k].step \in {"read", "unknown", "end"}
        /\ work[k].op = "refresh" => work[k].step \in {"read", "refuse", "rotate"}

\* As long as no answer is lost, the token of a device at rest, one being refreshed and
\* one on its way to a device are the last of their chains, and no two of them are the
\* same.
Orderly ==
    /\ \A s \in SessionIds : Known(s) => ~sessions[s].compromised
    /\ CleanSteps
    /\ \A k \in Clients : Token(k) # None => Unreplaced(Token(k))
    /\ \A k \in Clients : Gift(k) # None => Unreplaced(Gift(k))
    /\ \A d \in Devices : wallet[d] # None =>
          Known(wallet[d]) /\ (~Busy(d) => Unreplaced(wallet[d]))
    /\ \A d, e \in Devices : wallet[d] = wallet[e] /\ wallet[d] # None => d = e
    /\ \A j, k \in Clients : For(j) = For(k) /\ For(k) # None => j = k
    /\ \A j, k \in Clients : Token(j) = Token(k) /\ Token(k) # None => j = k
    /\ \A j, k \in Clients : Gift(j) = Gift(k) /\ Gift(k) # None => j = k
    /\ \A k \in Clients : Token(k) # None /\ For(k) # None => wallet[For(k)] = Token(k)
    /\ \A k \in Clients, d \in Devices : Token(k) # None /\ wallet[d] = Token(k) => Busy(d)
    /\ \A k \in Clients, d \in Devices : Gift(k) # None => wallet[d] # Gift(k)
    /\ \A j, k \in Clients : Gift(k) # None => Token(j) # Gift(k)

OrderInv ==
    /\ user \in {"ACTIVE", "GONE"} /\ lost \in BOOLEAN
    /\ user = "GONE" \/ lost = TRUE \/ Orderly

LEMMA Views ==
    ASSUME AInv, NEW k \in Clients
    PROVE  /\ For(k) \in Devices \cup {None} /\ Token(k) \in SessionIds \cup {None}
           /\ Gift(k) \in SessionIds \cup {None}
           /\ work[k].op = "refresh" => Token(k) # None
           /\ work[k].op \in {"refresh", "logout", "answer"} => For(k) = work[k].for
           /\ work[k].op \notin {"refresh", "logout", "answer"} => For(k) = None
<1>1. work[k] \in Works
    BY DEF AInv, SessionTypes
<1>2. CASE work[k] = Idle
    BY <1>2 DEF Idle, For, Token, Gift, InTransaction
<1>3. CASE work[k] \in TokenWork
    BY <1>3, RowsDistinct DEF TokenWork, Idle, For, Token, Gift, InTransaction
<1>4. CASE work[k] \in AnswerWork
    BY <1>4 DEF AnswerWork, Idle, For, Token, Gift, InTransaction
<1>5. CASE work[k] \in MediaWork
    BY <1>5 DEF MediaWork, Idle, For, Token, Gift, InTransaction
<1>6. CASE work[k] \in EraseWork
    BY <1>6 DEF EraseWork, Idle, For, Token, Gift, InTransaction
<1> QED
    BY <1>1, <1>2, <1>3, <1>4, <1>5, <1>6 DEF Works

\* The rows of the sessions change, but not what the tokens depend on.
SameChains ==
    /\ \A s \in SessionIds : Known(s)' <=> Known(s)
    /\ \A s \in SessionIds : Unreplaced(s)' <=> Unreplaced(s)
    /\ \A s \in SessionIds : Known(s) => ~sessions'[s].compromised

SameViews(k) == For(k)' = For(k) /\ Token(k)' = Token(k) /\ Gift(k)' = Gift(k)

\* Nothing changes but the state of a session, or the step of a request.
LEMMA OrderlyKept ==
    ASSUME AInv, Orderly, SameChains, wallet' = wallet, CleanSteps',
           \A k \in Clients : SameViews(k)
    PROVE  Orderly'
<1>1. \A d \in Devices : wallet[d] \in SessionIds \cup {None}
    BY DEF AInv, SessionTypes
<1>2. \A d \in Devices : Busy(d)' <=> Busy(d)
    BY DEF Busy, SameViews
<1>3. \A k \in Clients : For(k) \in Devices \cup {None} /\ Token(k) \in SessionIds \cup {None}
                         /\ Gift(k) \in SessionIds \cup {None}
    BY Views
<1>4. \A s \in SessionIds : Known(s)' => ~sessions'[s].compromised
    BY DEF SameChains
<1>5. \A k \in Clients : (Token(k) # None => Unreplaced(Token(k)))'
    BY <1>3 DEF Orderly, SameChains, SameViews, Unreplaced, Known
<1>6. \A k \in Clients : (Gift(k) # None => Unreplaced(Gift(k)))'
    BY <1>3 DEF Orderly, SameChains, SameViews, Unreplaced, Known
<1>7. \A d \in Devices : wallet[d] # None =>
          Known(wallet[d])' /\ (~Busy(d)' => Unreplaced(wallet[d])')
    BY <1>1, <1>2 DEF Orderly, SameChains, Unreplaced, Known
<1> QED
    BY <1>1, <1>2, <1>3, <1>4, <1>5, <1>6, <1>7 DEF Orderly, SameViews

\* A request ends, and its device has the token it had, another one, or none.
LEMMA OrderlyRelease ==
    ASSUME AInv, Orderly, SameChains, CleanSteps', NEW c \in Clients,
           For(c)' = None /\ Token(c)' = None /\ Gift(c)' = None,
           \A k \in Clients \ {c} : SameViews(k),
           wallet' \in [Devices -> SessionIds \cup {None}],
           \A d \in Devices : d # For(c) => wallet'[d] = wallet[d],
           NEW t \in {None, Token(c), Gift(c)},
           \A d \in Devices : d = For(c) => wallet'[d] = t
    PROVE  Orderly'
<1>1. \A d \in Devices : wallet[d] \in SessionIds \cup {None}
    BY DEF AInv, SessionTypes
<1>2. \A d \in Devices : d # For(c) => (Busy(d)' <=> Busy(d))
    BY Views, DevicesAssumption DEF Busy, SameViews, DevicesAssumption
<1>3. \A k \in Clients : For(k) \in Devices \cup {None} /\ Token(k) \in SessionIds \cup {None}
                         /\ Gift(k) \in SessionIds \cup {None}
    BY Views
<1>4. \A s \in SessionIds : Known(s)' => ~sessions'[s].compromised
    BY DEF SameChains
<1>5. \A k \in Clients : (Token(k) # None => Unreplaced(Token(k)))'
    BY <1>3 DEF Orderly, SameChains, SameViews, Unreplaced, Known
<1>6. \A k \in Clients : (Gift(k) # None => Unreplaced(Gift(k)))'
    BY <1>3 DEF Orderly, SameChains, SameViews, Unreplaced, Known
<1>7. t # None => t \in SessionIds /\ Unreplaced(t) /\ Known(t)
    BY <1>3 DEF Orderly, Unreplaced
<1>8. \A d \in Devices : wallet'[d] # None =>
          Known(wallet[d])' /\ (~Busy(d)' => Unreplaced(wallet[d])')
    <2>1. ASSUME NEW d \in Devices, d # For(c), wallet'[d] # None
          PROVE  Known(wallet[d])' /\ (~Busy(d)' => Unreplaced(wallet[d])')
        BY <1>1, <1>2, <2>1 DEF Orderly, SameChains, Unreplaced, Known
    <2>2. ASSUME NEW d \in Devices, d = For(c), wallet'[d] # None
          PROVE  Known(wallet[d])' /\ Unreplaced(wallet[d])'
        BY <1>7, <2>2 DEF SameChains, Unreplaced, Known
    <2> QED
        BY <2>1, <2>2
<1>9. ASSUME NEW d \in Devices, d = For(c), t # None
      PROVE  /\ \A e \in Devices : wallet[e] = t => e = d
             /\ \A k \in Clients \ {c} : Token(k) # t /\ Gift(k) # t
    <2>1. CASE t = Token(c)
        BY <1>9, <2>1, DevicesAssumption DEF Orderly, DevicesAssumption
    <2>2. CASE t = Gift(c)
        BY <1>9, <2>2 DEF Orderly
    <2> QED
        BY <1>9, <2>1, <2>2
<1>10. \A d, e \in Devices : wallet'[d] = wallet'[e] /\ wallet'[d] # None => d = e
    BY <1>9 DEF Orderly
<1>11. /\ \A j, k \in Clients : For(j)' = For(k)' /\ For(k)' # None => j = k
       /\ \A j, k \in Clients : Token(j)' = Token(k)' /\ Token(k)' # None => j = k
       /\ \A j, k \in Clients : Gift(j)' = Gift(k)' /\ Gift(k)' # None => j = k
       /\ \A j, k \in Clients : Gift(k)' # None => Token(j)' # Gift(k)'
    BY DEF Orderly, SameViews
<1>12. \A k \in Clients : Token(k)' # None /\ For(k)' # None => wallet'[For(k)'] = Token(k)'
    BY <1>3 DEF Orderly, SameViews
<1>13. \A k \in Clients, d \in Devices : Token(k)' # None /\ wallet'[d] = Token(k)' => Busy(d)'
    <2> SUFFICES ASSUME NEW k \in Clients, NEW d \in Devices, Token(k)' # None,
                        wallet'[d] = Token(k)'
                 PROVE  Busy(d)'
        OBVIOUS
    <2>1. k # c /\ Token(k)' = Token(k)
        BY DEF SameViews
    <2>2. d # For(c)
        BY <1>9, <2>1
    <2> QED
        BY <1>2, <2>1, <2>2 DEF Orderly
<1>14. \A k \in Clients, d \in Devices : Gift(k)' # None => wallet'[d] # Gift(k)'
    BY <1>9 DEF Orderly, SameViews
<1> QED
    BY <1>4, <1>5, <1>6, <1>8, <1>10, <1>11, <1>12, <1>13, <1>14 DEF Orderly

\* A request answers without a token.
LEMMA OrderlyAnswer ==
    ASSUME AInv, Orderly, SameChains, wallet' = wallet, CleanSteps', NEW c \in Clients,
           For(c)' = For(c) /\ Token(c)' = None /\ Gift(c)' = None,
           \A k \in Clients \ {c} : SameViews(k)
    PROVE  Orderly'
<1>1. \A d \in Devices : wallet[d] \in SessionIds \cup {None}
    BY DEF AInv, SessionTypes
<1>2. \A d \in Devices : Busy(d)' <=> Busy(d)
    BY DEF Busy, SameViews
<1>3. \A k \in Clients : For(k) \in Devices \cup {None} /\ Token(k) \in SessionIds \cup {None}
                         /\ Gift(k) \in SessionIds \cup {None}
    BY Views
<1>4. \A s \in SessionIds : Known(s)' => ~sessions'[s].compromised
    BY DEF SameChains
<1>5. \A k \in Clients : (Token(k) # None => Unreplaced(Token(k)))'
    BY <1>3 DEF Orderly, SameChains, SameViews, Unreplaced, Known
<1>6. \A k \in Clients : (Gift(k) # None => Unreplaced(Gift(k)))'
    BY <1>3 DEF Orderly, SameChains, SameViews, Unreplaced, Known
<1>7. \A d \in Devices : wallet[d] # None =>
          Known(wallet[d])' /\ (~Busy(d)' => Unreplaced(wallet[d])')
    BY <1>1, <1>2 DEF Orderly, SameChains, Unreplaced, Known
<1>8. /\ \A j, k \in Clients : For(j)' = For(k)' /\ For(k)' # None => j = k
      /\ \A j, k \in Clients : Token(j)' = Token(k)' /\ Token(k)' # None => j = k
      /\ \A j, k \in Clients : Gift(j)' = Gift(k)' /\ Gift(k)' # None => j = k
      /\ \A j, k \in Clients : Gift(k)' # None => Token(j)' # Gift(k)'
      /\ \A k \in Clients : Token(k)' # None /\ For(k)' # None => wallet[For(k)'] = Token(k)'
      /\ \A k \in Clients, d \in Devices : Token(k)' # None /\ wallet[d] = Token(k)' => Busy(d)'
      /\ \A k \in Clients, d \in Devices : Gift(k)' # None => wallet[d] # Gift(k)'
    BY <1>2 DEF Orderly, SameViews
<1> QED
    BY <1>4, <1>5, <1>6, <1>7, <1>8 DEF Orderly

LEMMA LoginOrderly ==
    ASSUME AInv, Orderly, NEW d \in Devices, Login(d)
    PROVE  Orderly'
<1>1. /\ wallet[d] = None /\ work' = work
      /\ \A x \in Devices : wallet[x] \in SessionIds \cup {None}
    BY DEF Login, AInv, SessionTypes
<1>2. PICK s \in SessionIds :
         ~Known(s) /\ sessions' = [sessions EXCEPT ![s] = NewSession]
         /\ wallet' = [wallet EXCEPT ![d] = s]
    BY DEF Login, Fresh, Known
<1>3. /\ sessions'[s] = NewSession /\ wallet'[d] = s
      /\ \A q \in SessionIds \ {s} : sessions'[q] = sessions[q]
      /\ \A x \in Devices \ {d} : wallet'[x] = wallet[x]
    BY <1>2 DEF AInv, SessionTypes
<1>4. NewSession # NoSession /\ NewSession.replacedBy = None /\ ~NewSession.compromised
    BY DEF NewSession, NoSession
<1> HIDE DEF NewSession
<1>5. /\ Known(s)' /\ Unreplaced(s)'
      /\ \A q \in SessionIds \ {s} : (Known(q)' <=> Known(q)) /\ (Unreplaced(q)' <=> Unreplaced(q))
    BY <1>3, <1>4 DEF Known, Unreplaced
<1>6. \A q \in SessionIds : Known(q)' => ~sessions'[q].compromised
    BY <1>3, <1>4, <1>5 DEF Orderly
<1>7. \A k \in Clients : SameViews(k) /\ Token(k) # s /\ Gift(k) # s
                         /\ For(k) \in Devices \cup {None} /\ Token(k) \in SessionIds \cup {None}
                         /\ Gift(k) \in SessionIds \cup {None}
    <2> SUFFICES ASSUME NEW k \in Clients
                 PROVE  SameViews(k) /\ Token(k) # s /\ Gift(k) # s
        BY Views
    <2>1. SameViews(k)
        BY <1>1 DEF SameViews, For, Token, Gift, InTransaction
    <2> QED
        BY <1>2, <2>1, RowsDistinct DEF Orderly, Unreplaced
<1>8. \A x \in Devices : wallet[x] # s /\ (Busy(x)' <=> Busy(x))
    BY <1>1, <1>2, <1>7, RowsDistinct DEF Orderly, Busy, SameViews
<1>9. CleanSteps'
    BY <1>1 DEF Orderly, CleanSteps
<1>10. \A k \in Clients : (Token(k) # None => Unreplaced(Token(k)))'
    BY <1>5, <1>7 DEF Orderly, SameViews, Unreplaced, Known
<1>11. \A k \in Clients : (Gift(k) # None => Unreplaced(Gift(k)))'
    BY <1>5, <1>7 DEF Orderly, SameViews, Unreplaced, Known
<1>12. \A x \in Devices : wallet'[x] # None =>
          Known(wallet[x])' /\ (~Busy(x)' => Unreplaced(wallet[x])')
    <2>1. ASSUME NEW x \in Devices, x # d, wallet'[x] # None
          PROVE  Known(wallet[x])' /\ (~Busy(x)' => Unreplaced(wallet[x])')
        BY <1>1, <1>3, <1>5, <1>8, <2>1 DEF Orderly, Unreplaced, Known
    <2>2. Known(wallet[d])' /\ Unreplaced(wallet[d])'
        BY <1>3, <1>5 DEF Unreplaced, Known
    <2> QED
        BY <2>1, <2>2
<1>13. /\ \A x, e \in Devices : wallet'[x] = wallet'[e] /\ wallet'[x] # None => x = e
       /\ \A k \in Clients, x \in Devices : Token(k)' # None /\ wallet'[x] = Token(k)' => Busy(x)'
       /\ \A k \in Clients, x \in Devices : Gift(k)' # None => wallet'[x] # Gift(k)'
    BY <1>3, <1>7, <1>8 DEF Orderly, SameViews
<1>14. \A k \in Clients : Token(k)' # None /\ For(k)' # None => wallet'[For(k)'] = Token(k)'
    BY <1>1, <1>3, <1>7 DEF Orderly, SameViews
<1>15. /\ \A j, k \in Clients : For(j)' = For(k)' /\ For(k)' # None => j = k
       /\ \A j, k \in Clients : Token(j)' = Token(k)' /\ Token(k)' # None => j = k
       /\ \A j, k \in Clients : Gift(j)' = Gift(k)' /\ Gift(k)' # None => j = k
       /\ \A j, k \in Clients : Gift(k)' # None => Token(j)' # Gift(k)'
    BY <1>7 DEF Orderly, SameViews
<1> QED
    BY <1>6, <1>9, <1>10, <1>11, <1>12, <1>13, <1>14, <1>15 DEF Orderly

LEMMA CallsOrderly ==
    ASSUME AInv, Orderly, NEW c \in Clients, NEW d \in Devices, SendRefresh(c, d) \/ SendLogout(c, d)
    PROVE  Orderly'
<1>1. /\ wallet' = wallet /\ sessions' = sessions /\ wallet[d] # None /\ work[c] = Idle
      /\ \A x \in Devices : wallet[x] \in SessionIds \cup {None}
      /\ work \in [Clients -> Works] /\ d # None
    BY DevicesAssumption DEF SendRefresh, SendLogout, MayRefresh, InTransaction, AInv, SessionTypes,
           DevicesAssumption
<1>2. For(c) = None /\ Token(c) = None /\ Gift(c) = None
    BY <1>1 DEF For, Token, Gift, InTransaction, Idle
<1>3. \A k \in Clients : For(k) \in Devices \cup {None} /\ Token(k) \in SessionIds \cup {None}
                         /\ Gift(k) \in SessionIds \cup {None}
    BY Views
<1>4. /\ \A s : (Known(s)' <=> Known(s)) /\ (Unreplaced(s)' <=> Unreplaced(s))
      /\ \A s \in SessionIds : Known(s)' => ~sessions'[s].compromised
    BY <1>1 DEF Known, Unreplaced, Orderly
<1>5. CASE SendRefresh(c, d)
    <2>1. \A k \in Clients : For(k) # d
        BY <1>1, <1>5 DEF SendRefresh, MayRefresh, For
    <2>2. work'[c] = Call("refresh", d) /\ \A k \in Clients \ {c} : work'[k] = work[k]
        BY <1>1, <1>5 DEF SendRefresh
    <2>3. For(c)' = d /\ Token(c)' = wallet[d] /\ Gift(c)' = None
        BY <2>2 DEF Call, For, Token, Gift, InTransaction, Idle
    <2>4. \A k \in Clients \ {c} : SameViews(k)
        BY <2>2 DEF SameViews, For, Token, Gift, InTransaction
    <2>5. CleanSteps'
        BY <2>2 DEF Orderly, CleanSteps, Call
    <2>6. Busy(d)' /\ ~Busy(d) /\ \A x \in Devices \ {d} : Busy(x)' <=> Busy(x)
        BY <1>2, <2>1, <2>3, <2>4, DevicesAssumption DEF Busy, SameViews, DevicesAssumption
    <2>7. wallet[d] \in SessionIds /\ Unreplaced(wallet[d])
        BY <1>1, <2>6 DEF Orderly
    <2>8. \A k \in Clients : (Token(k) # None => Unreplaced(Token(k)))'
        BY <1>1, <2>3, <2>4, <2>7 DEF Orderly, SameViews, Unreplaced, Known
    <2>9. \A k \in Clients : (Gift(k) # None => Unreplaced(Gift(k)))'
        BY <1>1, <2>3, <2>4 DEF Orderly, SameViews, Unreplaced, Known
    <2>10. \A x \in Devices : wallet'[x] # None =>
              Known(wallet[x])' /\ (~Busy(x)' => Unreplaced(wallet[x])')
        BY <1>1, <2>6 DEF Orderly, Unreplaced, Known
    <2>11. /\ \A x, e \in Devices : wallet'[x] = wallet'[e] /\ wallet'[x] # None => x = e
           /\ \A k \in Clients, x \in Devices :
                 Token(k)' # None /\ wallet'[x] = Token(k)' => Busy(x)'
           /\ \A k \in Clients, x \in Devices : Gift(k)' # None => wallet'[x] # Gift(k)'
        BY <1>1, <2>3, <2>4, <2>6 DEF Orderly, SameViews
    <2>12. \A k \in Clients : Token(k)' # None /\ For(k)' # None => wallet'[For(k)'] = Token(k)'
        BY <1>1, <1>3, <2>3, <2>4 DEF Orderly, SameViews
    <2>13. /\ \A j, k \in Clients : For(j)' = For(k)' /\ For(k)' # None => j = k
           /\ \A j, k \in Clients : Token(j)' = Token(k)' /\ Token(k)' # None => j = k
           /\ \A j, k \in Clients : Gift(j)' = Gift(k)' /\ Gift(k)' # None => j = k
           /\ \A j, k \in Clients : Gift(k)' # None => Token(j)' # Gift(k)'
        BY <1>1, <2>1, <2>3, <2>4, <2>6 DEF Orderly, SameViews
    <2> QED
        BY <1>4, <2>5, <2>8, <2>9, <2>10, <2>11, <2>12, <2>13 DEF Orderly
<1>6. CASE SendLogout(c, d)
    <2>1. /\ work'[c] = Call("logout", d)
          /\ \A k \in Clients \ {c} :
                work'[k] = IF InTransaction(k) /\ work[k].for = d
                           THEN [work[k] EXCEPT !.for = None] ELSE work[k]
        BY <1>6 DEF SendLogout
    <2>2. For(c)' = d /\ Token(c)' = None /\ Gift(c)' = None
        BY <2>1 DEF Call, For, Token, Gift, InTransaction, Idle
    <2>3. ASSUME NEW k \in Clients \ {c}
          PROVE  /\ For(k)' = IF For(k) = d THEN None ELSE For(k)
                 /\ Token(k)' = Token(k)
                 /\ Gift(k)' = IF For(k) = d THEN None ELSE Gift(k)
                 /\ work'[k].op = work[k].op
                 /\ work[k].op \in {"refresh", "logout"} => work'[k].step = work[k].step
        <3>1. CASE For(k) # d
            <4>1. work'[k] = work[k]
                BY <1>1, <2>1, <3>1 DEF For
            <4> QED
                BY <3>1, <4>1 DEF For, Token, Gift, InTransaction
        <3>2. CASE For(k) = d
            <4>1. work'[k] = [work[k] EXCEPT !.for = None] /\ work[k] # Idle
                BY <1>1, <2>1, <3>2 DEF For, InTransaction
            <4>2. CASE work[k] \in TokenWork
                BY <3>2, <4>1, <4>2 DEF TokenWork, For, Token, Gift, InTransaction, Idle
            <4>3. CASE work[k] \in AnswerWork
                BY <3>2, <4>1, <4>3 DEF AnswerWork, For, Token, Gift, InTransaction, Idle
            <4>4. CASE work[k] \in MediaWork \cup EraseWork
                BY <1>1, <3>2, <4>4 DEF MediaWork, EraseWork, For, InTransaction
            <4> QED
                BY <1>1, <4>1, <4>2, <4>3, <4>4 DEF Works
        <3> QED
            BY <3>1, <3>2
    <2>4. CleanSteps'
        BY <2>1, <2>3 DEF Orderly, CleanSteps, Call
    <2>5. Busy(d)' /\ \A x \in Devices \ {d} : Busy(x)' <=> Busy(x)
        BY <1>1, <1>2, <2>2, <2>3, DevicesAssumption DEF Busy, DevicesAssumption
    <2>6. \A k \in Clients : (Token(k) # None => Unreplaced(Token(k)))'
        BY <1>1, <2>2, <2>3 DEF Orderly, Unreplaced, Known
    <2>7. \A k \in Clients : (Gift(k) # None => Unreplaced(Gift(k)))'
        BY <1>1, <2>2, <2>3 DEF Orderly, Unreplaced, Known
    <2>8. \A x \in Devices : wallet'[x] # None =>
             Known(wallet[x])' /\ (~Busy(x)' => Unreplaced(wallet[x])')
        BY <1>1, <2>5 DEF Orderly, Unreplaced, Known
    <2>9. /\ \A x, e \in Devices : wallet'[x] = wallet'[e] /\ wallet'[x] # None => x = e
          /\ \A k \in Clients, x \in Devices :
                Token(k)' # None /\ wallet'[x] = Token(k)' => Busy(x)'
          /\ \A k \in Clients, x \in Devices : Gift(k)' # None => wallet'[x] # Gift(k)'
        BY <1>1, <2>2, <2>3, <2>5 DEF Orderly
    <2>10. \A k \in Clients : Token(k)' # None /\ For(k)' # None => wallet'[For(k)'] = Token(k)'
        BY <1>1, <1>3, <2>2, <2>3 DEF Orderly
    <2>11. /\ \A j, k \in Clients : For(j)' = For(k)' /\ For(k)' # None => j = k
           /\ \A j, k \in Clients : Token(j)' = Token(k)' /\ Token(k)' # None => j = k
           /\ \A j, k \in Clients : Gift(j)' = Gift(k)' /\ Gift(k)' # None => j = k
           /\ \A j, k \in Clients : Gift(k)' # None => Token(j)' # Gift(k)'
        BY <2>2, <2>3 DEF Orderly
    <2> QED
        BY <1>4, <2>4, <2>6, <2>7, <2>8, <2>9, <2>10, <2>11 DEF Orderly
<1> QED
    BY <1>5, <1>6

\* A request reads its session, or walks on: only its step and its locks change.
LEMMA WalksOrderly ==
    ASSUME AInv, Orderly, NEW c \in Clients, ReadSession(c) \/ WalkChain(c)
    PROVE  Orderly'
<1>1. /\ wallet' = wallet /\ sessions' = sessions /\ work \in [Clients -> Works]
      /\ work[c] \in TokenWork /\ work[c].op \in {"refresh", "logout"}
    BY WorkKinds DEF ReadSession, WalkChain, AInv, SessionTypes
<1>2. SameChains
    BY <1>1 DEF SameChains, Known, Unreplaced, Orderly
<1>3. \A k \in Clients \ {c} : work'[k] = work[k]
    BY <1>1 DEF ReadSession, WalkChain
<1>4. /\ work'[c].op = work[c].op /\ work'[c].token = work[c].token /\ work'[c].for = work[c].for
      /\ ReadSession(c) => work'[c].step = Verdict(sessions[work[c].token], work[c].op)
      /\ WalkChain(c) => work'[c].step = work[c].step
    <2>1. CASE ReadSession(c)
        <3> HIDE DEF Verdict
        <3>1. PICK step, H, x : /\ step = Verdict(sessions[work[c].token], work[c].op)
                     /\ work' = [work EXCEPT ![c].step = step, ![c].holds = H, ![c].wants = x]
            BY <2>1 DEF ReadSession
        <3>2. /\ work'[c].op = work[c].op /\ work'[c].token = work[c].token
              /\ work'[c].for = work[c].for /\ work'[c].step = step
            BY <1>1, <3>1 DEF TokenWork
        <3>3. ~WalkChain(c)
            BY <1>1, <2>1 DEF ReadSession, WalkChain, Ends
        <3> QED
            BY <3>1, <3>2, <3>3
    <2>2. CASE WalkChain(c)
        <3>1. PICK H, x : work' = [work EXCEPT ![c].holds = H, ![c].wants = x]
            BY <2>2 DEF WalkChain
        <3>2. /\ work'[c].op = work[c].op /\ work'[c].token = work[c].token
              /\ work'[c].for = work[c].for /\ work'[c].step = work[c].step
            BY <1>1, <3>1 DEF TokenWork
        <3>3. ~ReadSession(c)
            BY <1>1, <2>2 DEF ReadSession, WalkChain, Ends
        <3> QED
            BY <3>2, <3>3
    <2> QED
        BY <2>1, <2>2
<1>5. \A k \in Clients : SameViews(k)
    <2>1. SameViews(c)
        BY <1>1, <1>4 DEF SameViews, For, Token, Gift, InTransaction, Idle
    <2>2. \A k \in Clients \ {c} : SameViews(k)
        BY <1>3 DEF SameViews, For, Token, Gift, InTransaction
    <2> QED
        BY <2>1, <2>2
<1>6. /\ work'[c].op = "logout" => work'[c].step \in {"read", "unknown", "end"}
      /\ work'[c].op = "refresh" => work'[c].step \in {"read", "refuse", "rotate"}
    <2>1. CASE WalkChain(c)
        BY <1>4, <2>1 DEF Orderly, CleanSteps
    <2>2. CASE ReadSession(c) /\ work[c].op = "logout"
        BY <1>4, <2>2 DEF Verdict
    <2>3. CASE ReadSession(c) /\ work[c].op = "refresh"
        <3>1. PICK t \in SessionIds : t = work[c].token
            BY <1>1 DEF TokenWork
        <3>2. Unreplaced(t) /\ ~sessions[t].compromised
            BY <2>3, <3>1, RowsDistinct DEF Orderly, Token, Unreplaced
        <3> QED
            BY <1>4, <2>3, <3>1, <3>2 DEF Verdict, Unreplaced, Known
    <2> QED
        BY <1>1, <2>1, <2>2, <2>3
<1>7. CleanSteps'
    BY <1>3, <1>6 DEF Orderly, CleanSteps
<1> QED
    BY <1>1, <1>2, <1>5, <1>7, OrderlyKept

LEMMA AnswerViews ==
    ASSUME AInv, NEW c \in Clients, work[c].op \in {"refresh", "logout"}, NEW token,
           Answer(c, token)
    PROVE  /\ work'[c].op = "answer"
           /\ For(c)' = For(c) /\ Token(c)' = None
           /\ Gift(c)' = IF work[c].op = "refresh" /\ For(c) # None THEN token ELSE None
           /\ \A k \in Clients \ {c} : work'[k] = work[k] /\ SameViews(k)
<1>1. work \in [Clients -> Works] /\ For(c) = work[c].for
    BY Views DEF AInv, SessionTypes
<1>2. /\ work'[c] = [op |-> "answer", to |-> work[c].op, token |-> work[c].token,
                     gets |-> token, for |-> work[c].for, holds |-> {}, wants |-> None]
      /\ \A k \in Clients \ {c} : work'[k] = work[k]
    BY <1>1 DEF Answer
<1>3. \A k \in Clients \ {c} : SameViews(k)
    BY <1>2 DEF SameViews, For, Token, Gift, InTransaction
<1>4. work'[c].op = "answer" /\ work'[c].to = work[c].op /\ work'[c].for = work[c].for
      /\ work'[c].gets = token /\ work'[c] # Idle
    BY <1>2 DEF Idle
<1>5. For(c)' = work[c].for
    BY <1>4 DEF For, InTransaction
<1>6. Token(c)' = None
    BY <1>4 DEF Token
<1>7. Gift(c)' = IF work[c].op = "refresh" /\ work[c].for # None THEN token ELSE None
    BY <1>4 DEF Gift
<1> QED
    BY <1>1, <1>2, <1>3, <1>4, <1>5, <1>6, <1>7

LEMMA EndingsOrderly ==
    ASSUME AInv, Orderly, NEW c \in Clients, CommitEnd(c) \/ CommitRefusal(c)
    PROVE  Orderly'
<1>1. /\ work[c].op \in {"refresh", "logout"} /\ Answer(c, None) /\ wallet' = wallet
      /\ \A s \in work[c].holds : Known(s) /\ sessions[s] \in Session
    BY HeldSessions DEF CommitEnd, CommitRefusal, Committing
<1>2. work[c].step # "reuse"
    BY <1>1 DEF Orderly, CleanSteps
<1>3. SameChains
    <2>1. ASSUME NEW s \in SessionIds
          PROVE  /\ Known(s)' <=> Known(s)
                 /\ Unreplaced(s)' <=> Unreplaced(s)
                 /\ Known(s) => ~sessions'[s].compromised
        <3>1. CASE s \notin work[c].holds
            <4>1. sessions'[s] = sessions[s]
                BY <3>1 DEF CommitEnd, CommitRefusal
            <4> QED
                BY <4>1 DEF Known, Unreplaced, Orderly
        <3>2. CASE s \in work[c].holds
            <4>1. PICK row : row = sessions[s]
                OBVIOUS
            <4>2. row \in Session /\ ~row.compromised
                BY <1>1, <3>2, <4>1 DEF Orderly
            <4>3. \/ sessions'[s] = [row EXCEPT !.state = "REVOKED"]
                  \/ sessions'[s] = [row EXCEPT !.state = "REVOKED",
                                                !.compromised = @ \/ work[c].step = "reuse"]
                BY <3>2, <4>1 DEF CommitEnd, CommitRefusal
            <4>4. CASE sessions'[s] = [row EXCEPT !.state = "REVOKED"]
                BY <4>1, <4>2, <4>4 DEF Session, NoSession, Known, Unreplaced
            <4>5. CASE sessions'[s] = [row EXCEPT !.state = "REVOKED",
                                                  !.compromised = @ \/ work[c].step = "reuse"]
                <5>1. (row.compromised \/ work[c].step = "reuse") = FALSE
                    BY <1>2, <4>2
                <5>2. sessions'[s] = [[row EXCEPT !.state = "REVOKED"] EXCEPT !.compromised = FALSE]
                    BY <4>2, <4>5, <5>1 DEF Session
                <5> QED
                    BY <4>1, <4>2, <5>2 DEF Session, NoSession, Known, Unreplaced
            <4> QED
                BY <4>3, <4>4, <4>5
        <3> QED
            BY <3>1, <3>2
    <2> QED
        BY <2>1 DEF SameChains
<1>4. /\ work'[c].op = "answer"
      /\ For(c)' = For(c) /\ Token(c)' = None /\ Gift(c)' = None
      /\ \A k \in Clients \ {c} : work'[k] = work[k] /\ SameViews(k)
    BY <1>1, AnswerViews
<1>5. CleanSteps'
    BY <1>4 DEF Orderly, CleanSteps
<1> QED
    BY <1>1, <1>3, <1>4, <1>5, OrderlyAnswer

LEMMA RotationOrderly ==
    ASSUME AInv, Orderly, NEW c \in Clients, CommitRotation(c)
    PROVE  Orderly'
<1>1. /\ work[c].op = "refresh" /\ work[c].step = "rotate" /\ wallet' = wallet
      /\ \A d \in Devices : wallet[d] \in SessionIds \cup {None}
    BY DEF CommitRotation, Committing, Orderly, CleanSteps, AInv, SessionTypes
<1>2. PICK t \in SessionIds : t = work[c].token /\ t = Token(c) /\ t # None
    BY <1>1, HeldSessions, RowsDistinct DEF Token
<1>3. PICK s \in SessionIds :
         /\ ~Known(s) /\ Answer(c, s)
         /\ sessions' = [sessions EXCEPT ![s] = NewSession, ![t].state = "REVOKED",
                                         ![t].replacedBy = s]
    BY <1>2 DEF CommitRotation, Fresh, Known
<1>4. Unreplaced(t) /\ Known(t) /\ s # t /\ s # None
    BY <1>2, <1>3, RowsDistinct DEF Orderly, Unreplaced
<1>5. /\ sessions'[s] = NewSession
      /\ sessions'[t] # NoSession /\ ~sessions'[t].compromised
      /\ \A q \in SessionIds \ {s, t} : sessions'[q] = sessions[q]
    <2>1. sessions[t] \in Session /\ ~sessions[t].compromised
        BY <1>4 DEF AInv, SessionTypes, Known, Orderly
    <2>2. PICK row : row = [[sessions[t] EXCEPT !.state = "REVOKED"] EXCEPT !.replacedBy = s]
        OBVIOUS
    <2>3. row \in Session /\ ~row.compromised
        BY <2>1, <2>2 DEF Session
    <2>4. row # NoSession
        BY <2>3 DEF Session, NoSession
    <2> HIDE DEF NewSession
    <2>5. sessions'[t] = row /\ sessions'[s] = NewSession
          /\ \A q \in SessionIds \ {s, t} : sessions'[q] = sessions[q]
        BY <1>3, <1>4, <2>1, <2>2 DEF AInv, SessionTypes
    <2> QED
        BY <2>3, <2>4, <2>5
<1>6. NewSession # NoSession /\ NewSession.replacedBy = None /\ ~NewSession.compromised
    BY DEF NewSession, NoSession
<1> HIDE DEF NewSession
<1>7. /\ Known(s)' /\ Unreplaced(s)' /\ Known(t)'
      /\ \A q \in SessionIds \ {s, t} : (Known(q)' <=> Known(q)) /\ (Unreplaced(q)' <=> Unreplaced(q))
    BY <1>5, <1>6 DEF Known, Unreplaced
<1>8. \A q \in SessionIds : Known(q)' => ~sessions'[q].compromised
    BY <1>5, <1>6, <1>7 DEF Orderly
<1>9. /\ work'[c].op = "answer"
      /\ For(c)' = For(c) /\ Token(c)' = None /\ Gift(c)' \in {s, None}
      /\ \A k \in Clients \ {c} : work'[k] = work[k] /\ SameViews(k)
    BY <1>1, <1>3, AnswerViews
<1>10. \A k \in Clients : /\ For(k) \in Devices \cup {None} /\ Token(k) \in SessionIds \cup {None}
                          /\ Gift(k) \in SessionIds \cup {None}
                          /\ Token(k) # s /\ Gift(k) # s /\ Gift(k) # t
                          /\ k # c => Token(k) # t
    <2> SUFFICES ASSUME NEW k \in Clients
                 PROVE  /\ Token(k) # s /\ Gift(k) # s /\ Gift(k) # t
                        /\ k # c => Token(k) # t
        BY Views
    <2> QED
        BY <1>2, <1>3, <1>4 DEF Orderly, Unreplaced
<1>11. \A d \in Devices : wallet[d] # s /\ (Busy(d)' <=> Busy(d)) /\ (wallet[d] = t => Busy(d))
    BY <1>2, <1>3, <1>4, <1>9 DEF Orderly, Busy, SameViews
<1>12. CleanSteps'
    BY <1>9 DEF Orderly, CleanSteps
<1>13. \A k \in Clients : (Token(k) # None => Unreplaced(Token(k)))'
    BY <1>7, <1>9, <1>10 DEF Orderly, SameViews, Unreplaced, Known
<1>14. \A k \in Clients : (Gift(k) # None => Unreplaced(Gift(k)))'
    BY <1>7, <1>9, <1>10 DEF Orderly, SameViews, Unreplaced, Known
<1>15. \A d \in Devices : wallet'[d] # None =>
          Known(wallet[d])' /\ (~Busy(d)' => Unreplaced(wallet[d])')
    BY <1>1, <1>7, <1>11 DEF Orderly, Unreplaced, Known
<1>16. /\ \A d, e \in Devices : wallet'[d] = wallet'[e] /\ wallet'[d] # None => d = e
       /\ \A k \in Clients, d \in Devices : Token(k)' # None /\ wallet'[d] = Token(k)' => Busy(d)'
       /\ \A k \in Clients, d \in Devices : Gift(k)' # None => wallet'[d] # Gift(k)'
       /\ \A k \in Clients : Token(k)' # None /\ For(k)' # None => wallet'[For(k)'] = Token(k)'
    BY <1>1, <1>9, <1>11 DEF Orderly, SameViews
<1>17. /\ \A j, k \in Clients : For(j)' = For(k)' /\ For(k)' # None => j = k
       /\ \A j, k \in Clients : Token(j)' = Token(k)' /\ Token(k)' # None => j = k
       /\ \A j, k \in Clients : Gift(j)' = Gift(k)' /\ Gift(k)' # None => j = k
       /\ \A j, k \in Clients : Gift(k)' # None => Token(j)' # Gift(k)'
    BY <1>9, <1>10 DEF Orderly, SameViews
<1> QED
    BY <1>8, <1>12, <1>13, <1>14, <1>15, <1>16, <1>17 DEF Orderly

LEMMA IdleViews ==
    ASSUME AInv, NEW c \in Clients, Rollback(c)
    PROVE  /\ work'[c] = Idle /\ For(c)' = None /\ Token(c)' = None /\ Gift(c)' = None
           /\ \A k \in Clients \ {c} : work'[k] = work[k] /\ SameViews(k)
<1>1. work'[c] = Idle /\ \A k \in Clients \ {c} : work'[k] = work[k]
    BY DEF Rollback, AInv, SessionTypes
<1>2. \A k \in Clients \ {c} : SameViews(k)
    BY <1>1 DEF SameViews, For, Token, Gift, InTransaction
<1> QED
    BY <1>1, <1>2 DEF For, Token, Gift, InTransaction, Idle

LEMMA ReleaseKeepsWallet ==
    ASSUME AInv, NEW c \in Clients, FailSession(c) \/ Deliver(c) \/ Lose(c)
    PROVE  DOMAIN wallet' = Devices /\ wallet' = [d \in DOMAIN wallet' |-> wallet'[d]]
BY DEF FailSession, Deliver, Lose, Stored, AInv, SessionTypes

LEMMA ReleasesOrderly ==
    ASSUME AInv, Orderly, NEW c \in Clients, FailSession(c) \/ Deliver(c) \/ Lose(c), lost' # TRUE
    PROVE  Orderly'
<1>1. /\ Rollback(c) /\ sessions' = sessions /\ For(c) = work[c].for
      /\ wallet \in [Devices -> SessionIds \cup {None}] /\ work[c] \in Works
    BY Views DEF FailSession, Deliver, Lose, AInv, SessionTypes
<1>2. SameChains
    BY <1>1 DEF SameChains, Known, Unreplaced, Orderly
<1>3. /\ work'[c] = Idle /\ For(c)' = None /\ Token(c)' = None /\ Gift(c)' = None
      /\ \A k \in Clients \ {c} : work'[k] = work[k] /\ SameViews(k)
    BY <1>1, IdleViews
<1>4. CleanSteps'
    BY <1>3 DEF Orderly, CleanSteps, Idle
<1>5. Token(c) \in SessionIds \cup {None} /\ Gift(c) \in SessionIds \cup {None}
    BY Views
<1>6. \E t \in {None, Token(c), Gift(c)} :
          /\ \A d \in Devices : d = For(c) => wallet'[d] = t
          /\ \A d \in Devices : d # For(c) => wallet'[d] = wallet[d]
    <2>1. CASE FailSession(c) /\ work[c].op = "refresh"
        <3>1. wallet' = wallet /\ Token(c) # None
            BY <2>1, Views DEF FailSession
        <3>2. \A d \in Devices : d = For(c) => wallet[d] = Token(c)
            BY <3>1, DevicesAssumption DEF Orderly, DevicesAssumption
        <3> QED
            BY <3>1, <3>2
    <2>2. CASE FailSession(c) /\ work[c].op = "logout"
        <3>1. wallet' = [wallet EXCEPT ![For(c)] = None]
            BY <1>1, <2>2 DEF FailSession
        <3> HIDE DEF For
        <3> QED
            BY <1>1, <3>1
    <2>3. CASE FailSession(c) /\ work[c].op \notin {"refresh", "logout"}
        BY <2>3 DEF FailSession
    <2>4. CASE Deliver(c) \/ Lose(c)
        <3>1. work[c] \in AnswerWork /\ work[c].op = "answer"
            BY <1>1, <2>4, WorkKinds DEF Deliver, Lose
        <3>2. CASE For(c) = None
            <4>1. wallet' = wallet
                BY <1>1, <2>4, <3>2 DEF Deliver, Lose, Stored
            <4> QED
                BY <3>2, <4>1, DevicesAssumption DEF DevicesAssumption
        <3>3. CASE For(c) # None /\ work[c].to = "logout"
            <4>1. wallet' = [wallet EXCEPT ![For(c)] = None]
                BY <1>1, <2>4, <3>3 DEF Deliver, Lose, Stored
            <4> HIDE DEF For
            <4> QED
                BY <1>1, <4>1
        <3>4. CASE For(c) # None /\ work[c].to = "refresh"
            <4>1. ~Lose(c)
                BY <1>1, <3>4 DEF Lose
            <4>2. wallet' = [wallet EXCEPT ![For(c)] = work[c].gets]
                BY <1>1, <2>4, <3>4, <4>1 DEF Deliver, Stored
            <4>3. Gift(c) = work[c].gets
                BY <1>1, <3>1, <3>4 DEF Gift
            <4> HIDE DEF For
            <4> QED
                BY <1>1, <4>2, <4>3
        <3> QED
            BY <3>1, <3>2, <3>3, <3>4 DEF AnswerWork
    <2> QED
        BY <2>1, <2>2, <2>3, <2>4
<1>7. PICK t \in {None, Token(c), Gift(c)} :
          /\ \A d \in Devices : d = For(c) => wallet'[d] = t
          /\ \A d \in Devices : d # For(c) => wallet'[d] = wallet[d]
    BY <1>6
<1>8. wallet' \in [Devices -> SessionIds \cup {None}]
    <2>1. DOMAIN wallet' = Devices /\ wallet' = [d \in DOMAIN wallet' |-> wallet'[d]]
        BY <1>1, ReleaseKeepsWallet
    <2> QED
        BY <1>1, <1>5, <1>7, <2>1
<1> QED
    BY <1>2, <1>3, <1>4, <1>7, <1>8, OrderlyRelease

LEMMA ExpiresOrderly ==
    ASSUME AInv, Orderly, NEW s \in SessionIds, Expire(s)
    PROVE  Orderly'
<1>1. /\ work' = work /\ wallet' = wallet /\ Known(s)
      /\ sessions' = [sessions EXCEPT ![s].state = "EXPIRED"]
    BY DEF Expire, Live, Known, NoSession
<1>2. sessions[s] \in Session /\ sessions \in [SessionIds -> Session \cup {NoSession}]
    BY <1>1 DEF Known, AInv, SessionTypes
<1>3. PICK row : row = [sessions[s] EXCEPT !.state = "EXPIRED"]
    OBVIOUS
<1>4. row \in Session /\ row # NoSession /\ row.replacedBy = sessions[s].replacedBy
      /\ row.compromised = sessions[s].compromised
    BY <1>2, <1>3 DEF Session, NoSession
<1>5. sessions'[s] = row /\ \A q \in SessionIds \ {s} : sessions'[q] = sessions[q]
    BY <1>1, <1>2, <1>3
<1>6. SameChains
    BY <1>1, <1>4, <1>5 DEF SameChains, Known, Unreplaced, Orderly
<1>7. \A k \in Clients : SameViews(k)
    BY <1>1 DEF SameViews, For, Token, Gift, InTransaction
<1>8. CleanSteps'
    BY <1>1 DEF Orderly, CleanSteps
<1> QED
    BY <1>1, <1>6, <1>7, <1>8, OrderlyKept

\* A request on media, or an erasure, begins, goes on or ends.
LEMMA MediaOrderly ==
    ASSUME AInv, Orderly, UNCHANGED session, NEW c \in Clients,
           work[c].op \notin {"refresh", "logout", "answer"},
           work'[c].op \notin {"refresh", "logout", "answer"},
           work'[c] = Idle \/ work'[c].for = None,
           \A k \in Clients \ {c} : work'[k] = work[k]
    PROVE  Orderly'
<1>1. SameChains /\ wallet' = wallet
    BY DEF SameChains, session, Known, Unreplaced, Orderly
<1>2. \A k \in Clients : SameViews(k)
    <2>1. \A k \in Clients \ {c} : SameViews(k)
        BY DEF SameViews, For, Token, Gift, InTransaction
    <2>2. For(c) = None /\ Token(c) = None /\ Gift(c) = None
        BY Views DEF Token, Gift
    <2>3. For(c)' = None /\ Token(c)' = None /\ Gift(c)' = None
        BY DEF For, Token, Gift, InTransaction
    <2> QED
        BY <2>1, <2>2, <2>3 DEF SameViews
<1>3. CleanSteps'
    BY DEF Orderly, CleanSteps
<1> QED
    BY <1>1, <1>2, <1>3, OrderlyKept

LEMMA MediaRequestsOrderly ==
    ASSUME AInv, Orderly, MediaNext \/ EraseNext, ~\E c \in Clients : EraseProfile(c)
    PROVE  Orderly'
<1>1. work \in [Clients -> Works]
    BY DEF AInv, SessionTypes
<1>2. ASSUME NEW m \in Media, Reserve(m) \/ Put(m) \/ ExpireUrl(m)
      PROVE  Orderly'
    <2>1. work' = work /\ wallet' = wallet /\ sessions' = sessions
        BY <1>2 DEF Reserve, Put, ExpireUrl, svars
    <2>2. SameChains /\ CleanSteps'
        BY <2>1 DEF SameChains, Known, Unreplaced, Orderly, CleanSteps
    <2>3. \A k \in Clients : SameViews(k)
        BY <2>1 DEF SameViews, For, Token, Gift, InTransaction
    <2> QED
        BY <2>1, <2>2, <2>3, OrderlyKept
<1>3. ASSUME NEW c \in Clients, NEW op \in MediaOps, NEW row, Start(c, op, row)
      PROVE  Orderly'
    <2>1. /\ work'[c].op = op /\ work'[c].for = None /\ work[c].op = "none"
          /\ \A k \in Clients \ {c} : work'[k] = work[k] /\ UNCHANGED session
        BY <1>1, <1>3 DEF Start, InTransaction, Idle
    <2>2. UNCHANGED session
        BY <1>3 DEF Start
    <2> QED
        BY <2>1, <2>2, MediaOrderly DEF MediaOps
<1>4. ASSUME NEW c \in Clients, work[c].op \in MediaOps, UNCHANGED session,
             work'[c] = Idle \/ (work'[c].op = work[c].op /\ work'[c].for = None),
             \A k \in Clients \ {c} : work'[k] = work[k]
      PROVE  Orderly'
    <2>1. work[c].op \notin {"refresh", "logout", "answer"}
        BY <1>4 DEF MediaOps
    <2>2. work'[c].op \notin {"refresh", "logout", "answer"}
          /\ (work'[c] = Idle \/ work'[c].for = None)
        BY <1>4, <2>1 DEF Idle
    <2> QED
        BY <1>4, <2>1, <2>2, MediaOrderly
<1>5. ASSUME NEW c \in Clients, Inspect(c) \/ LockForDelete(c) \/ Remove(c)
      PROVE  Orderly'
    <2>1. work[c] \in MediaWork /\ work[c].op \in MediaOps /\ UNCHANGED session
        BY <1>1, <1>5, WorkKinds DEF Inspect, LockForDelete, Remove, At, MediaOps
    <2>2. PICK step, wants : Goes(c, step, wants)
        BY <1>5 DEF Inspect, LockForDelete, Remove
    <2>3. /\ work'[c].op = work[c].op /\ work'[c].for = None
          /\ \A k \in Clients \ {c} : work'[k] = work[k]
        BY <1>1, <2>1, <2>2 DEF Goes, MediaWork
    <2> QED
        BY <1>4, <2>1, <2>3
<1>6. ASSUME NEW c \in Clients, CommitFinalize(c) \/ CommitDelete(c) \/ Fail(c)
      PROVE  Orderly'
    <2>1. /\ work[c].op \in MediaOps /\ UNCHANGED session /\ work'[c] = Idle
          /\ \A k \in Clients \ {c} : work'[k] = work[k]
        BY <1>1, <1>6 DEF CommitFinalize, CommitDelete, Fail, At, MediaOps, Rollback
    <2> QED
        BY <1>4, <2>1
<1>7. ASSUME NEW c \in Clients, LockUser(c) \/ RemoveAll(c) \/ WaitForRow(c)
      PROVE  Orderly'
    <2>1. work[c] \in EraseWork /\ work[c].op \in MediaOps /\ UNCHANGED session
        BY <1>1, <1>7, WorkKinds DEF LockUser, RemoveAll, WaitForRow, At, MediaOps
    <2>2. /\ work'[c] = Idle \/ (work'[c].op = work[c].op /\ work'[c].for = None)
          /\ \A k \in Clients \ {c} : work'[k] = work[k]
        <3>1. CASE LockUser(c)
            BY <1>1, <2>1, <3>1 DEF LockUser, EraseWork
        <3>2. CASE WaitForRow(c)
            BY <1>1, <2>1, <3>2 DEF WaitForRow, EraseWork
        <3>3. CASE RemoveAll(c)
            <4>1. Goes(c, "cascade", None) \/ Rollback(c)
                BY <3>3 DEF RemoveAll
            <4> QED
                BY <1>1, <2>1, <4>1 DEF Goes, Rollback, EraseWork
        <3> QED
            BY <1>7, <3>1, <3>2, <3>3
    <2> QED
        BY <1>4, <2>1, <2>2
<1> QED
    BY <1>2, <1>3, <1>5, <1>6, <1>7 DEF MediaNext, EraseNext, MediaOps

LEMMA OrderInit == AInit => OrderInv
<1> SUFFICES ASSUME AInit
             PROVE  OrderInv
    OBVIOUS
<1>1. \A k \in Clients : For(k) = None /\ Token(k) = None /\ Gift(k) = None /\ work[k].op = "none"
    BY DEF AInit, SessionInit, For, Token, Gift, InTransaction, Idle
<1> QED
    BY <1>1 DEF AInit, SessionInit, OrderInv, Orderly, CleanSteps, Known

LEMMA OrderStep == AInv /\ OrderInv /\ [ANext]_avars => OrderInv'
<1> SUFFICES ASSUME AInv, OrderInv, [ANext]_avars
             PROVE  OrderInv'
    OBVIOUS
<1>1. /\ user' = user \/ user' = "GONE"
      /\ lost' \in BOOLEAN /\ (lost = TRUE => lost' = TRUE)
    <2>1. CASE SessionNext /\ UNCHANGED media
        BY <2>1 DEF SessionNext, DeviceNext, TokenNext, Login, SendRefresh, SendLogout, ReadSession,
               WalkChain, CommitRotation, CommitEnd, CommitRefusal, FailSession, GiveUp, Deliver,
               Lose, Expire, OrderInv
    <2>2. CASE MediaNext \/ EraseNext
        BY <2>2 DEF MediaNext, EraseNext, Reserve, Put, ExpireUrl, Start, Inspect, CommitFinalize,
               LockForDelete, Remove, CommitDelete, Fail, LockUser, RemoveAll, WaitForRow,
               EraseProfile, session, svars, OrderInv
    <2>3. CASE UNCHANGED avars
        BY <2>3 DEF avars, svars, OrderInv
    <2> QED
        BY <2>1, <2>2, <2>3 DEF ANext
<1>2. ASSUME Orderly, user' # "GONE", lost' # TRUE
      PROVE  Orderly'
    <2>1. CASE SessionNext
        <3>1. \A c \in Clients : ~GiveUp(c)
            BY <1>2 DEF GiveUp
        <3> QED
            BY <1>2, <2>1, <3>1, LoginOrderly, CallsOrderly, WalksOrderly, EndingsOrderly,
               RotationOrderly, ReleasesOrderly, ExpiresOrderly DEF SessionNext, DeviceNext, TokenNext
    <2>2. CASE MediaNext \/ EraseNext
        <3>1. ~\E c \in Clients : EraseProfile(c)
            BY <1>2 DEF EraseProfile
        <3> QED
            BY <1>2, <2>2, <3>1, MediaRequestsOrderly
    <2>3. CASE UNCHANGED avars
        <3>1. work' = work /\ wallet' = wallet /\ sessions' = sessions
            BY <2>3 DEF avars, svars
        <3>2. SameChains /\ CleanSteps'
            BY <1>2, <3>1 DEF SameChains, Known, Unreplaced, Orderly, CleanSteps
        <3>3. \A k \in Clients : SameViews(k)
            BY <3>1 DEF SameViews, For, Token, Gift, InTransaction
        <3> QED
            BY <1>2, <3>1, <3>2, <3>3, OrderlyKept
    <2> QED
        BY <2>1, <2>2, <2>3 DEF ANext
<1> QED
    BY <1>1, <1>2 DEF OrderInv

\* A chain is taken for stolen only when an answer was lost: the refreshes and the
\* sign-outs of a device that gets its answers never present a token twice, however
\* the server interleaves them with those of other devices, deletions and an erasure.
THEOREM AlarmsAreTrue == ASpec => []NoFalseAlarm
<1>1. AInv /\ OrderInv => NoFalseAlarm
    BY DEF AInv, OrderInv, Orderly, NoFalseAlarm, ErasureIsComplete, Known
<1> QED
    BY <1>1, AInitEstablishes, AStep, OrderInit, OrderStep, PTL DEF ASpec

=============================================================================
