------------------------------ MODULE Sessions ------------------------------
(***************************************************************************)
(* Refresh sessions.  A device holds a refresh token, and exchanges it for *)
(* a new one: the old session is revoked and points to its replacement.    *)
(* The sessions that follow one sign-in are a chain, and only its last one *)
(* may be alive.  A token that comes back after its exchange ends the      *)
(* whole chain, and so does signing out.                                   *)
(*                                                                         *)
(* A request on a token locks its session, and then, if the chain is to    *)
(* end, the sessions after it one by one; other requests run in between.   *)
(* Every request that writes needs the row of the user in the end, to      *)
(* which its rows refer.  The answer travels back to the device, or is     *)
(* lost, or comes when the device has given up.                            *)
(*                                                                         *)
(* A token stands for its session.  Access tokens name a session and are   *)
(* valid while it is alive.                                                *)
(***************************************************************************)
EXTENDS Naturals, RowLocks

CONSTANTS
    MaxSessions,   \* bound: how many sessions there can be
    Devices,       \* the installations of the mobile client
    User           \* the row of the user

SessionIds == 1 .. MaxSessions

ASSUME SessionsAssumption == MaxSessions \in Nat
ASSUME DevicesAssumption  == None \notin Devices
ASSUME UserAssumption     == User # None /\ User \notin SessionIds /\ None \notin SessionIds

Session == [state : {"LIVE", "EXPIRED", "REVOKED"}, compromised : BOOLEAN,
            replacedBy : SessionIds \cup {None}]

NoSession == [state |-> "NONE"]

VARIABLES
    user,       \* "ACTIVE" or "GONE"
    sessions,   \* the refresh_sessions table
    wallet,     \* for each device, the token it has stored
    origin,     \* for each session, the sign-in it descends from (history)
    ended,      \* the sign-ins that were signed out or found reused (history)
    lost        \* whether an answer was ever lost (history)
svars == <<user, sessions, wallet, origin, ended, lost, work>>

Live(s) == sessions[s].state = "LIVE"

\* The identifiers are drawn in order.
Fresh == {s \in SessionIds : sessions[s] = NoSession /\ \A q \in SessionIds :
                                 q < s => sessions[q] # NoSession}

NewSession == [state |-> "LIVE", compromised |-> FALSE, replacedBy |-> None]

-----------------------------------------------------------------------------
(* Signing in *)

MutNoReference == \A c \in Clients : User \notin work[c].holds

\* The new session refers to the row of the user, which nobody may have locked.
UserFree == user = "ACTIVE" /\ \A c \in Clients : User \notin work[c].holds

Login(d) ==
    /\ UserFree /\ wallet[d] = None
    /\ \E s \in Fresh : /\ sessions' = [sessions EXCEPT ![s] = NewSession]
                        /\ origin' = [origin EXCEPT ![s] = s]
                        /\ wallet' = [wallet EXCEPT ![d] = s]
    /\ UNCHANGED <<user, ended, lost, work>>

\* Time passes.
Expire(s) ==
    /\ Live(s)
    /\ sessions' = [sessions EXCEPT ![s].state = "EXPIRED"]
    /\ UNCHANGED <<user, wallet, origin, ended, lost, work>>

-----------------------------------------------------------------------------
(* The device *)

Call(op, d) == [op |-> op, token |-> wallet[d], for |-> d, step |-> "read",
                holds |-> {}, wants |-> wallet[d]]

MutRefreshesTwice(d) == wallet[d] # None

\* One refresh at a time: callers share the one in flight.
MayRefresh(d) == wallet[d] # None /\ \A c \in Clients : InTransaction(c) => work[c].for # d

SendRefresh(c, d) ==
    /\ ~InTransaction(c) /\ MayRefresh(d)
    /\ work' = [work EXCEPT ![c] = Call("refresh", d)]
    /\ UNCHANGED <<user, sessions, wallet, origin, ended, lost>>

\* Signing out does not wait for a refresh in flight, whose answer will be ignored.
SendLogout(c, d) ==
    /\ ~InTransaction(c) /\ wallet[d] # None
    /\ \A k \in Clients : work[k].op = "logout" => work[k].for # d
    /\ work' = [k \in Clients |-> IF k = c THEN Call("logout", d)
                                  ELSE IF InTransaction(k) /\ work[k].for = d
                                  THEN [work[k] EXCEPT !.for = None]
                                  ELSE work[k]]
    /\ UNCHANGED <<user, sessions, wallet, origin, ended, lost>>

\* The device stops waiting for its refresh; the request goes on.
GiveUp(c) ==
    /\ work[c].op = "refresh" /\ work[c].for # None
    /\ work' = [work EXCEPT ![c].for = None]
    /\ lost' = TRUE
    /\ UNCHANGED <<user, sessions, wallet, origin, ended>>

-----------------------------------------------------------------------------
(* The server *)

\* What to do with a token, from the row of its session.
Verdict(row, op) ==
    IF row = NoSession THEN "unknown"
    ELSE IF op = "logout" THEN "end"
    ELSE IF row.replacedBy # None \/ row.compromised THEN "reuse"
    ELSE IF row.state # "LIVE" THEN "refuse"
    ELSE "rotate"

Ends(step) == step \in {"end", "reuse"}

MutEndsOnlyItself(row) == User

\* The sessions of a chain are locked one after another, the user last.
AfterRow(row) == IF row.replacedBy # None THEN row.replacedBy ELSE User

\* Lock the session of the token, read it and decide.
ReadSession(c) ==
    /\ work[c].op \in {"refresh", "logout"} /\ work[c].step = "read" /\ CanLock(c)
    /\ LET row  == sessions[work[c].token]
           step == Verdict(row, work[c].op)
       IN  work' = [work EXCEPT
             ![c].step = step,
             ![c].holds = IF step = "unknown" THEN {} ELSE {work[c].token},
             ![c].wants = CASE step \in {"unknown", "refuse"} -> None
                            [] step = "rotate" -> User
                            [] OTHER -> AfterRow(row)]
    /\ UNCHANGED <<user, sessions, wallet, origin, ended, lost>>

\* Lock the next session of a chain that is to end.
WalkChain(c) ==
    /\ work[c].op \in {"refresh", "logout"} /\ Ends(work[c].step)
    /\ work[c].wants \in SessionIds /\ CanLock(c)
    /\ work' = [work EXCEPT ![c].holds = @ \cup {work[c].wants},
                            ![c].wants = AfterRow(sessions[work[c].wants])]
    /\ UNCHANGED <<user, sessions, wallet, origin, ended, lost>>

\* The transaction ends, and the answer is on its way.
Answer(c, token) ==
    work' = [work EXCEPT ![c] = [op |-> "answer", to |-> work[c].op, token |-> work[c].token,
                                 gets |-> token, for |-> work[c].for,
                                 holds |-> {}, wants |-> None]]

Committing(c) == work[c].op \in {"refresh", "logout"} /\ work[c].wants = User /\ CanLock(c)

CommitRotation(c) ==
    /\ Committing(c) /\ work[c].step = "rotate" /\ user = "ACTIVE"
    /\ \E s \in Fresh :
          /\ sessions' = [sessions EXCEPT ![s] = NewSession,
                                          ![work[c].token].state = "REVOKED",
                                          ![work[c].token].replacedBy = s]
          /\ origin' = [origin EXCEPT ![s] = origin[work[c].token]]
          /\ Answer(c, s)
    /\ UNCHANGED <<user, wallet, ended, lost>>

CommitEnd(c) ==
    /\ Committing(c) /\ Ends(work[c].step) /\ user = "ACTIVE"
    /\ sessions' = [s \in SessionIds |->
                      IF s \in work[c].holds
                      THEN [sessions[s] EXCEPT !.state = "REVOKED",
                                               !.compromised = @ \/ work[c].step = "reuse"]
                      ELSE sessions[s]]
    /\ ended' = ended \cup {origin[work[c].token]}
    /\ Answer(c, None)
    /\ UNCHANGED <<user, wallet, origin, lost>>

\* A dead token is refused.  No other row refers to this one.
CommitRefusal(c) ==
    /\ work[c].op \in {"refresh", "logout"} /\ work[c].step \in {"refuse", "unknown"}
    /\ sessions' = [s \in SessionIds |-> IF s \in work[c].holds
                                         THEN [sessions[s] EXCEPT !.state = "REVOKED"]
                                         ELSE sessions[s]]
    /\ Answer(c, None)
    /\ UNCHANGED <<user, wallet, origin, ended, lost>>

\* The server or the database gives a transaction up: the device gets an error.
Rollback(c) == work' = [work EXCEPT ![c] = Idle]

FailSession(c) ==
    /\ work[c].op \in {"refresh", "logout"}
    /\ Rollback(c)
    /\ wallet' = IF work[c].op = "logout" THEN [wallet EXCEPT ![work[c].for] = None] ELSE wallet
    /\ UNCHANGED <<user, sessions, origin, ended, lost>>

-----------------------------------------------------------------------------
(* The answer *)

\* What a device does with an answer it still waits for.  It signs out locally
\* whatever the server says, and after a refusal its user must sign in again.
Stored(c) ==
    IF work[c].for = None THEN wallet
    ELSE [wallet EXCEPT ![work[c].for] = IF work[c].to = "logout" THEN None ELSE work[c].gets]

Deliver(c) ==
    /\ work[c].op = "answer"
    /\ wallet' = Stored(c)
    /\ Rollback(c)
    /\ UNCHANGED <<user, sessions, origin, ended, lost>>

\* The answer is lost, or the device dies before it has stored the token.
Lose(c) ==
    /\ work[c].op = "answer"
    /\ wallet' = IF work[c].to = "logout" THEN Stored(c) ELSE wallet
    /\ lost' = (lost \/ (work[c].to = "refresh" /\ work[c].for # None))
    /\ Rollback(c)
    /\ UNCHANGED <<user, sessions, origin, ended>>

-----------------------------------------------------------------------------
(* The specification *)

SessionInit ==
    /\ user = "ACTIVE"
    /\ sessions = [s \in SessionIds |-> NoSession]
    /\ wallet = [d \in Devices |-> None]
    /\ origin = [s \in SessionIds |-> None]
    /\ ended = {} /\ lost = FALSE
    /\ work = [c \in Clients |-> Idle]

DeviceNext == \E d \in Devices : Login(d) \/ \E c \in Clients : SendRefresh(c, d) \/ SendLogout(c, d)

TokenNext ==
    \E c \in Clients : \/ ReadSession(c) \/ WalkChain(c) \/ CommitRotation(c) \/ CommitEnd(c)
                       \/ CommitRefusal(c) \/ FailSession(c)
                       \/ GiveUp(c) \/ Deliver(c) \/ Lose(c)

SessionNext == DeviceNext \/ TokenNext \/ \E s \in SessionIds : Expire(s)

SessionSpec == SessionInit /\ [][SessionNext]_svars

-----------------------------------------------------------------------------
(* Properties *)

\* A chain never forks: of the sessions that descend from one sign-in only the
\* last one can be alive, though requests with old and new tokens of it run at once.
OneLivePerSignIn ==
    \A s, q \in SessionIds :
        Live(s) /\ Live(q) /\ origin[s] = origin[q] => s = q

\* A chain that was signed out, or in which a token came back, stays dead: no
\* rotation that was under way at the time survives it.
EndedStaysEnded == \A s \in SessionIds : origin[s] \in ended => ~Live(s)

\* A chain is taken for stolen only after an answer was lost: a device that gets its
\* answers is never thrown out, though its refreshes and its sign-out may overlap.
NoFalseAlarm == (\E s \in SessionIds : sessions[s] # NoSession /\ sessions[s].compromised) => lost
=============================================================================
