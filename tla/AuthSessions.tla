---------------------------- MODULE AuthSessions ----------------------------
(***************************************************************************)
(* The login sessions of BackendAcademy (auth/auth-session.service.ts): an   *)
(* in-memory map, written by calls that suspend while a token is verified or *)
(* signed. A refresh token names its session and there is one per session,   *)
(* so a client that holds one is written as the session itself.              *)
(***************************************************************************)
EXTENDS FiniteSets, KeyValue

CONSTANTS Learners,   \* users
          SessionIds, \* the ids randomUUID yields, no two the same
          AuthCalls   \* logins and refreshes being served at once

VARIABLES sessions,  \* AuthSessionService.sessions
          authCalls, \* what each call knows when it is suspended
          ended      \* history: logins whose every session a logout-all has ended

authVars == <<sessions, authCalls, ended>>

Answered == [step |-> "answered"]

(* login is the session that the user logged in with; it is not stored.       *)
Session == [user : Learners, login : SessionIds, revoked : BOOLEAN, expired : BOOLEAN]

Suspended ==
    [step : {"sign"}, id : SessionIds, user : Learners, login : SessionIds]
    \cup [step : {"verify"}, id : SessionIds]

AuthTypeOK ==
    /\ DOMAIN sessions \subseteq SessionIds
    /\ \A id \in DOMAIN sessions : sessions[id] \in Session
    /\ authCalls \in [AuthCalls -> Suspended \cup {Answered}]
    /\ ended \subseteq SessionIds

AuthInit ==
    /\ sessions = << >>
    /\ authCalls = [c \in AuthCalls |-> Answered]
    /\ ended = {}

-----------------------------------------------------------------------------
Suspend(c, at) == authCalls' = [authCalls EXCEPT ![c] = at]

Signing == {c \in AuthCalls : authCalls[c].step = "sign"}

FreshId(id) == id \notin DOMAIN sessions /\ \A c \in Signing : authCalls[c].id # id

(* createSession draws the id and waits for the two signatures ...            *)
createSession(c, id, user, login) ==
    /\ FreshId(id)
    /\ Suspend(c, [step |-> "sign", id |-> id, user |-> user, login |-> login])

(* ... and stores the session.                                                *)
storeSession(c) ==
    /\ authCalls[c].step = "sign"
    /\ sessions' = Put(sessions, authCalls[c].id,
                       [user |-> authCalls[c].user, login |-> authCalls[c].login,
                        revoked |-> FALSE, expired |-> FALSE])
    /\ Suspend(c, Answered)
    /\ UNCHANGED ended

logIn(c, id, user) ==
    /\ authCalls[c] = Answered
    /\ createSession(c, id, user, id)
    /\ UNCHANGED <<sessions, ended>>

(* verifyAsync refuses a token of its own that has expired.                   *)
verifyRefreshToken(c, id) ==
    /\ authCalls[c] = Answered
    /\ id \in DOMAIN sessions
    /\ ~sessions[id].expired
    /\ Suspend(c, [step |-> "verify", id |-> id])
    /\ UNCHANGED <<sessions, ended>>

Revoked(id) == [sessions EXCEPT ![id].revoked = TRUE]

(* Mutant: the session is revoked, but nobody asks whether it already was. *)
refreshAnyToken(c, id) ==
    /\ authCalls[c].step = "verify"
    /\ LET held == authCalls[c].id
       IN  /\ sessions' = Revoked(held)
           /\ IF sessions[held].expired
              THEN Suspend(c, Answered)
              ELSE createSession(c, id, sessions[held].user, sessions[held].login)
    /\ UNCHANGED ended

refreshTokens(c, id) ==
    /\ authCalls[c].step = "verify"
    /\ LET held == authCalls[c].id
       IN  CASE sessions[held].revoked ->
                    Suspend(c, Answered) /\ UNCHANGED sessions
             [] ~sessions[held].revoked /\ sessions[held].expired ->
                    Suspend(c, Answered) /\ sessions' = Revoked(held)
             [] OTHER ->
                    /\ sessions' = Revoked(held)
                    /\ createSession(c, id, sessions[held].user, sessions[held].login)
    /\ UNCHANGED ended

revokeSession(id) ==
    /\ sessions' = Revoked(id)
    /\ UNCHANGED <<authCalls, ended>>

RevokedOf(user) ==
    [id \in DOMAIN sessions |->
        IF sessions[id].user = user THEN Revoked(id)[id] ELSE sessions[id]]

(* The map knows nothing of a session whose token is still being signed.      *)
BeingSigned(login) == \E c \in Signing : authCalls[c].login = login

revokeAllUserSessions(user) ==
    /\ sessions' = RevokedOf(user)
    /\ ended' = ended \cup {login \in {sessions[id].login : id \in {i \in DOMAIN sessions :
                                        sessions[i].user = user}} : ~BeingSigned(login)}
    /\ UNCHANGED authCalls

SessionExpires(id) ==
    /\ sessions' = [sessions EXCEPT ![id].expired = TRUE]
    /\ UNCHANGED <<authCalls, ended>>

-----------------------------------------------------------------------------
AuthNext ==
    \/ \E c \in AuthCalls :
          \/ \E id \in SessionIds, user \in Learners : logIn(c, id, user)
          \/ \E id \in DOMAIN sessions : verifyRefreshToken(c, id)
          \/ \E id \in SessionIds : refreshTokens(c, id)
          \/ storeSession(c)
    \/ \E id \in DOMAIN sessions : revokeSession(id) \/ SessionExpires(id)
    \/ \E user \in Learners : revokeAllUserSessions(user)

AuthSpec == AuthInit /\ [][AuthNext]_authVars

-----------------------------------------------------------------------------
LiveOf(login) == {id \in DOMAIN sessions : sessions[id].login = login /\ ~sessions[id].revoked}

SignedFor(login) == {c \in Signing : authCalls[c].login = login}

(* "every refresh revokes the old token and issues a fresh pair" (auth-       *)
(* session.service.ts:22), logout-all "revokes all active sessions" (:153):   *)
(* however refreshes of one token overlap, a login has at most one session    *)
(* that is live or about to be, and none after a logout-all, whatever refresh *)
(* was waiting for its verification. The exception is a login with a token    *)
(* that was being signed at that time: its session is stored afterwards.      *)
LoginHasOneSession ==
    \A login \in SessionIds :
        Cardinality(LiveOf(login)) + Cardinality(SignedFor(login))
            <= IF login \in ended THEN 0 ELSE 1
=============================================================================
