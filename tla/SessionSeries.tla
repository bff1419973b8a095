----------------------------- MODULE SessionSeries -----------------------------
(***************************************************************************)
(* The sessions of operators (SessionClerk): a session is a series of      *)
(* refresh tokens, each with an access token of its own.  A client trades  *)
(* its refresh token for the next pair; every write is a transaction that  *)
(* is committed or rolled back.                                            *)
(*                                                                         *)
(* What a transaction wrote is its own until it ends, and the rows it      *)
(* updated are locked until then: an update of a locked row waits, and     *)
(* then sees what was committed.  A token is a place in the sequence, in   *)
(* the order of the commits, and its session is the place of its first.    *)
(***************************************************************************)
EXTENDS Naturals, Sequences

CONSTANTS
    SessionClients,
    MaximumTokenCount,  \* bound: refresh tokens issued
    NoToken

ASSUME SessionAssumption ==
    /\ MaximumTokenCount \in Nat
    /\ NoToken \notin Nat

VARIABLES
    refreshTokens,  \* the committed rows of the refresh tokens
    accessTokens,   \* the committed access tokens, named by their refresh token
    clerks,         \* clerks[c]: the call of the clerk under way for client c
    answered        \* history: the tokens clients were handed

sessionVars == <<refreshTokens, accessTokens, clerks, answered>>

Tokens == 1..MaximumTokenCount

\* heirOf is history: the token that was spent for this one.
RefreshTokens ==
    [sessionKey : Tokens, isUsed : BOOLEAN, isRevoked : BOOLEAN,
     heirOf : Tokens \cup {NoToken}]

IdleClerk ==
    [phase |-> "idle", entity |-> NoToken, spent |-> NoToken, revoked |-> {},
     saved |-> {}]

SessionTypeOK ==
    /\ refreshTokens \in Seq(RefreshTokens) /\ Len(refreshTokens) <= MaximumTokenCount
    /\ accessTokens \subseteq Tokens
    /\ DOMAIN clerks = SessionClients
    /\ \A c \in SessionClients :
        /\ clerks[c].phase \in {"idle", "found", "saving", "revoking"}
        /\ clerks[c].entity \in Tokens \cup {NoToken}
        /\ clerks[c].spent \in Tokens \cup {NoToken}
        /\ clerks[c].revoked \subseteq Tokens
        /\ clerks[c].saved \subseteq {"access", "refresh"}
    /\ answered \subseteq Tokens

SessionInit ==
    /\ refreshTokens = <<>>
    /\ accessTokens = {}
    /\ clerks = [c \in SessionClients |-> IdleClerk]
    /\ answered = {}

SetClerk(c, clerk) == clerks' = [clerks EXCEPT ![c] = clerk]

Locked(t) == \E c \in SessionClients : t = clerks[c].spent \/ t \in clerks[c].revoked

--------------------------------------------------------------------------------
(* A pair of tokens                                                         *)

\* saveSession: the first pair of a session.
BeginSession(c) ==
    /\ clerks[c].phase = "idle"
    /\ SetClerk(c, [IdleClerk EXCEPT !.phase = "saving"])
    /\ UNCHANGED <<refreshTokens, accessTokens, answered>>

\* The row of the token a client presents, read outside the transaction.
FindRefreshToken(c, t) ==
    /\ clerks[c].phase = "idle"
    /\ SetClerk(c, [IdleClerk EXCEPT !.phase = "found", !.entity = t])
    /\ UNCHANGED <<refreshTokens, accessTokens, answered>>

\* Faulty form: the update trusts the row the client was looked up by.
IsSpendable_AsFound(t) == TRUE

\* UPDATE ... WHERE token_hash = ? AND used_at IS NULL
IsSpendable(t) == ~refreshTokens[t].isUsed

\* Not one row updated rolls the transaction back.
SpendRefreshToken(c) ==
    LET t == clerks[c].entity
    IN  /\ clerks[c].phase = "found"
        /\ ~Locked(t)
        /\ SetClerk(c, IF IsSpendable(t)
            THEN [clerks[c] EXCEPT !.phase = "saving", !.spent = t]
            ELSE IdleClerk)
        /\ UNCHANGED <<refreshTokens, accessTokens, answered>>

SaveToken(c, kind) ==
    /\ clerks[c].phase = "saving"
    /\ kind = "refresh" => "access" \in clerks[c].saved
    /\ kind \notin clerks[c].saved
    /\ SetClerk(c, [clerks[c] EXCEPT !.saved = @ \cup {kind}])
    /\ UNCHANGED <<refreshTokens, accessTokens, answered>>

\* The pair carries the session key of the token that was spent for it.
Heir(spent) ==
    [sessionKey |-> IF spent = NoToken THEN Len(refreshTokens) + 1
                    ELSE refreshTokens[spent].sessionKey,
     isUsed |-> FALSE, isRevoked |-> FALSE, heirOf |-> spent]

\* The commit.  Its answer may be lost, and the client is then told an error.
CommitPair(c, isHeard) ==
    LET spent == clerks[c].spent
        t == Len(refreshTokens) + 1
    IN  /\ clerks[c].saved = {"access", "refresh"}
        /\ t \in Tokens
        /\ refreshTokens' = Append(
            [n \in DOMAIN refreshTokens |->
                [refreshTokens[n] EXCEPT !.isUsed = @ \/ n = spent]],
            Heir(spent))
        /\ accessTokens' = accessTokens \cup {t}
        /\ answered' = IF isHeard THEN answered \cup {t} ELSE answered
        /\ SetClerk(c, IdleClerk)

--------------------------------------------------------------------------------
(* Revocation                                                               *)

\* UPDATE ... WHERE session_key = ? AND revoked_at IS NULL, which waits for
\* every row of them that is locked.
RevokeAllRefreshTokens(c, sessionKey) ==
    LET unrevoked == {t \in DOMAIN refreshTokens :
            /\ refreshTokens[t].sessionKey = sessionKey
            /\ ~refreshTokens[t].isRevoked}
    IN  /\ clerks[c].phase = "idle"
        /\ \A t \in unrevoked : ~Locked(t)
        /\ SetClerk(c, [IdleClerk EXCEPT
            !.phase = "revoking", !.entity = sessionKey, !.revoked = unrevoked])
        /\ UNCHANGED <<refreshTokens, accessTokens, answered>>

\* DELETE ... WHERE session_key = ?, of the access tokens there are by then, and
\* the commit.
DeleteAllAccessTokens(c) ==
    LET sessionKey == clerks[c].entity
    IN  /\ clerks[c].phase = "revoking"
        /\ accessTokens' = {t \in accessTokens :
            refreshTokens[t].sessionKey # sessionKey}
        /\ refreshTokens' = [t \in DOMAIN refreshTokens |->
            [refreshTokens[t] EXCEPT !.isRevoked = @ \/ t \in clerks[c].revoked]]
        /\ SetClerk(c, IdleClerk)
        /\ UNCHANGED answered

\* A query throws, or the process dies: the transaction is rolled back.
RollBack(c) ==
    /\ clerks[c].phase # "idle"
    /\ SetClerk(c, IdleClerk)
    /\ UNCHANGED <<refreshTokens, accessTokens, answered>>

SessionNext ==
    \E c \in SessionClients :
        \/ BeginSession(c)
        \/ \E t \in DOMAIN refreshTokens : FindRefreshToken(c, t)
        \/ SpendRefreshToken(c)
        \/ \E kind \in {"access", "refresh"} : SaveToken(c, kind)
        \/ \E isHeard \in BOOLEAN : CommitPair(c, isHeard)
        \/ \E t \in DOMAIN refreshTokens :
            /\ refreshTokens[t].sessionKey = t
            /\ RevokeAllRefreshTokens(c, t)
        \/ DeleteAllAccessTokens(c)
        \/ RollBack(c)

SessionSpec == SessionInit /\ [][SessionNext]_sessionVars

--------------------------------------------------------------------------------
(* Properties                                                               *)

\* A refresh token is traded once, whoever presents it and however often: a used
\* token has exactly one heir and an unused one has none, an heir continues its
\* session, and a pair a client was handed is whole unless its session was
\* revoked (SessionClerk.spendRefreshToken: presenting a spent token again is
\* detectable).
OneHeirPerToken ==
    /\ \A t \in DOMAIN refreshTokens :
        LET heirs == {u \in DOMAIN refreshTokens : refreshTokens[u].heirOf = t}
        IN  /\ refreshTokens[t].isUsed <=> heirs # {}
            /\ \A u, v \in heirs :
                u = v /\ refreshTokens[u].sessionKey = refreshTokens[t].sessionKey
    /\ \A t \in answered :
        /\ t \in DOMAIN refreshTokens
        /\ t \notin accessTokens =>
            \E u \in DOMAIN refreshTokens :
                /\ refreshTokens[u].sessionKey = refreshTokens[t].sessionKey
                /\ refreshTokens[u].isRevoked

================================================================================
