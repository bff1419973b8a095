------------------------------ MODULE AccessProofs ------------------------------
(***************************************************************************)
(* What holds of the two ways into the service, for any number of clients, *)
(* tokens, secrets and requests: the sessions of operators (SessionSeries) *)
(* and the signatures of API clients (ApiClientAuthentication), and of the *)
(* queue connections a request in waits for (JobDispatcherProvider).       *)
(***************************************************************************)
EXTENDS
    SessionSeries, ApiClientAuthentication, JobDispatcherProvider,
    FiniteSetTheorems, WellFoundedInduction, TLAPS

--------------------------------------------------------------------------------
(* The sessions of operators                                                *)

ClerkPhases == {"idle", "found", "saving", "revoking"}

Clerks ==
    [phase : ClerkPhases, entity : Tokens \cup {NoToken}, spent : Tokens \cup {NoToken},
     revoked : SUBSET Tokens, saved : SUBSET {"access", "refresh"}]

SessionTyped ==
    /\ refreshTokens \in Seq(RefreshTokens) /\ Len(refreshTokens) <= MaximumTokenCount
    /\ accessTokens \subseteq Tokens
    /\ clerks \in [SessionClients -> Clerks]
    /\ answered \subseteq Tokens

IssuedTokens == 1..Len(refreshTokens)

\* What a transaction holds: a spent token is unused and its own, and a revocation is
\* of a session whose first token it revokes if nobody did before.
TransactionsAreIsolated ==
    /\ \A c \in SessionClients :
        /\ clerks[c].phase = "found" => clerks[c].entity \in IssuedTokens
        /\ clerks[c].phase # "saving" => clerks[c].spent = NoToken /\ clerks[c].saved = {}
        /\ clerks[c].spent # NoToken =>
            /\ clerks[c].spent \in IssuedTokens
            /\ ~refreshTokens[clerks[c].spent].isUsed
        /\ clerks[c].phase = "revoking" =>
            /\ clerks[c].entity \in IssuedTokens
            /\ refreshTokens[clerks[c].entity].sessionKey = clerks[c].entity
            /\ \/ clerks[c].entity \in clerks[c].revoked
               \/ refreshTokens[clerks[c].entity].isRevoked
    /\ \A c, d \in SessionClients :
        clerks[c].spent # NoToken /\ clerks[c].spent = clerks[d].spent => c = d

\* A token that has an heir is used, has no other, and has left it its session.
SeriesIsAChain ==
    /\ \A u \in IssuedTokens : refreshTokens[u].heirOf # NoToken =>
        /\ refreshTokens[u].heirOf \in IssuedTokens
        /\ refreshTokens[refreshTokens[u].heirOf].isUsed
        /\ refreshTokens[u].sessionKey = refreshTokens[refreshTokens[u].heirOf].sessionKey
    /\ \A t \in IssuedTokens : refreshTokens[t].isUsed =>
        \E u \in IssuedTokens : refreshTokens[u].heirOf = t
    /\ \A u, v \in IssuedTokens :
        refreshTokens[u].heirOf # NoToken
        /\ refreshTokens[u].heirOf = refreshTokens[v].heirOf => u = v

\* A pair a client was handed is whole, or its session was revoked.
AnsweredPairsAreWhole ==
    \A t \in answered :
        /\ t \in IssuedTokens
        /\ t \notin accessTokens =>
            \E u \in IssuedTokens :
                /\ refreshTokens[u].sessionKey = refreshTokens[t].sessionKey
                /\ refreshTokens[u].isRevoked

SessionInvariant ==
    /\ SessionTyped
    /\ TransactionsAreIsolated
    /\ SeriesIsAChain
    /\ AnsweredPairsAreWhole

\* The keys of the table of refresh tokens are tokens: the sentinel of "no token" is
\* none of them.
LEMMA IssuedTokensAreTokens ==
  ASSUME SessionTyped
  PROVE  /\ Len(refreshTokens) \in Nat /\ DOMAIN refreshTokens = IssuedTokens
         /\ IssuedTokens \subseteq Tokens /\ NoToken \notin IssuedTokens
         /\ NoToken \notin Tokens
         /\ \A t \in IssuedTokens : refreshTokens[t] \in RefreshTokens
  BY SessionAssumption DEF SessionTyped, IssuedTokens, Tokens

\* A function over the tokens that were issued is a sequence of as many.
LEMMA RewrittenTokens ==
  ASSUME SessionTyped, NEW rewritten \in [IssuedTokens -> RefreshTokens]
  PROVE  rewritten \in Seq(RefreshTokens) /\ Len(rewritten) = Len(refreshTokens)
<1>1. Len(refreshTokens) \in Nat
  BY IssuedTokensAreTokens
<1> QED
  BY <1>1 DEF IssuedTokens

\* A clerk that moves while the tables stand.
LEMMA ClerkStep ==
  ASSUME SessionInvariant, NEW c \in SessionClients, NEW clerk \in Clerks,
         SetClerk(c, clerk),
         UNCHANGED <<refreshTokens, accessTokens, answered>>,
         clerk.phase = "found" => clerk.entity \in IssuedTokens,
         clerk.phase # "saving" => clerk.spent = NoToken /\ clerk.saved = {},
         clerk.spent # NoToken =>
            /\ clerk.spent \in IssuedTokens
            /\ ~refreshTokens[clerk.spent].isUsed
            /\ \A d \in SessionClients : d # c => clerks[d].spent # clerk.spent,
         clerk.phase = "revoking" =>
            /\ clerk.entity \in IssuedTokens
            /\ refreshTokens[clerk.entity].sessionKey = clerk.entity
            /\ \/ clerk.entity \in clerk.revoked
               \/ refreshTokens[clerk.entity].isRevoked
  PROVE  SessionInvariant'
<1>1. /\ clerks' \in [SessionClients -> Clerks] /\ clerks'[c] = clerk
      /\ \A d \in SessionClients : d # c => clerks'[d] = clerks[d]
  BY DEF SessionInvariant, SessionTyped, SetClerk
<1>2. SessionTyped'
  BY <1>1 DEF SessionInvariant, SessionTyped
<1>3. SeriesIsAChain' /\ AnsweredPairsAreWhole'
  BY DEF SessionInvariant, SeriesIsAChain, AnsweredPairsAreWhole, IssuedTokens
<1>4. TransactionsAreIsolated'
  BY <1>1 DEF SessionInvariant, TransactionsAreIsolated, IssuedTokens
<1> QED
  BY <1>2, <1>3, <1>4 DEF SessionInvariant

\* A client between two requests of its session has read no row and staged none.
LEMMA IdleClerkHoldsNothing ==
  /\ IdleClerk \in Clerks
  /\ IdleClerk.phase = "idle" /\ IdleClerk.spent = NoToken /\ IdleClerk.saved = {}
  BY DEF IdleClerk, Clerks, ClerkPhases

\* Signing in, reading a row, staging a row and rolling back write no row of the table.
LEMMA PlainClerkSteps ==
  ASSUME SessionInvariant, NEW c \in SessionClients,
         \/ BeginSession(c)
         \/ \E t \in DOMAIN refreshTokens : FindRefreshToken(c, t)
         \/ \E kind \in {"access", "refresh"} : SaveToken(c, kind)
         \/ RollBack(c)
  PROVE  SessionInvariant'
<1> USE DEF SessionInvariant
<1>1. CASE BeginSession(c)
  <2>1. [IdleClerk EXCEPT !.phase = "saving"] \in Clerks
    BY DEF IdleClerk, Clerks, ClerkPhases
  <2> QED
    BY <1>1, <2>1, ClerkStep DEF BeginSession, IdleClerk
<1>2. CASE \E t \in DOMAIN refreshTokens : FindRefreshToken(c, t)
  <2> PICK t \in DOMAIN refreshTokens : FindRefreshToken(c, t)
    BY <1>2
  <2>1. t \in IssuedTokens /\ t \in Tokens
    BY IssuedTokensAreTokens
  <2>2. [IdleClerk EXCEPT !.phase = "found", !.entity = t] \in Clerks
    BY <2>1 DEF IdleClerk, Clerks, ClerkPhases
  <2> QED
    BY <2>1, <2>2, ClerkStep DEF FindRefreshToken, IdleClerk
<1>3. CASE \E kind \in {"access", "refresh"} : SaveToken(c, kind)
  <2> PICK kind \in {"access", "refresh"} : SaveToken(c, kind)
    BY <1>3
  <2>1. clerks[c] \in Clerks /\ clerks[c].phase = "saving"
    BY DEF SessionTyped, SaveToken
  <2>2. [clerks[c] EXCEPT !.saved = @ \cup {kind}] \in Clerks
    BY <2>1 DEF Clerks
  <2>3. clerks[c].spent # NoToken =>
            /\ clerks[c].spent \in IssuedTokens
            /\ ~refreshTokens[clerks[c].spent].isUsed
            /\ \A d \in SessionClients : d # c => clerks[d].spent # clerks[c].spent
    BY DEF TransactionsAreIsolated
  <2> DEFINE clerk == [clerks[c] EXCEPT !.saved = @ \cup {kind}]
  <2>4. clerk.spent = clerks[c].spent /\ clerk.phase = "saving"
    BY <2>1 DEF Clerks
  <2>5. SetClerk(c, clerk) /\ UNCHANGED <<refreshTokens, accessTokens, answered>>
    BY DEF SaveToken
  <2> HIDE DEF clerk, SessionInvariant
  <2> QED
    BY <2>2, <2>3, <2>4, <2>5, ClerkStep DEF clerk
<1>4. CASE RollBack(c)
  <2> HIDE DEF SessionInvariant
  <2> QED
    BY <1>4, IdleClerkHoldsNothing, ClerkStep DEF RollBack
<1> QED
  BY <1>1, <1>2, <1>3, <1>4

\* The condition of the update, and the lock of the row, keep a token to one spender.
LEMMA SpendStep ==
  ASSUME SessionInvariant, NEW c \in SessionClients, SpendRefreshToken(c)
  PROVE  SessionInvariant'
<1> DEFINE t == clerks[c].entity
           clerk == [clerks[c] EXCEPT !.phase = "saving", !.spent = t]
<1>1. /\ t \in IssuedTokens /\ t \in Tokens /\ t # NoToken
      /\ clerks[c] \in Clerks
      /\ UNCHANGED <<refreshTokens, accessTokens, answered>>
  BY IssuedTokensAreTokens
     DEF SessionInvariant, TransactionsAreIsolated, SpendRefreshToken, SessionTyped
<1>2. CASE IsSpendable(t)
  <2>1. clerk \in Clerks /\ clerk.phase = "saving" /\ clerk.spent = t
    BY <1>1 DEF Clerks, ClerkPhases
  <2>2. ~refreshTokens[t].isUsed
    BY <1>2 DEF IsSpendable
  <2>3. \A d \in SessionClients : clerks[d].spent # t
    BY DEF SpendRefreshToken, Locked
  <2>4. SetClerk(c, clerk)
    BY <1>2 DEF SpendRefreshToken
  <2> HIDE DEF t, clerk
  <2> QED
    BY <1>1, <2>1, <2>2, <2>3, <2>4, ClerkStep
<1>3. CASE ~IsSpendable(t)
  <2>1. SetClerk(c, IdleClerk)
    BY <1>3 DEF SpendRefreshToken
  <2> HIDE DEF t, clerk
  <2> QED
    BY <1>1, <2>1, IdleClerkHoldsNothing, ClerkStep
<1> QED
  BY <1>2, <1>3

\* Revoking begins with the rows of one series that no other transaction holds; it
\* notes them and writes nothing.
LEMMA RevokeStep ==
  ASSUME SessionInvariant, NEW c \in SessionClients, NEW key \in DOMAIN refreshTokens,
         refreshTokens[key].sessionKey = key, RevokeAllRefreshTokens(c, key)
  PROVE  SessionInvariant'
<1> DEFINE unrevoked == {t \in DOMAIN refreshTokens :
              /\ refreshTokens[t].sessionKey = key
              /\ ~refreshTokens[t].isRevoked}
           clerk == [IdleClerk EXCEPT
              !.phase = "revoking", !.entity = key, !.revoked = unrevoked]
<1>1. key \in IssuedTokens /\ key \in Tokens /\ unrevoked \subseteq Tokens
  BY IssuedTokensAreTokens DEF SessionInvariant
<1>2. clerk \in Clerks /\ clerk.phase = "revoking" /\ clerk.entity = key
      /\ clerk.revoked = unrevoked /\ clerk.spent = NoToken /\ clerk.saved = {}
  BY <1>1 DEF IdleClerk, Clerks, ClerkPhases
<1>3. key \in unrevoked \/ refreshTokens[key].isRevoked
  OBVIOUS
<1>4. SetClerk(c, clerk) /\ UNCHANGED <<refreshTokens, accessTokens, answered>>
  BY DEF RevokeAllRefreshTokens
<1> HIDE DEF clerk, unrevoked
<1> QED
  BY <1>1, <1>2, <1>3, <1>4, ClerkStep
\* The commit makes the spent token used and the new one its only heir.
LEMMA CommitStep ==
  ASSUME SessionInvariant, NEW c \in SessionClients, NEW isHeard \in BOOLEAN,
         CommitPair(c, isHeard)
  PROVE  SessionInvariant'
<1> DEFINE spent == clerks[c].spent
           t == Len(refreshTokens) + 1
           rewritten == [n \in DOMAIN refreshTokens |->
                            [refreshTokens[n] EXCEPT !.isUsed = @ \/ n = spent]]
<1>1. /\ t \in Tokens /\ t \notin IssuedTokens /\ t # NoToken
      /\ refreshTokens' = Append(rewritten, Heir(spent))
      /\ accessTokens' = accessTokens \cup {t}
      /\ answered' \subseteq answered \cup {t}
      /\ SetClerk(c, IdleClerk)
  <2>1. t \notin IssuedTokens /\ NoToken \notin Tokens
    BY IssuedTokensAreTokens DEF SessionInvariant, IssuedTokens
  <2>2. t \in Tokens
    BY DEF CommitPair
  <2> QED
    BY <2>1, <2>2 DEF CommitPair
<1>2. /\ spent \in IssuedTokens \cup {NoToken}
      /\ spent # NoToken => ~refreshTokens[spent].isUsed
  BY DEF SessionInvariant, TransactionsAreIsolated
<1>3. /\ Heir(spent) \in RefreshTokens
      /\ Heir(spent).heirOf = spent /\ Heir(spent).isUsed = FALSE
      /\ spent # NoToken => Heir(spent).sessionKey = refreshTokens[spent].sessionKey
  BY <1>1, <1>2, IssuedTokensAreTokens DEF Heir, RefreshTokens, SessionInvariant
<1>4. ASSUME NEW n \in IssuedTokens
      PROVE  /\ rewritten[n] \in RefreshTokens
             /\ rewritten[n].isUsed <=> refreshTokens[n].isUsed \/ n = spent
             /\ rewritten[n].sessionKey = refreshTokens[n].sessionKey
             /\ rewritten[n].heirOf = refreshTokens[n].heirOf
             /\ rewritten[n].isRevoked = refreshTokens[n].isRevoked
  BY <1>4, IssuedTokensAreTokens DEF RefreshTokens, SessionInvariant
<1>5. rewritten \in [IssuedTokens -> RefreshTokens]
  BY <1>4, IssuedTokensAreTokens DEF SessionInvariant
<1>6. /\ refreshTokens' \in Seq(RefreshTokens) /\ Len(refreshTokens') = t
      /\ refreshTokens'[t] = Heir(spent)
      /\ \A n \in IssuedTokens : refreshTokens'[n] = rewritten[n]
      /\ IssuedTokens' = IssuedTokens \cup {t}
  <2> HIDE DEF rewritten
  <2>1. rewritten \in Seq(RefreshTokens) /\ Len(rewritten) = Len(refreshTokens)
    BY <1>5, RewrittenTokens DEF SessionInvariant
  <2>2. Len(refreshTokens) \in Nat
    BY IssuedTokensAreTokens DEF SessionInvariant
  <2> QED
    BY <1>1, <1>3, <2>1, <2>2 DEF IssuedTokens
<1>7. /\ clerks' \in [SessionClients -> Clerks] /\ clerks'[c] = IdleClerk
      /\ \A d \in SessionClients : d # c => clerks'[d] = clerks[d]
  BY <1>1, IdleClerkHoldsNothing DEF SetClerk, SessionInvariant, SessionTyped
<1> HIDE DEF spent, t, rewritten
<1>8. SessionTyped'
  BY <1>1, <1>6, <1>7 DEF SessionInvariant, SessionTyped, Tokens
<1>9. TransactionsAreIsolated'
  <2>1. ASSUME NEW d \in SessionClients, d # c
        PROVE  /\ clerks'[d] = clerks[d]
               /\ clerks[d].spent # NoToken => clerks[d].spent # spent
    BY <1>7, <2>1 DEF SessionInvariant, TransactionsAreIsolated, spent
  <2>2. ASSUME NEW d \in SessionClients
        PROVE  /\ clerks'[d].phase = "found" => clerks'[d].entity \in IssuedTokens'
               /\ clerks'[d].phase # "saving" =>
                    clerks'[d].spent = NoToken /\ clerks'[d].saved = {}
               /\ clerks'[d].spent # NoToken =>
                    /\ clerks'[d].spent \in IssuedTokens'
                    /\ ~refreshTokens'[clerks'[d].spent].isUsed
               /\ clerks'[d].phase = "revoking" =>
                    /\ clerks'[d].entity \in IssuedTokens'
                    /\ refreshTokens'[clerks'[d].entity].sessionKey = clerks'[d].entity
                    /\ \/ clerks'[d].entity \in clerks'[d].revoked
                       \/ refreshTokens'[clerks'[d].entity].isRevoked
    <3>1. CASE d = c
      BY <3>1, <1>7, IdleClerkHoldsNothing
    <3>2. CASE d # c
      BY <3>2, <2>1, <1>4, <1>6 DEF SessionInvariant, TransactionsAreIsolated
    <3> QED
      BY <3>1, <3>2
  <2>3. \A d, e \in SessionClients :
            clerks'[d].spent # NoToken /\ clerks'[d].spent = clerks'[e].spent => d = e
    BY <1>7, IdleClerkHoldsNothing DEF SessionInvariant, TransactionsAreIsolated
  <2> QED
    BY <2>2, <2>3 DEF TransactionsAreIsolated
<1>10. SeriesIsAChain'
  <2>1. \A u \in IssuedTokens : refreshTokens[u].heirOf # spent \/ spent = NoToken
    BY <1>2 DEF SessionInvariant, SeriesIsAChain
  <2>2. \A u \in IssuedTokens' : refreshTokens'[u].heirOf # NoToken =>
          /\ refreshTokens'[u].heirOf \in IssuedTokens'
          /\ refreshTokens'[refreshTokens'[u].heirOf].isUsed
          /\ refreshTokens'[u].sessionKey
                = refreshTokens'[refreshTokens'[u].heirOf].sessionKey
    BY <1>2, <1>3, <1>4, <1>6 DEF SessionInvariant, SeriesIsAChain
  <2>3. \A n \in IssuedTokens' : refreshTokens'[n].isUsed =>
          \E u \in IssuedTokens' : refreshTokens'[u].heirOf = n
    BY <1>3, <1>4, <1>6 DEF SessionInvariant, SeriesIsAChain
  <2>4. \A u, v \in IssuedTokens' :
          refreshTokens'[u].heirOf # NoToken
          /\ refreshTokens'[u].heirOf = refreshTokens'[v].heirOf => u = v
    BY <2>1, <1>3, <1>4, <1>6 DEF SessionInvariant, SeriesIsAChain
  <2> QED
    BY <2>2, <2>3, <2>4 DEF SeriesIsAChain
<1>11. AnsweredPairsAreWhole'
  <2> SUFFICES ASSUME NEW n \in answered', n \notin accessTokens'
               PROVE  \E u \in IssuedTokens' :
                        /\ refreshTokens'[u].sessionKey = refreshTokens'[n].sessionKey
                        /\ refreshTokens'[u].isRevoked
    BY <1>1, <1>6 DEF SessionInvariant, AnsweredPairsAreWhole
  <2>1. n \in answered /\ n \notin accessTokens /\ n \in IssuedTokens
    BY <1>1 DEF SessionInvariant, AnsweredPairsAreWhole
  <2>2. PICK u \in IssuedTokens :
            refreshTokens[u].sessionKey = refreshTokens[n].sessionKey
            /\ refreshTokens[u].isRevoked
    BY <2>1 DEF SessionInvariant, AnsweredPairsAreWhole
  <2>3. /\ refreshTokens'[u].sessionKey = refreshTokens[u].sessionKey
        /\ refreshTokens'[n].sessionKey = refreshTokens[n].sessionKey
        /\ refreshTokens'[u].isRevoked /\ u \in IssuedTokens'
    BY <1>4, <1>6, <2>1, <2>2
  <2> QED
    BY <2>2, <2>3
<1> QED
  BY <1>8, <1>9, <1>10, <1>11 DEF SessionInvariant

\* The revocation takes its own tokens, and the first token of their session shows it.
LEMMA DeleteStep ==
  ASSUME SessionInvariant, NEW c \in SessionClients, DeleteAllAccessTokens(c)
  PROVE  SessionInvariant'
<1> DEFINE key == clerks[c].entity
<1>1. /\ key \in IssuedTokens /\ refreshTokens[key].sessionKey = key
      /\ key \in clerks[c].revoked \/ refreshTokens[key].isRevoked
      /\ accessTokens' = {t \in accessTokens : refreshTokens[t].sessionKey # key}
      /\ refreshTokens' = [t \in DOMAIN refreshTokens |->
            [refreshTokens[t] EXCEPT !.isRevoked = @ \/ t \in clerks[c].revoked]]
      /\ SetClerk(c, IdleClerk)
      /\ answered' = answered
  BY DEF DeleteAllAccessTokens, SessionInvariant, TransactionsAreIsolated
<1>2. ASSUME NEW n \in IssuedTokens
      PROVE  /\ refreshTokens'[n] \in RefreshTokens
             /\ refreshTokens'[n].isRevoked <=>
                    refreshTokens[n].isRevoked \/ n \in clerks[c].revoked
             /\ refreshTokens'[n].sessionKey = refreshTokens[n].sessionKey
             /\ refreshTokens'[n].heirOf = refreshTokens[n].heirOf
             /\ refreshTokens'[n].isUsed = refreshTokens[n].isUsed
  BY <1>1, <1>2, IssuedTokensAreTokens DEF RefreshTokens, SessionInvariant
<1>3. refreshTokens' \in [IssuedTokens -> RefreshTokens]
  BY <1>1, <1>2, IssuedTokensAreTokens DEF SessionInvariant
<1>4. /\ refreshTokens' \in Seq(RefreshTokens) /\ Len(refreshTokens') = Len(refreshTokens)
      /\ IssuedTokens' = IssuedTokens
  BY <1>3, RewrittenTokens DEF SessionInvariant, IssuedTokens
<1>5. /\ clerks' \in [SessionClients -> Clerks] /\ clerks'[c] = IdleClerk
      /\ \A d \in SessionClients : d # c => clerks'[d] = clerks[d]
  BY <1>1, IdleClerkHoldsNothing DEF SetClerk, SessionInvariant, SessionTyped
<1> HIDE DEF key
<1>6. SessionTyped'
  BY <1>1, <1>4, <1>5 DEF SessionInvariant, SessionTyped
<1>7. TransactionsAreIsolated'
  BY <1>2, <1>4, <1>5, IdleClerkHoldsNothing DEF SessionInvariant, TransactionsAreIsolated
<1>8. SeriesIsAChain'
  BY <1>2, <1>4 DEF SessionInvariant, SeriesIsAChain
<1>9. AnsweredPairsAreWhole'
  <2> SUFFICES ASSUME NEW n \in answered, n \notin accessTokens'
               PROVE  \E u \in IssuedTokens :
                        /\ refreshTokens'[u].sessionKey = refreshTokens'[n].sessionKey
                        /\ refreshTokens'[u].isRevoked
    BY <1>1, <1>4 DEF SessionInvariant, AnsweredPairsAreWhole
  <2>1. n \in IssuedTokens
    BY DEF SessionInvariant, AnsweredPairsAreWhole
  <2>2. CASE n \in accessTokens
    <3>1. refreshTokens[n].sessionKey = key
      BY <1>1, <2>2
    <3>2. refreshTokens'[n].sessionKey = key /\ refreshTokens'[key].sessionKey = key
      BY <1>1, <1>2, <2>1, <3>1
    <3>3. refreshTokens'[key].isRevoked
      BY <1>1, <1>2
    <3> QED
      BY <1>1, <3>2, <3>3
  <2>3. CASE n \notin accessTokens
    BY <1>2, <2>1, <2>3 DEF SessionInvariant, AnsweredPairsAreWhole
  <2> QED
    BY <2>2, <2>3
<1> QED
  BY <1>6, <1>7, <1>8, <1>9 DEF SessionInvariant

\* The three parts of the invariant hold in every state of the sessions, for any
\* clients and any number of tokens.
THEOREM SessionInvariantHolds == SessionSpec => []SessionInvariant
<1>1. SessionInit => SessionInvariant
  BY IdleClerkHoldsNothing, SessionAssumption
     DEF SessionInit, SessionInvariant, SessionTyped, TransactionsAreIsolated, SeriesIsAChain,
         AnsweredPairsAreWhole, IssuedTokens
<1>2. SessionInvariant /\ [SessionNext]_sessionVars => SessionInvariant'
  <2> SUFFICES ASSUME SessionInvariant, [SessionNext]_sessionVars
               PROVE  SessionInvariant'
    OBVIOUS
  <2>1. CASE UNCHANGED sessionVars
    BY <2>1 DEF sessionVars, SessionInvariant, SessionTyped, TransactionsAreIsolated,
                SeriesIsAChain, AnsweredPairsAreWhole, IssuedTokens
  <2>2. CASE SessionNext
    <3> HIDE DEF SessionInvariant
    <3> QED
      BY <2>2, PlainClerkSteps, SpendStep, RevokeStep, CommitStep, DeleteStep
         DEF SessionNext
  <2> QED
    BY <2>1, <2>2
<1> QED
  BY <1>1, <1>2, PTL DEF SessionSpec

\* Every session table is what the code keeps, whatever transactions run at once.
THEOREM SessionTypeCorrect == SessionSpec => []SessionTypeOK
<1>1. SessionInvariant => SessionTypeOK
  BY DEF SessionInvariant, SessionTyped, SessionTypeOK, Clerks, ClerkPhases
<1> QED
  BY <1>1, SessionInvariantHolds, PTL

\* However many clients present a refresh token, together or again, it is traded for
\* one heir of its session, and a pair that was handed out is whole or its session is
\* revoked (SessionClerk.spendRefreshToken, revokeSession).
THEOREM TokenHasOneHeir == SessionSpec => []OneHeirPerToken
<1>1. SessionInvariant => OneHeirPerToken
  <2> SUFFICES ASSUME SessionInvariant PROVE OneHeirPerToken
    OBVIOUS
  <2>1. DOMAIN refreshTokens = IssuedTokens /\ NoToken \notin IssuedTokens
    BY IssuedTokensAreTokens DEF SessionInvariant
  <2> QED
    BY <2>1 DEF SessionInvariant, OneHeirPerToken, SeriesIsAChain, AnsweredPairsAreWhole
<1> QED
  BY <1>1, SessionInvariantHolds, PTL
--------------------------------------------------------------------------------
(* The signatures of API clients                                            *)

\* The client signs with a secret it was given, a later one after every change.
SecretsAreCounted ==
    /\ apiClient = Unset =>
        /\ secretCount = 0 /\ offered = Unset /\ signedWith = Unset
        /\ \A operator \in Operators : commands[operator] = NoCommand
    /\ apiClient # Unset => offered = secretCount /\ signedWith \in 1..secretCount
    /\ \A id \in Requests : requests[id].phase # "unsent" =>
        /\ apiClient # Unset
        /\ requests[id].secret \in 1..signedWith

IsSealed(envelope) ==
    envelope.key = IF envelope.secret = 1 THEN RegistrationKey ELSE encryptionKey

\* Every secret but the registered one is at rest under the key there is.
EnvelopesAreSealed ==
    /\ apiClient # Unset =>
        /\ IsSealed(apiClient.secretCiphertext)
        /\ apiClient.previousSecretCiphertext # Unset =>
            IsSealed(apiClient.previousSecretCiphertext)
    /\ \A operator \in Operators : commands[operator] # NoCommand =>
        /\ apiClient # Unset
        /\ encryptionKey # Unset
        /\ commands[operator].secretCiphertext \in Envelopes
        /\ IsSealed(commands[operator].secretCiphertext)

\* While no two commands have been under way together and no secret was lost, the row
\* holds the secret the client signs with, and no command under way is to drop it.
RowHoldsTheClientsSecret ==
    /\ loss # "none" => hasLostSecret
    /\ ~hasOverlapped /\ ~hasLostSecret /\ apiClient # Unset =>
        /\ apiClient.secretCiphertext.secret = offered
        /\ \/ signedWith = offered
           \/ /\ apiClient.previousSecretCiphertext # Unset
              /\ apiClient.previousSecretCiphertext.secret = signedWith
        /\ \A operator, other \in Operators :
            commands[operator] # NoCommand /\ commands[other] # NoCommand =>
                operator = other
        /\ \A operator \in Operators :
            /\ commands[operator].phase = "rotating" =>
                /\ commands[operator].secretCiphertext = apiClient.secretCiphertext
                /\ apiClient.previousSecretCiphertext = Unset
            /\ commands[operator].phase = "retiring" => signedWith = offered

IsSignedInTime(request) ==
    /\ request.form \in {"whole", "bodiless"}
    /\ request.requestedAt - request.timestampSeconds \in
            -AllowedDeviationSeconds..AllowedDeviationSeconds

\* A request refused for no fault of its own was signed before a change, or under a key
\* that is gone.
RefusalsHaveTheirCause ==
    \A id \in Requests :
        /\ requests[id].phase = "Unauthenticated"
        /\ IsSignedInTime(requests[id])
        /\ ~hasOverlapped
        /\ ~hasLostSecret
        => \/ requests[id].secret < signedWith
           \/ requests[id].secret = 1 /\ encryptionKey # RegistrationKey

RotationInvariant ==
    /\ AuthenticationTypeOK
    /\ SecretsAreCounted
    /\ EnvelopesAreSealed
    /\ RowHoldsTheClientsSecret
    /\ RefusalsHaveTheirCause

\* What is in the table of API clients is never mistaken for the marker of an empty
\* column.
LEMMA RowsAreNotUnset ==
  ASSUME AuthenticationTypeOK
  PROVE  /\ apiClient # Unset => apiClient \in ApiClientRows
         /\ secretCount \in Nat /\ Unset \notin Secrets /\ Unset \notin ApiClientRows
         /\ Unset \notin Envelopes
         /\ NoCommand.phase = "idle" /\ NoCommand.secretCiphertext = Unset
  BY RotationAssumption DEF AuthenticationTypeOK, RotationTypeOK, Secrets, NoCommand

\* A request that was refused stays behind a client that only changes over to later
\* secrets.
LEMMA RefusalsStand ==
  ASSUME RotationInvariant, UNCHANGED <<requests, encryptionKey>>,
         apiClient # Unset => signedWith' \in Nat /\ signedWith <= signedWith',
         hasOverlapped => hasOverlapped', hasLostSecret => hasLostSecret'
  PROVE  RefusalsHaveTheirCause'
<1>1. \A id \in Requests : requests[id].phase = "Unauthenticated" =>
          apiClient # Unset /\ requests[id].secret \in 1..signedWith
  BY DEF RotationInvariant, SecretsAreCounted
<1>2. apiClient # Unset => signedWith \in Nat
  BY RowsAreNotUnset DEF RotationInvariant, SecretsAreCounted
<1> QED
  BY <1>1, <1>2 DEF RotationInvariant, RefusalsHaveTheirCause, IsSignedInTime

\* Registration writes the first row: one secret, newly sealed, and no earlier one.
LEMMA RegisterStep ==
  ASSUME RotationInvariant, RegisterApiClient, UNCHANGED <<now, isActive, requests>>
  PROVE  RotationInvariant'
<1> USE DEF RotationInvariant
<1>1. /\ apiClient = Unset /\ secretCount' = 1 /\ offered' = 1 /\ signedWith' = 1
      /\ apiClient' = RegisteredApiClient(1)
      /\ UNCHANGED <<encryptionKey, commands, loss, hasOverlapped, hasLostSecret>>
  BY DEF RegisterApiClient, histories
<1>2. /\ 1 \in Secrets
      /\ RegisteredApiClient(1) \in ApiClientRows
      /\ RegisteredApiClient(1).secretCiphertext = [secret |-> 1, key |-> RegistrationKey]
      /\ RegisteredApiClient(1).previousSecretCiphertext = Unset
      /\ RegisteredApiClient(1) # Unset
  <2>1. 1 \in Secrets
    BY RotationAssumption DEF Secrets
  <2>2. RegisteredApiClient(1) \in ApiClientRows
    BY <2>1, RotationAssumption DEF RegisteredApiClient, EncryptSecret, ApiClientRows, Envelopes
  <2> QED
    BY <2>1, <2>2, RowsAreNotUnset DEF RegisteredApiClient, EncryptSecret
<1>3. AuthenticationTypeOK'
  BY <1>1, <1>2 DEF AuthenticationTypeOK, RotationTypeOK
<1>4. /\ \A operator \in Operators : commands'[operator] = NoCommand
      /\ \A id \in Requests : requests'[id].phase = "unsent"
  BY <1>1 DEF SecretsAreCounted
<1>5. SecretsAreCounted'
  BY <1>1, <1>2, <1>4 DEF SecretsAreCounted
<1>6. EnvelopesAreSealed'
  BY <1>1, <1>2, <1>4 DEF EnvelopesAreSealed, IsSealed
<1>7. RowHoldsTheClientsSecret'
  BY <1>1, <1>2, <1>4, RowsAreNotUnset DEF RowHoldsTheClientsSecret
<1>8. RefusalsHaveTheirCause'
  BY <1>4 DEF RefusalsHaveTheirCause
<1> QED
  BY <1>3, <1>5, <1>6, <1>7, <1>8

\* The first query of a command, with what the command is let begin on.
LEMMA ReadStep ==
  ASSUME RotationInvariant, UNCHANGED <<now, isActive, requests>>,
         NEW operator \in Operators, NEW phase \in {"rotating", "retiring"},
         CanBeOperated, ReadApiClient(operator, phase),
         phase = "rotating" => ~HasRotationUnderWay,
         phase = "retiring" => signedWith = offered \/ loss = "advised"
  PROVE  RotationInvariant'
<1> USE DEF RotationInvariant
<1>1. /\ apiClient # Unset /\ encryptionKey # Unset
      /\ commands[operator] = NoCommand
      /\ commands' = [commands EXCEPT ![operator] =
            [phase |-> phase, secretCiphertext |-> apiClient.secretCiphertext]]
      /\ hasOverlapped' =
            (hasOverlapped \/ \E other \in Operators : commands[other] # NoCommand)
      /\ UNCHANGED <<encryptionKey, apiClient, secretCount, offered, loss, signedWith,
                     hasLostSecret>>
  BY DEF ReadApiClient, CanBeOperated
<1>2. apiClient \in ApiClientRows /\ apiClient.secretCiphertext \in Envelopes
  BY <1>1, RowsAreNotUnset DEF ApiClientRows
<1>3. /\ commands'[operator].phase = phase
      /\ commands'[operator].secretCiphertext = apiClient.secretCiphertext
      /\ \A other \in Operators : other # operator => commands'[other] = commands[other]
  BY <1>1 DEF AuthenticationTypeOK, RotationTypeOK
<1>4. AuthenticationTypeOK'
  <2>1. hasOverlapped' \in BOOLEAN
    BY <1>1 DEF AuthenticationTypeOK, RotationTypeOK
  <2>2. commands' \in [Operators ->
            [phase : {"idle", "rotating", "retiring"},
             secretCiphertext : Envelopes \cup {Unset}]]
    BY <1>1, <1>2 DEF AuthenticationTypeOK, RotationTypeOK
  <2> QED
    BY <1>1, <2>1, <2>2 DEF AuthenticationTypeOK, RotationTypeOK
<1>5. SecretsAreCounted'
  BY <1>1 DEF SecretsAreCounted
<1>6. EnvelopesAreSealed'
  BY <1>1, <1>2, <1>3 DEF EnvelopesAreSealed, IsSealed
<1>7. RowHoldsTheClientsSecret'
  <2> SUFFICES ASSUME ~hasOverlapped', ~hasLostSecret
               PROVE  RowHoldsTheClientsSecret'
    BY <1>1 DEF RowHoldsTheClientsSecret
  <2>1. ~hasOverlapped /\ \A other \in Operators : commands[other] = NoCommand
    BY <1>1
  <2>2. loss = "none"
    BY DEF RowHoldsTheClientsSecret
  <2>3. \A other \in Operators : other # operator => commands'[other] = NoCommand
    BY <1>3, <2>1
  <2>4. NoCommand.phase = "idle"
    BY DEF NoCommand
  <2>5. phase = "rotating" => apiClient.previousSecretCiphertext = Unset
    BY DEF HasRotationUnderWay
  <2>6. phase = "retiring" => signedWith = offered
    BY <2>2
  <2> QED
    BY <1>1, <1>3, <2>1, <2>2, <2>3, <2>4, <2>5, <2>6 DEF RowHoldsTheClientsSecret
<1>8. RefusalsHaveTheirCause'
  <2>1. apiClient # Unset => signedWith' \in Nat /\ signedWith <= signedWith'
    BY <1>1, RowsAreNotUnset DEF SecretsAreCounted
  <2>2. hasOverlapped => hasOverlapped'
    BY <1>1, Zenon
  <2> QED
    BY <1>1, <2>1, <2>2, RefusalsStand
<1> QED
  BY <1>4, <1>5, <1>6, <1>7, <1>8

\* A command that ends, with the row as it left it.
LEMMA EndedCommand ==
  ASSUME AuthenticationTypeOK, NEW operator \in Operators,
         commands' = [commands EXCEPT ![operator] = NoCommand]
  PROVE  /\ commands' \in [Operators ->
                [phase : {"idle", "rotating", "retiring"},
                 secretCiphertext : Envelopes \cup {Unset}]]
         /\ commands'[operator] = NoCommand
         /\ \A other \in Operators : other # operator => commands'[other] = commands[other]
  BY DEF AuthenticationTypeOK, RotationTypeOK, NoCommand

\* A rotation stores a new secret beside the one its command read, which is another
\* than the row holds only where two commands overlap.
LEMMA SaveRotatedStep ==
  ASSUME RotationInvariant, UNCHANGED <<now, isActive, requests>>,
         NEW operator \in Operators, SaveRotatedSecret(operator)
  PROVE  RotationInvariant'
<1> USE DEF RotationInvariant
<1>1. /\ commands[operator].phase = "rotating"
      /\ secretCount < MaximumSecretCount
      /\ secretCount' = secretCount + 1 /\ offered' = secretCount' /\ loss' = "none"
      /\ apiClient' =
            [secretCiphertext |-> EncryptSecret(secretCount', encryptionKey),
             previousSecretCiphertext |-> commands[operator].secretCiphertext]
      /\ commands' = [commands EXCEPT ![operator] = NoCommand]
      /\ UNCHANGED <<encryptionKey, signedWith, hasOverlapped, hasLostSecret>>
  BY DEF SaveRotatedSecret, histories
<1>2. /\ commands[operator] # NoCommand
      /\ apiClient # Unset /\ encryptionKey # Unset
      /\ commands[operator].secretCiphertext \in Envelopes
      /\ IsSealed(commands[operator].secretCiphertext)
  BY <1>1, RowsAreNotUnset DEF EnvelopesAreSealed
<1>3. /\ secretCount \in 1..MaximumSecretCount
      /\ offered = secretCount /\ signedWith \in 1..secretCount
  <2>1. offered = secretCount /\ signedWith \in 1..secretCount
    BY <1>2 DEF SecretsAreCounted
  <2>2. secretCount \in Secrets \cup {0}
    BY DEF AuthenticationTypeOK, RotationTypeOK
  <2> QED
    BY <2>1, <2>2, RotationAssumption DEF Secrets
<1>4. secretCount' \in Secrets /\ secretCount' # 1
  BY <1>1, <1>3, RotationAssumption DEF Secrets
<1>5. /\ apiClient' \in ApiClientRows
      /\ apiClient'.secretCiphertext.secret = secretCount'
      /\ apiClient'.secretCiphertext.key = encryptionKey
      /\ apiClient'.previousSecretCiphertext = commands[operator].secretCiphertext
      /\ apiClient' # Unset
      /\ apiClient'.previousSecretCiphertext # Unset
  <2>1. EncryptSecret(secretCount', encryptionKey) \in Envelopes
    BY <1>2, <1>4 DEF EncryptSecret, Envelopes, AuthenticationTypeOK, RotationTypeOK
  <2>2. apiClient' \in ApiClientRows
    BY <1>1, <1>2, <2>1 DEF ApiClientRows
  <2> QED
    BY <1>1, <1>2, <2>2, RowsAreNotUnset DEF EncryptSecret
<1>6. AuthenticationTypeOK'
  BY <1>1, <1>4, <1>5, EndedCommand DEF AuthenticationTypeOK, RotationTypeOK
<1>7. SecretsAreCounted'
  BY <1>1, <1>3, <1>5 DEF SecretsAreCounted
<1>8. EnvelopesAreSealed'
  BY <1>1, <1>2, <1>4, <1>5, EndedCommand DEF EnvelopesAreSealed, IsSealed
<1>9. RowHoldsTheClientsSecret'
  <2> SUFFICES ASSUME ~hasOverlapped, ~hasLostSecret
               PROVE  RowHoldsTheClientsSecret'
    BY <1>1 DEF RowHoldsTheClientsSecret
  <2>1. /\ commands[operator].secretCiphertext = apiClient.secretCiphertext
        /\ apiClient.previousSecretCiphertext = Unset
        /\ apiClient.secretCiphertext.secret = offered
        /\ signedWith = offered
    BY <1>1, <1>2 DEF RowHoldsTheClientsSecret
  <2>2. \A other \in Operators : commands[other] # NoCommand => other = operator
    BY <1>2 DEF RowHoldsTheClientsSecret
  <2>3. \A other \in Operators : commands'[other] = NoCommand
    BY <1>1, <2>2, EndedCommand
  <2>4. NoCommand.phase = "idle"
    BY DEF NoCommand
  <2> QED
    BY <1>1, <1>5, <2>1, <2>3, <2>4 DEF RowHoldsTheClientsSecret
<1>10. RefusalsHaveTheirCause'
  BY <1>1, <1>3, RefusalsStand
<1> QED
  BY <1>6, <1>7, <1>8, <1>9, <1>10

\* A retirement takes the earlier secret away and leaves the present one as it stands.
LEMMA SaveRetirementStep ==
  ASSUME RotationInvariant, UNCHANGED <<now, isActive, requests>>,
         NEW operator \in Operators, SaveRetirement(operator)
  PROVE  RotationInvariant'
<1> USE DEF RotationInvariant
<1>1. /\ commands[operator].phase = "retiring"
      /\ apiClient' = [apiClient EXCEPT !.previousSecretCiphertext = Unset]
      /\ commands' = [commands EXCEPT ![operator] = NoCommand]
      /\ UNCHANGED <<encryptionKey, secretCount, offered, loss, signedWith, hasOverlapped,
                     hasLostSecret>>
  BY DEF SaveRetirement, histories
<1>2. commands[operator] # NoCommand /\ apiClient # Unset /\ apiClient \in ApiClientRows
  BY <1>1, RowsAreNotUnset DEF EnvelopesAreSealed
<1>3. /\ apiClient' \in ApiClientRows /\ apiClient' # Unset
      /\ apiClient'.secretCiphertext = apiClient.secretCiphertext
      /\ apiClient'.previousSecretCiphertext = Unset
  BY <1>1, <1>2, RowsAreNotUnset DEF ApiClientRows
<1>4. AuthenticationTypeOK'
  BY <1>1, <1>3, EndedCommand DEF AuthenticationTypeOK, RotationTypeOK
<1>5. SecretsAreCounted'
  BY <1>1, <1>2, <1>3 DEF SecretsAreCounted
<1>6. EnvelopesAreSealed'
  BY <1>1, <1>2, <1>3, EndedCommand DEF EnvelopesAreSealed, IsSealed
<1>7. RowHoldsTheClientsSecret'
  <2> SUFFICES ASSUME ~hasOverlapped, ~hasLostSecret
               PROVE  RowHoldsTheClientsSecret'
    BY <1>1 DEF RowHoldsTheClientsSecret
  <2>1. apiClient.secretCiphertext.secret = offered /\ signedWith = offered
    BY <1>1, <1>2 DEF RowHoldsTheClientsSecret
  <2>2. \A other \in Operators : commands[other] # NoCommand => other = operator
    BY <1>2 DEF RowHoldsTheClientsSecret
  <2>3. \A other \in Operators : commands'[other] = NoCommand
    BY <1>1, <2>2, EndedCommand
  <2>4. NoCommand.phase = "idle"
    BY DEF NoCommand
  <2> QED
    BY <1>1, <1>3, <2>1, <2>3, <2>4 DEF RowHoldsTheClientsSecret
<1>8. RefusalsHaveTheirCause'
  BY <1>1, RefusalsStand, RowsAreNotUnset DEF SecretsAreCounted
<1> QED
  BY <1>4, <1>5, <1>6, <1>7, <1>8

\* A command that fails has written nothing.
LEMMA FailCommandStep ==
  ASSUME RotationInvariant, UNCHANGED <<now, isActive, requests>>,
         NEW operator \in Operators, FailCommand(operator)
  PROVE  RotationInvariant'
<1> USE DEF RotationInvariant
<1>1. /\ commands' = [commands EXCEPT ![operator] = NoCommand]
      /\ UNCHANGED <<encryptionKey, apiClient, secretCount, offered, loss, signedWith,
                     hasOverlapped, hasLostSecret>>
  BY DEF FailCommand, histories
<1>2. /\ \A other \in Operators :
            commands'[other] = commands[other] \/ commands'[other] = NoCommand
      /\ NoCommand.phase = "idle"
  BY <1>1, EndedCommand DEF NoCommand
<1>3. AuthenticationTypeOK'
  BY <1>1, EndedCommand DEF AuthenticationTypeOK, RotationTypeOK
<1>4. SecretsAreCounted'
  BY <1>1, <1>2 DEF SecretsAreCounted
<1>5. EnvelopesAreSealed'
  BY <1>1, <1>2 DEF EnvelopesAreSealed, IsSealed
<1>6. RowHoldsTheClientsSecret'
  <2>1. \A other \in Operators :
            commands'[other] # NoCommand => commands'[other] = commands[other]
    BY <1>2
  <2>2. \A other \in Operators : commands'[other].phase \in {"rotating", "retiring"} =>
            commands'[other] = commands[other]
    BY <1>2
  <2> QED
    BY <1>1, <2>1, <2>2 DEF RowHoldsTheClientsSecret
<1>7. RefusalsHaveTheirCause'
  BY <1>1, RefusalsStand, RowsAreNotUnset DEF SecretsAreCounted
<1> QED
  BY <1>3, <1>4, <1>5, <1>6, <1>7

\* A secret that is lost before the client signs with it is remembered as lost; no row
\* changes.
LEMMA LoseSecretStep ==
  ASSUME RotationInvariant, UNCHANGED <<now, isActive, requests>>, LoseSecret
  PROVE  RotationInvariant'
<1> USE DEF RotationInvariant
<1>1. /\ loss' = "lost" /\ hasLostSecret' = TRUE
      /\ UNCHANGED <<encryptionKey, apiClient, commands, secretCount, offered, signedWith,
                     hasOverlapped>>
  BY DEF LoseSecret
<1>2. AuthenticationTypeOK' /\ SecretsAreCounted' /\ EnvelopesAreSealed'
  BY <1>1 DEF AuthenticationTypeOK, RotationTypeOK, SecretsAreCounted, EnvelopesAreSealed,
              IsSealed
<1>3. RowHoldsTheClientsSecret' /\ RefusalsHaveTheirCause'
  BY <1>1 DEF RowHoldsTheClientsSecret, RefusalsHaveTheirCause
<1> QED
  BY <1>2, <1>3

\* A rotation that is refused, because the one before it is not retired, has written
\* nothing.
LEMMA RefuseRotationStep ==
  ASSUME RotationInvariant, UNCHANGED <<now, isActive, requests>>,
         NEW operator \in Operators, RefuseRotation(operator)
  PROVE  RotationInvariant'
<1> USE DEF RotationInvariant
<1>1. /\ loss = "lost" /\ loss' = "advised"
      /\ UNCHANGED <<encryptionKey, apiClient, commands, secretCount, offered, signedWith,
                     hasOverlapped, hasLostSecret>>
  BY DEF RefuseRotation, histories
<1>2. AuthenticationTypeOK' /\ SecretsAreCounted' /\ EnvelopesAreSealed'
  BY <1>1 DEF AuthenticationTypeOK, RotationTypeOK, SecretsAreCounted, EnvelopesAreSealed,
              IsSealed
<1>3. RowHoldsTheClientsSecret' /\ RefusalsHaveTheirCause'
  BY <1>1 DEF RowHoldsTheClientsSecret, RefusalsHaveTheirCause, IsSignedInTime
<1> QED
  BY <1>2, <1>3

\* A client changes over to the last secret it was offered, which the row holds.
LEMMA AdoptSecretStep ==
  ASSUME RotationInvariant, UNCHANGED <<now, isActive, requests>>, AdoptSecret
  PROVE  RotationInvariant'
<1> USE DEF RotationInvariant
<1>1. /\ loss = "none" /\ signedWith # offered /\ signedWith' = offered
      /\ UNCHANGED <<encryptionKey, apiClient, commands, secretCount, offered, loss,
                     hasOverlapped, hasLostSecret>>
  BY DEF AdoptSecret, histories
<1>2. /\ apiClient # Unset /\ offered = secretCount /\ signedWith \in 1..secretCount
      /\ secretCount \in Nat /\ secretCount \in Secrets
  <2>1. apiClient # Unset
    BY <1>1 DEF SecretsAreCounted
  <2>2. offered = secretCount /\ signedWith \in 1..secretCount
    BY <2>1 DEF SecretsAreCounted
  <2>3. secretCount \in Secrets \cup {0}
    BY DEF AuthenticationTypeOK, RotationTypeOK
  <2> QED
    BY <2>1, <2>2, <2>3, RotationAssumption DEF Secrets
<1>3. signedWith' = secretCount
  BY <1>1, <1>2
<1>4. AuthenticationTypeOK'
  BY <1>1, <1>2, <1>3 DEF AuthenticationTypeOK, RotationTypeOK
<1>5. SecretsAreCounted'
  BY <1>1, <1>2, <1>3 DEF SecretsAreCounted
<1>6. EnvelopesAreSealed'
  BY <1>1 DEF EnvelopesAreSealed, IsSealed
<1>7. RowHoldsTheClientsSecret'
  BY <1>1, <1>2 DEF RowHoldsTheClientsSecret
<1>8. RefusalsHaveTheirCause'
  BY <1>1, <1>2, <1>3, RefusalsStand
<1> QED
  BY <1>4, <1>5, <1>6, <1>7, <1>8

\* What a request does leaves the secrets alone.
LEMMA RequestStands ==
  ASSUME RotationInvariant, NEW id \in Requests, NEW request \in RequestRows,
         requests' = [requests EXCEPT ![id] = request],
         UNCHANGED <<rotationVars, now, isActive>>,
         request.phase # "unsent" =>
            apiClient # Unset /\ request.secret \in 1..signedWith,
         /\ request.phase = "Unauthenticated"
         /\ IsSignedInTime(request)
         /\ ~hasOverlapped
         /\ ~hasLostSecret
         => \/ request.secret < signedWith
            \/ request.secret = 1 /\ encryptionKey # RegistrationKey
  PROVE  RotationInvariant'
<1> USE DEF RotationInvariant
<1>1. /\ UNCHANGED <<encryptionKey, apiClient, commands, secretCount, offered, loss, signedWith,
                     hasOverlapped, hasLostSecret>>
      /\ requests' \in [Requests -> RequestRows]
      /\ requests'[id] = request
      /\ \A other \in Requests : other # id => requests'[other] = requests[other]
  BY DEF rotationVars, histories, AuthenticationTypeOK
<1>2. AuthenticationTypeOK' /\ EnvelopesAreSealed' /\ RowHoldsTheClientsSecret'
  BY <1>1 DEF AuthenticationTypeOK, RotationTypeOK, EnvelopesAreSealed, IsSealed,
              RowHoldsTheClientsSecret
<1>3. SecretsAreCounted'
  BY <1>1 DEF SecretsAreCounted
<1>4. RefusalsHaveTheirCause'
  <2>1. ASSUME NEW other \in Requests, requests'[other].phase = "Unauthenticated",
               IsSignedInTime(requests'[other]), ~hasOverlapped, ~hasLostSecret
        PROVE  \/ requests'[other].secret < signedWith
               \/ requests'[other].secret = 1 /\ encryptionKey # RegistrationKey
    <3>1. CASE other = id
      BY <1>1, <2>1, <3>1
    <3>2. CASE other # id
      BY <1>1, <2>1, <3>2 DEF RefusalsHaveTheirCause
    <3> QED
      BY <3>1, <3>2
  <2> QED
    BY <1>1, <2>1 DEF RefusalsHaveTheirCause, IsSignedInTime
<1> QED
  BY <1>2, <1>3, <1>4

\* A request is signed with the secret its client signs with by then, under a timestamp
\* that may be any.
LEMMA SendStep ==
  ASSUME RotationInvariant, NEW id \in Requests, SendRequest(id)
  PROVE  RotationInvariant'
<1>1. PICK form \in Forms, timestampSeconds \in Seconds :
        requests' = [requests EXCEPT ![id] =
            [UnsentRequest EXCEPT
                !.phase = "sent", !.form = form, !.timestampSeconds = timestampSeconds,
                !.secret = signedWith]]
  BY DEF SendRequest
<1> DEFINE request == [UnsentRequest EXCEPT
                !.phase = "sent", !.form = form, !.timestampSeconds = timestampSeconds,
                !.secret = signedWith]
<1>2. signedWith # Unset /\ UNCHANGED <<rotationVars, now, isActive>>
  BY DEF SendRequest
<1>3. /\ signedWith \in Secrets /\ apiClient # Unset
      /\ signedWith \in 1..secretCount /\ secretCount \in Nat
  <2>1. signedWith \in Secrets
    BY <1>2 DEF RotationInvariant, AuthenticationTypeOK, RotationTypeOK
  <2>2. apiClient # Unset
    BY <1>2 DEF RotationInvariant, SecretsAreCounted
  <2> QED
    BY <2>1, <2>2, RowsAreNotUnset DEF RotationInvariant, SecretsAreCounted
<1>4. request \in RequestRows /\ request.phase = "sent" /\ request.secret = signedWith
  <2>1. form \in RequestForms /\ 0 \in Seconds
    BY AuthenticationAssumption DEF Seconds
  <2> QED
    BY <1>3, <2>1 DEF UnsentRequest, RequestRows
<1>5. requests' = [requests EXCEPT ![id] = request]
  BY <1>1
<1>6. request.secret \in 1..signedWith
  BY <1>3, <1>4
<1> HIDE DEF request
<1> QED
  BY <1>2, <1>3, <1>4, <1>5, <1>6, RequestStands

\* An answer of a request that keeps what it was sent with.
LEMMA AnswerStep ==
  ASSUME RotationInvariant, NEW id \in Requests, NEW answer \in {"served"} \cup Refusals,
         requests[id].phase # "unsent", Answer(id, answer),
         /\ answer = "Unauthenticated"
         /\ IsSignedInTime(requests[id])
         /\ ~hasOverlapped
         /\ ~hasLostSecret
         => \/ requests[id].secret < signedWith
            \/ requests[id].secret = 1 /\ encryptionKey # RegistrationKey
  PROVE  RotationInvariant'
<1> DEFINE request == [requests[id] EXCEPT !.phase = answer]
<1>1. requests[id] \in RequestRows
  BY DEF RotationInvariant, AuthenticationTypeOK
<1>2. /\ request \in RequestRows /\ request.phase = answer
      /\ request.secret = requests[id].secret
      /\ request.form = requests[id].form
      /\ request.requestedAt = requests[id].requestedAt
      /\ request.timestampSeconds = requests[id].timestampSeconds
  BY <1>1 DEF RequestRows
<1>3. requests' = [requests EXCEPT ![id] = request]
      /\ UNCHANGED <<rotationVars, now, isActive>>
  BY DEF Answer
<1>4. apiClient # Unset /\ request.secret \in 1..signedWith
  BY <1>2 DEF RotationInvariant, SecretsAreCounted
<1>5. IsSignedInTime(request) => IsSignedInTime(requests[id])
  BY <1>2 DEF IsSignedInTime
<1> HIDE DEF request
<1> QED
  BY <1>2, <1>3, <1>4, <1>5, RequestStands

\* The first query of an authentication copies the row; the row may move on from here.
LEMMA FindApiClientStep ==
  ASSUME RotationInvariant, NEW id \in Requests, FindApiClient(id)
  PROVE  RotationInvariant'
<1>1. requests[id].phase = "sent" /\ requests[id] \in RequestRows
  BY DEF FindApiClient, RotationInvariant, AuthenticationTypeOK
<1>2. CASE NamesClient(requests[id]) /\ IsKnownClientKey(requests[id])
  <2> DEFINE request == [requests[id] EXCEPT
                !.phase = "named", !.requestedAt = now, !.isActive = isActive]
  <2>1. now \in Seconds /\ isActive \in BOOLEAN
    BY DEF RotationInvariant, AuthenticationTypeOK
  <2>2. request \in RequestRows /\ request.phase = "named"
        /\ request.secret = requests[id].secret
    BY <1>1, <2>1 DEF RequestRows
  <2>3. requests' = [requests EXCEPT ![id] = request]
        /\ UNCHANGED <<rotationVars, now, isActive>>
    BY <1>2 DEF FindApiClient
  <2>4. apiClient # Unset /\ request.secret \in 1..signedWith
    BY <1>1, <2>2 DEF RotationInvariant, SecretsAreCounted
  <2> HIDE DEF request
  <2> QED
    BY <2>2, <2>3, <2>4, RequestStands
<1>3. CASE ~(NamesClient(requests[id]) /\ IsKnownClientKey(requests[id]))
  <2>1. Answer(id, "Unauthenticated")
    BY <1>3 DEF FindApiClient
  <2>2. ~IsSignedInTime(requests[id])
    BY <1>3 DEF NamesClient, IsKnownClientKey, IsSignedInTime
  <2> QED
    BY <1>1, <2>1, <2>2, AnswerStep DEF Refusals
<1> QED
  BY <1>2, <1>3

\* The second query finds the secret of a client that keeps to the rules.
LEMMA AcceptedWhileSerial ==
  ASSUME RotationInvariant, NEW id \in Requests, requests[id].phase = "named",
         encryptionKey # Unset, IsSignedInTime(requests[id]), ~hasOverlapped, ~hasLostSecret,
         requests[id].secret = signedWith,
         signedWith # 1 \/ encryptionKey = RegistrationKey
  PROVE  signedWith \in AcceptedSecrets
<1> USE DEF RotationInvariant
<1>1. /\ apiClient # Unset /\ apiClient \in ApiClientRows
      /\ signedWith \in Secrets \cup {Unset} /\ signedWith \in 1..signedWith
  BY RowsAreNotUnset
     DEF SecretsAreCounted, AuthenticationTypeOK, RotationTypeOK
<1>2. signedWith # Unset
  <2>1. signedWith \in 1..secretCount
    BY <1>1 DEF SecretsAreCounted
  <2>2. secretCount \in Secrets \cup {0}
    BY DEF AuthenticationTypeOK, RotationTypeOK
  <2>3. signedWith \in Secrets
    BY <2>1, <2>2, RotationAssumption DEF Secrets
  <2> QED
    BY <2>3, RowsAreNotUnset
<1>3. CASE signedWith = offered
  <2>1. apiClient.secretCiphertext.secret = signedWith
    BY <1>1, <1>3 DEF RowHoldsTheClientsSecret
  <2>2. apiClient.secretCiphertext.key = encryptionKey
    BY <1>1, <2>1 DEF EnvelopesAreSealed, IsSealed
  <2>3. apiClient.secretCiphertext # Unset
    BY <1>1, RowsAreNotUnset DEF ApiClientRows
  <2> QED
    BY <1>2, <2>1, <2>2, <2>3 DEF AcceptedSecrets, DecryptedSecret
<1>4. CASE signedWith # offered
  <2>1. /\ apiClient.previousSecretCiphertext # Unset
        /\ apiClient.previousSecretCiphertext.secret = signedWith
    BY <1>1, <1>4 DEF RowHoldsTheClientsSecret
  <2>2. apiClient.previousSecretCiphertext.key = encryptionKey
    BY <1>1, <2>1 DEF EnvelopesAreSealed, IsSealed
  <2> QED
    BY <1>2, <2>1, <2>2 DEF AcceptedSecrets, DecryptedSecret
<1> QED
  BY <1>3, <1>4

\* A request is refused only for a reason that was true of the row it was read with.
LEMMA JudgeStep ==
  ASSUME RotationInvariant, NEW id \in Requests, JudgeRequest(id)
  PROVE  RotationInvariant'
<1>1. requests[id].phase = "named" /\ requests[id] \in RequestRows
  BY DEF JudgeRequest, RotationInvariant, AuthenticationTypeOK
<1>2. CASE ~IsFreshRequest(requests[id]) /\ Answer(id, "Unauthenticated")
  <2>1. ~IsSignedInTime(requests[id])
    <3>1. requests[id].requestedAt - requests[id].timestampSeconds \in Int
      BY <1>1, AuthenticationAssumption DEF RequestRows, Seconds
    <3> QED
      BY <1>2, <3>1, AuthenticationAssumption DEF IsFreshRequest, IsSignedInTime
  <2> QED
    BY <1>1, <1>2, <2>1, AnswerStep DEF Refusals
<1>3. CASE Answer(id, "Unknown")
  BY <1>1, <1>3, AnswerStep DEF Refusals
<1>4. CASE /\ encryptionKey # Unset
           /\ IsSignedRequest(requests[id])
           /\ Answer(id, Filtered(requests[id]))
  <2>1. Filtered(requests[id]) \in {"served", "Unauthorized"}
    BY DEF Filtered
  <2> QED
    BY <1>1, <1>4, <2>1, AnswerStep DEF Refusals
<1>5. CASE /\ encryptionKey # Unset
           /\ ~IsSignedRequest(requests[id])
           /\ Answer(id, "Unauthenticated")
  <2>1. ASSUME IsSignedInTime(requests[id]), ~hasOverlapped, ~hasLostSecret,
               ~(requests[id].secret = 1 /\ encryptionKey # RegistrationKey)
        PROVE  requests[id].secret < signedWith
    <3>1. requests[id].secret \notin AcceptedSecrets
      BY <1>5, <2>1
         DEF IsSignedRequest, HasSignatureMaterial, IsWellFormedSignature, IsSignedInTime
    <3>2. requests[id].secret # signedWith
      BY <1>1, <1>5, <2>1, <3>1, AcceptedWhileSerial
    <3>3. requests[id].secret \in 1..signedWith /\ signedWith \in Nat
      BY <1>1, RowsAreNotUnset DEF RotationInvariant, SecretsAreCounted
    <3> QED
      BY <3>2, <3>3
  <2> QED
    BY <1>1, <1>5, <2>1, AnswerStep DEF Refusals
<1> QED
  BY <1>2, <1>3, <1>4, <1>5 DEF JudgeRequest

\* A query that throws ends a request as unknown, and such an answer needs no cause.
LEMMA FailAuthenticationStep ==
  ASSUME RotationInvariant, NEW id \in Requests, FailAuthentication(id)
  PROVE  RotationInvariant'
  BY AnswerStep DEF FailAuthentication, Refusals

\* The invariant holds in every state of the rotations and the requests.
THEOREM RotationInvariantHolds == AuthenticationSpec => []RotationInvariant
<1>1. AuthenticationInit => RotationInvariant
  <2> SUFFICES ASSUME AuthenticationInit PROVE RotationInvariant
    OBVIOUS
  <2>1. UnsentRequest \in RequestRows /\ UnsentRequest.phase = "unsent"
    BY AuthenticationAssumption DEF UnsentRequest, RequestRows, RequestForms, Seconds
  <2>2. AuthenticationTypeOK
    <3>1. RotationTypeOK
      BY DEF AuthenticationInit, RotationInit, RotationTypeOK, NoCommand
    <3>2. now \in Seconds /\ isActive \in BOOLEAN
      BY AuthenticationAssumption DEF AuthenticationInit, Seconds
    <3>3. requests \in [Requests -> RequestRows]
      BY <2>1 DEF AuthenticationInit
    <3> QED
      BY <3>1, <3>2, <3>3 DEF AuthenticationTypeOK
  <2>3. SecretsAreCounted /\ EnvelopesAreSealed /\ RowHoldsTheClientsSecret
        /\ RefusalsHaveTheirCause
    BY <2>1
       DEF AuthenticationInit, RotationInit, SecretsAreCounted, EnvelopesAreSealed,
           RowHoldsTheClientsSecret, RefusalsHaveTheirCause
  <2> QED
    BY <2>2, <2>3 DEF RotationInvariant
<1>2. RotationInvariant /\ [AuthenticationNext]_authenticationVars => RotationInvariant'
  <2> SUFFICES ASSUME RotationInvariant, [AuthenticationNext]_authenticationVars
               PROVE  RotationInvariant'
    OBVIOUS
  <2>1. CASE OperateRotation
    BY <2>1, RegisterStep, ReadStep, SaveRotatedStep, SaveRetirementStep, FailCommandStep,
       LoseSecretStep, RefuseRotationStep, AdoptSecretStep
       DEF OperateRotation, RotationNext, BeginRotation, BeginRetirement
  <2>2. CASE \E id \in Requests :
                SendRequest(id) \/ FindApiClient(id) \/ JudgeRequest(id) \/ FailAuthentication(id)
    BY <2>2, SendStep, FindApiClientStep, JudgeStep, FailAuthenticationStep
  <2>3. CASE SwitchApiClient \/ PassSecond \/ UNCHANGED authenticationVars
    <3>1. /\ UNCHANGED <<rotationVars, requests>>
          /\ now' \in Seconds /\ isActive' \in BOOLEAN
      <4>1. CASE SwitchApiClient
        BY <4>1 DEF SwitchApiClient, RotationInvariant, AuthenticationTypeOK
      <4>2. CASE PassSecond
        BY <4>2, AuthenticationAssumption
           DEF PassSecond, RotationInvariant, AuthenticationTypeOK, Seconds
      <4>3. CASE UNCHANGED authenticationVars
        BY <4>3 DEF authenticationVars, RotationInvariant, AuthenticationTypeOK
      <4> QED
        BY <2>3, <4>1, <4>2, <4>3
    <3> QED
      BY <3>1
         DEF RotationInvariant, AuthenticationTypeOK, RotationTypeOK, SecretsAreCounted,
             EnvelopesAreSealed, IsSealed, RowHoldsTheClientsSecret, RefusalsHaveTheirCause,
             IsSignedInTime, rotationVars, histories
  <2> HIDE DEF RotationInvariant
  <2> QED
    BY <2>1, <2>2, <2>3 DEF AuthenticationNext
<1> QED
  BY <1>1, <1>2, PTL DEF AuthenticationSpec

\* The rows, the commands and the requests are what the code keeps.
THEOREM AuthenticationTypeCorrect == AuthenticationSpec => []AuthenticationTypeOK
  BY RotationInvariantHolds, PTL DEF RotationInvariant

\* A client that keeps to the rules is answered 401 by nothing but two commands under
\* way together or a secret that was lost (ApiClientSecretRotator,
\* ApiClientSignatureVerifier), for any number of rotations, operators and requests.
THEOREM RefusalsAreCaused == AuthenticationSpec => []RefusalNeedsACause
<1>1. RotationInvariant => RefusalNeedsACause
  <2> SUFFICES ASSUME RotationInvariant,
                      NEW id \in Requests,
                      requests[id].phase = "Unauthenticated",
                      IsSignedInTime(requests[id]),
                      requests[id].secret = signedWith,
                      requests[id].secret # 1 \/ encryptionKey = RegistrationKey,
                      ~hasOverlapped, ~hasLostSecret
               PROVE  FALSE
    BY DEF RefusalNeedsACause, IsSignedInTime
  <2>1. signedWith < signedWith /\ signedWith \in Nat
    BY RowsAreNotUnset DEF RotationInvariant, RefusalsHaveTheirCause, SecretsAreCounted
  <2> QED
    BY <2>1
<1> QED
  BY <1>1, RotationInvariantHolds, PTL
--------------------------------------------------------------------------------
(* The queue connections                                                    *)

Shutdowns ==
    [phase : {"unasked", "tearingDown", "exited"}, closing : SUBSET BuildIds,
     owed : SUBSET BuildIds, exitCode : {0, 1, Absent}]

\* A class has one live build, which the pool knows and the provider records.
PoolKnowsEveryBuild ==
    /\ \A build \in BuildIds :
        builds[build].phase \notin {"unbuilt", "failed"} =>
            /\ builds[build].ctor \in JobDispatcherCtors
            /\ pool[builds[build].ctor] = build
    /\ \A ctor \in JobDispatcherCtors : pool[ctor] # Absent =>
        /\ ctor \in recorded
        /\ builds[pool[ctor]].phase \notin {"unbuilt", "failed"}
        /\ builds[pool[ctor]].ctor = ctor

\* Who waits waits for a build in flight.
WaitersAreAnswered ==
    \A ask \in Asks : asks[ask].phase = "waiting" =>
        /\ asks[ask].build \in BuildIds
        /\ builds[asks[ask].build].phase = "building"

HandedOver ==
    \A ask \in Asks : asks[ask].phase = "handed" =>
        /\ asks[ask].build \in BuildIds
        /\ builds[asks[ask].build].phase \in {"open", "closed", "unclosed"}

Answered == {"failed", "closed", "unclosed"}

\* What the process owes at its stop is being closed or has answered.
TeardownOwesNothingElse ==
    /\ shutdown.phase = "tearingDown" => \A build \in shutdown.owed :
        build \in shutdown.closing \/ builds[build].phase \in Answered
    /\ shutdown.exitCode # Absent => shutdown.phase = "exited"
    /\ CleanExitLeavesNoConnection

DispatcherTyped ==
    /\ pool \in [JobDispatcherCtors -> BuildIds \cup {Absent}]
    /\ recorded \subseteq JobDispatcherCtors
    /\ builds \in [BuildIds ->
            [phase : BuildPhases, ctor : JobDispatcherCtors \cup {Absent}]]
    /\ asks \in [Asks -> [phase : AskPhases, build : BuildIds \cup {Absent}]]
    /\ shutdown \in Shutdowns

DispatcherInvariant ==
    /\ DispatcherTyped
    /\ PoolKnowsEveryBuild
    /\ WaitersAreAnswered
    /\ HandedOver
    /\ TeardownOwesNothingElse

\* There is a first build among those that are left.
LEMMA NextBuildIsUnbuilt ==
  ASSUME Unbuilt # {}
  PROVE  NextBuild \in Unbuilt
<1> DEFINE UpTo(build) == 1..build
           Reaches == {UpTo(build) : build \in Unbuilt}
<1>1. Unbuilt \subseteq Nat
  BY DispatcherAssumption DEF Unbuilt, BuildIds
<1>2. Reaches \subseteq FiniteSubsetsOf(Nat) /\ Reaches # {}
  <2>1. \A build \in Unbuilt : UpTo(build) \in FiniteSubsetsOf(Nat)
    BY <1>1, FS_Interval DEF FiniteSubsetsOf
  <2> QED
    BY <2>1
<1>3. PICK reach \in Reaches :
          \A other \in Reaches : <<other, reach>> \notin StrictSubsetOrdering(Nat)
  <2> HIDE DEF Reaches
  <2> QED
    BY <1>2, FS_StrictSubsetOrderingWellFounded, WFMin
<1>4. PICK build \in Unbuilt : reach = UpTo(build)
  BY <1>3
<1>5. ASSUME NEW other \in Unbuilt, ~(build <= other)
      PROVE  FALSE
  <2>1. UpTo(other) \subseteq UpTo(build) /\ UpTo(other) # UpTo(build)
    <3>1. build \in UpTo(build) /\ build \notin UpTo(other)
      BY <1>1, <1>5, DispatcherAssumption DEF Unbuilt, BuildIds
    <3> QED
      BY <1>1, <1>5, <3>1
  <2>2. <<UpTo(other), reach>> \in StrictSubsetOrdering(Nat)
    BY <1>2, <1>4, <2>1 DEF StrictSubsetOrdering, FiniteSubsetsOf
  <2> QED
    BY <1>3, <2>2
<1> QED
  BY <1>5 DEF NextBuild

\* No build of a dispatcher is mistaken for the marker of none.
LEMMA BuildsAreNumbers ==
  Absent \notin BuildIds /\ Absent # 0 /\ Absent # 1 /\ Absent \notin JobDispatcherCtors
  BY DispatcherAssumption DEF BuildIds

\* A step that leaves the pool and the builds as they are.
LEMMA AskStands ==
  ASSUME DispatcherInvariant, UNCHANGED <<pool, recorded, builds, shutdown>>,
         NEW ask \in Asks,
         NEW answer \in [phase : AskPhases, build : BuildIds \cup {Absent}],
         asks' = [asks EXCEPT ![ask] = answer],
         answer.phase = "waiting" =>
            answer.build \in BuildIds /\ builds[answer.build].phase = "building",
         answer.phase = "handed" =>
            /\ answer.build \in BuildIds
            /\ builds[answer.build].phase \in {"open", "closed", "unclosed"}
  PROVE  DispatcherInvariant'
<1> USE DEF DispatcherInvariant
<1>1. /\ asks' \in [Asks -> [phase : AskPhases, build : BuildIds \cup {Absent}]]
      /\ asks'[ask] = answer
      /\ \A other \in Asks : other # ask => asks'[other] = asks[other]
  BY DEF DispatcherTyped
<1>2. DispatcherTyped'
  BY <1>1 DEF DispatcherTyped
<1>3. PoolKnowsEveryBuild' /\ TeardownOwesNothingElse'
  BY DEF PoolKnowsEveryBuild, TeardownOwesNothingElse, CleanExitLeavesNoConnection
<1>4. WaitersAreAnswered' /\ HandedOver'
  BY <1>1 DEF WaitersAreAnswered, HandedOver
<1> QED
  BY <1>2, <1>3, <1>4

\* Asking for a dispatcher joins the build of its constructor or starts exactly one.
LEMMA EnsureStep ==
  ASSUME DispatcherInvariant, NEW ask \in Asks, NEW ctor \in JobDispatcherCtors,
         EnsureJobDispatcher(ask, ctor)
  PROVE  DispatcherInvariant'
<1> USE DEF DispatcherInvariant
<1>1. CASE pool[ctor] # Absent
  <2> DEFINE answer ==
        [phase |-> IF builds[pool[ctor]].phase = "building" THEN "waiting" ELSE "handed",
         build |-> pool[ctor]]
  <2>1. /\ asks' = [asks EXCEPT ![ask] = answer]
        /\ UNCHANGED <<pool, recorded, builds, shutdown>>
    BY <1>1 DEF EnsureJobDispatcher
  <2>2. /\ pool[ctor] \in BuildIds
        /\ builds[pool[ctor]].phase \in {"building", "open", "closed", "unclosed"}
    BY <1>1 DEF DispatcherTyped, PoolKnowsEveryBuild, BuildPhases
  <2>3. answer \in [phase : AskPhases, build : BuildIds \cup {Absent}]
    BY <2>2 DEF AskPhases
  <2>4. /\ answer.build = pool[ctor]
        /\ answer.phase = "waiting" => builds[pool[ctor]].phase = "building"
        /\ answer.phase = "handed" => builds[pool[ctor]].phase # "building"
    OBVIOUS
  <2> HIDE DEF answer, DispatcherInvariant
  <2> QED
    BY <2>1, <2>2, <2>3, <2>4, AskStands
<1>2. CASE pool[ctor] = Absent
  <2> DEFINE build == NextBuild
  <2>1. /\ build \in BuildIds /\ builds[build].phase = "unbuilt"
        /\ builds' = [builds EXCEPT ![build] = [phase |-> "building", ctor |-> ctor]]
        /\ pool' = [pool EXCEPT ![ctor] = build]
        /\ recorded' = recorded \cup {ctor}
        /\ asks' = [asks EXCEPT ![ask] = [phase |-> "waiting", build |-> build]]
        /\ shutdown' = shutdown
    BY <1>2, NextBuildIsUnbuilt DEF EnsureJobDispatcher, Unbuilt
  <2> HIDE DEF build
  <2>2. /\ builds' \in [BuildIds ->
                [phase : BuildPhases, ctor : JobDispatcherCtors \cup {Absent}]]
        /\ builds'[build].phase = "building" /\ builds'[build].ctor = ctor
        /\ \A other \in BuildIds : other # build => builds'[other] = builds[other]
    BY <2>1 DEF DispatcherTyped, BuildPhases
  <2>3. /\ pool' \in [JobDispatcherCtors -> BuildIds \cup {Absent}]
        /\ pool'[ctor] = build
        /\ \A other \in JobDispatcherCtors : other # ctor => pool'[other] = pool[other]
    BY <2>1 DEF DispatcherTyped
  <2>4. /\ asks' \in [Asks -> [phase : AskPhases, build : BuildIds \cup {Absent}]]
        /\ asks'[ask].phase = "waiting" /\ asks'[ask].build = build
        /\ \A other \in Asks : other # ask => asks'[other] = asks[other]
    BY <2>1 DEF DispatcherTyped, AskPhases
  <2>5. DispatcherTyped'
    BY <2>1, <2>2, <2>3, <2>4 DEF DispatcherTyped
  <2>6. PoolKnowsEveryBuild'
    <3>1. \A other \in BuildIds : builds[other].phase \notin {"unbuilt", "failed"} =>
              builds[other].ctor # ctor
      BY <1>2, BuildsAreNumbers DEF PoolKnowsEveryBuild
    <3> QED
      BY <2>1, <2>2, <2>3, <3>1 DEF PoolKnowsEveryBuild, DispatcherTyped
  <2>7. WaitersAreAnswered' /\ HandedOver'
    BY <2>1, <2>2, <2>4 DEF WaitersAreAnswered, HandedOver
  <2>8. TeardownOwesNothingElse'
    BY <2>1, <2>2
       DEF TeardownOwesNothingElse, CleanExitLeavesNoConnection, Answered, DispatcherTyped,
           Shutdowns
  <2> QED
    BY <2>5, <2>6, <2>7, <2>8
<1> QED
  BY <1>1, <1>2

\* A caller that gives up at its deadline leaves the build under way in the pool.
LEMMA RefuseStep ==
  ASSUME DispatcherInvariant, NEW ask \in Asks, RefuseAtDeadline(ask)
  PROVE  DispatcherInvariant'
<1> DEFINE answer == [asks[ask] EXCEPT !.phase = "refused"]
<1>1. asks' = [asks EXCEPT ![ask] = answer] /\ UNCHANGED <<pool, recorded, builds, shutdown>>
  BY DEF RefuseAtDeadline
<1>2. answer \in [phase : AskPhases, build : BuildIds \cup {Absent}] /\ answer.phase = "refused"
  BY DEF DispatcherInvariant, DispatcherTyped, AskPhases
<1> HIDE DEF answer
<1> QED
  BY <1>1, <1>2, AskStands

\* Who waited for the build at hand is answered, and nobody else.
LEMMA AnswerAsksOfOneBuild ==
  ASSUME DispatcherInvariant, NEW build \in BuildIds, NEW phase \in {"handed", "failed"},
         AnswerAsks(build, phase)
  PROVE  /\ asks' \in [Asks -> [phase : AskPhases, build : BuildIds \cup {Absent}]]
         /\ \A ask \in Asks :
              IF asks[ask].phase = "waiting" /\ asks[ask].build = build
              THEN asks'[ask].phase = phase /\ asks'[ask].build = build
              ELSE asks'[ask] = asks[ask]
<1>1. asks \in [Asks -> [phase : AskPhases, build : BuildIds \cup {Absent}]]
  BY DEF DispatcherInvariant, DispatcherTyped
<1>2. ASSUME NEW ask \in Asks
      PROVE  /\ [asks[ask] EXCEPT !.phase = phase]
                    \in [phase : AskPhases, build : BuildIds \cup {Absent}]
             /\ [asks[ask] EXCEPT !.phase = phase].phase = phase
             /\ [asks[ask] EXCEPT !.phase = phase].build = asks[ask].build
  BY <1>1 DEF AskPhases
<1> QED
  BY <1>1, <1>2 DEF AnswerAsks

\* A build that moves on keeps its class and its place.
LEMMA BuildMoves ==
  ASSUME DispatcherInvariant, NEW build \in BuildIds, NEW phase \in BuildPhases,
         builds' = [builds EXCEPT ![build].phase = phase]
  PROVE  /\ builds' \in [BuildIds ->
                [phase : BuildPhases, ctor : JobDispatcherCtors \cup {Absent}]]
         /\ builds'[build].phase = phase /\ builds'[build].ctor = builds[build].ctor
         /\ \A other \in BuildIds : other # build => builds'[other] = builds[other]
  BY DEF DispatcherInvariant, DispatcherTyped

\* A build that ends well is handed to whoever waits for it, and stays in the pool.
LEMMA FinishStep ==
  ASSUME DispatcherInvariant, NEW build \in BuildIds, FinishBuild(build)
  PROVE  DispatcherInvariant'
<1>1. /\ builds[build].phase = "building"
      /\ builds' = [builds EXCEPT ![build].phase = "open"]
      /\ AnswerAsks(build, "handed")
      /\ UNCHANGED <<pool, recorded, shutdown>>
  BY DEF FinishBuild
<1>2. /\ builds' \in [BuildIds ->
            [phase : BuildPhases, ctor : JobDispatcherCtors \cup {Absent}]]
      /\ builds'[build].phase = "open" /\ builds'[build].ctor = builds[build].ctor
      /\ \A other \in BuildIds : other # build => builds'[other] = builds[other]
  BY <1>1, BuildMoves DEF BuildPhases
<1> USE DEF DispatcherInvariant
<1>3. DispatcherTyped'
  BY <1>1, <1>2, AnswerAsksOfOneBuild DEF DispatcherTyped
<1>4. PoolKnowsEveryBuild'
  BY <1>1, <1>2 DEF PoolKnowsEveryBuild, DispatcherTyped
<1>5. WaitersAreAnswered' /\ HandedOver'
  BY <1>1, <1>2, AnswerAsksOfOneBuild DEF WaitersAreAnswered, HandedOver
<1>6. TeardownOwesNothingElse'
  BY <1>1, <1>2
     DEF TeardownOwesNothingElse, CleanExitLeavesNoConnection, Answered, DispatcherTyped,
         Shutdowns
<1> QED
  BY <1>3, <1>4, <1>5, <1>6

\* The failure takes the class out of the pool, and is an answer to a teardown.
LEMMA FailBuildStep ==
  ASSUME DispatcherInvariant, NEW build \in BuildIds, FailBuild(build)
  PROVE  DispatcherInvariant'
<1>1. /\ builds[build].phase = "building"
      /\ builds' = [builds EXCEPT ![build].phase = "failed"]
      /\ pool' = [pool EXCEPT ![builds[build].ctor] = Absent]
      /\ AnswerAsks(build, "failed")
      /\ shutdown' = [shutdown EXCEPT !.closing = @ \ {build}]
      /\ UNCHANGED recorded
  BY DEF FailBuild
<1>2. /\ builds' \in [BuildIds ->
            [phase : BuildPhases, ctor : JobDispatcherCtors \cup {Absent}]]
      /\ builds'[build].phase = "failed"
      /\ \A other \in BuildIds : other # build => builds'[other] = builds[other]
  BY <1>1, BuildMoves DEF BuildPhases
<1> USE DEF DispatcherInvariant
<1>3. builds[build].ctor \in JobDispatcherCtors /\ pool[builds[build].ctor] = build
  BY <1>1 DEF PoolKnowsEveryBuild
<1>4. /\ pool' \in [JobDispatcherCtors -> BuildIds \cup {Absent}]
      /\ pool'[builds[build].ctor] = Absent
      /\ \A ctor \in JobDispatcherCtors :
            ctor # builds[build].ctor => pool'[ctor] = pool[ctor]
  BY <1>1, <1>3 DEF DispatcherTyped
<1>5. /\ shutdown' \in Shutdowns
      /\ shutdown'.phase = shutdown.phase /\ shutdown'.owed = shutdown.owed
      /\ shutdown'.exitCode = shutdown.exitCode
      /\ shutdown'.closing = shutdown.closing \ {build}
  BY <1>1 DEF DispatcherTyped, Shutdowns
<1>6. DispatcherTyped'
  BY <1>1, <1>2, <1>4, <1>5, AnswerAsksOfOneBuild DEF DispatcherTyped
<1>7. PoolKnowsEveryBuild'
  BY <1>1, <1>2, <1>3, <1>4 DEF PoolKnowsEveryBuild, DispatcherTyped
<1>8. WaitersAreAnswered' /\ HandedOver'
  BY <1>1, <1>2, AnswerAsksOfOneBuild DEF WaitersAreAnswered, HandedOver
<1>9. TeardownOwesNothingElse'
  BY <1>1, <1>2, <1>5
     DEF TeardownOwesNothingElse, CleanExitLeavesNoConnection, Answered, DispatcherTyped,
         Shutdowns
<1> QED
  BY <1>6, <1>7, <1>8, <1>9

\* A teardown settles one of the connections the exit waits for.
LEMMA TeardownStep ==
  ASSUME DispatcherInvariant, NEW build \in BuildIds, TeardownJobDispatcher(build)
  PROVE  DispatcherInvariant'
<1>1. PICK phase \in {"closed", "unclosed"} :
        builds' = [builds EXCEPT ![build].phase = phase]
  BY DEF TeardownJobDispatcher
<1>2. /\ builds[build].phase = "open"
      /\ shutdown.phase = "tearingDown"
      /\ shutdown' = [shutdown EXCEPT !.closing = @ \ {build}]
      /\ UNCHANGED <<pool, recorded, asks>>
  BY DEF TeardownJobDispatcher
<1>3. /\ builds' \in [BuildIds ->
            [phase : BuildPhases, ctor : JobDispatcherCtors \cup {Absent}]]
      /\ builds'[build].phase = phase /\ builds'[build].ctor = builds[build].ctor
      /\ \A other \in BuildIds : other # build => builds'[other] = builds[other]
  BY <1>1, BuildMoves DEF BuildPhases
<1> USE DEF DispatcherInvariant
<1>4. /\ shutdown' \in Shutdowns
      /\ shutdown'.phase = shutdown.phase /\ shutdown'.owed = shutdown.owed
      /\ shutdown'.exitCode = shutdown.exitCode
      /\ shutdown'.closing = shutdown.closing \ {build}
  BY <1>2 DEF DispatcherTyped, Shutdowns
<1>5. DispatcherTyped'
  BY <1>2, <1>3, <1>4 DEF DispatcherTyped
<1>6. PoolKnowsEveryBuild'
  BY <1>2, <1>3 DEF PoolKnowsEveryBuild, DispatcherTyped
<1>7. WaitersAreAnswered' /\ HandedOver'
  BY <1>2, <1>3 DEF WaitersAreAnswered, HandedOver
<1>8. TeardownOwesNothingElse'
  BY <1>2, <1>3, <1>4
     DEF TeardownOwesNothingElse, CleanExitLeavesNoConnection, Answered, DispatcherTyped,
         Shutdowns
<1> QED
  BY <1>5, <1>6, <1>7, <1>8

\* The first signal begins the exit and a second one changes nothing of it.
LEMMA SignalStep ==
  ASSUME DispatcherInvariant, ReceiveSignal
  PROVE  DispatcherInvariant'
<1> USE DEF DispatcherInvariant
<1>1. /\ shutdown.phase = "unasked"
      /\ shutdown' =
        [phase |-> "tearingDown",
         closing |-> {pool[ctor] : ctor \in recorded} \ {Absent},
         owed |-> {build \in BuildIds : builds[build].phase \in {"building", "open"}},
         exitCode |-> Absent]
      /\ UNCHANGED <<pool, recorded, builds, asks>>
  BY DEF ReceiveSignal
<1>2. shutdown' \in Shutdowns
  BY <1>1 DEF DispatcherTyped, Shutdowns
<1>3. DispatcherTyped' /\ PoolKnowsEveryBuild' /\ WaitersAreAnswered' /\ HandedOver'
  BY <1>1, <1>2 DEF DispatcherTyped, PoolKnowsEveryBuild, WaitersAreAnswered, HandedOver
<1>4. ASSUME NEW build \in BuildIds, builds[build].phase \in {"building", "open"}
      PROVE  build \in {pool[ctor] : ctor \in recorded} \ {Absent}
  <2>1. builds[build].ctor \in JobDispatcherCtors /\ pool[builds[build].ctor] = build
    BY <1>4 DEF PoolKnowsEveryBuild
  <2>2. builds[build].ctor \in recorded
    BY <2>1, BuildsAreNumbers DEF PoolKnowsEveryBuild
  <2> QED
    BY <2>1, <2>2, BuildsAreNumbers
<1>5. TeardownOwesNothingElse'
  BY <1>1, <1>4, BuildsAreNumbers DEF TeardownOwesNothingElse, CleanExitLeavesNoConnection
<1> QED
  BY <1>3, <1>5

\* The process ends once nothing is open, or at its deadline whatever is.
LEMMA ExitStep ==
  ASSUME DispatcherInvariant, ExitCleanly \/ AbandonTeardownAtDeadline
  PROVE  DispatcherInvariant'
<1> USE DEF DispatcherInvariant
<1>1. /\ shutdown' \in Shutdowns /\ shutdown'.phase = "exited"
      /\ shutdown'.owed = shutdown.owed
      /\ shutdown'.exitCode = 1 \/ (shutdown'.exitCode = 0 /\ shutdown.closing = {})
      /\ shutdown.phase = "tearingDown"
      /\ UNCHANGED <<pool, recorded, builds, asks>>
  BY DEF ExitCleanly, AbandonTeardownAtDeadline, DispatcherTyped, Shutdowns
<1>2. DispatcherTyped' /\ PoolKnowsEveryBuild' /\ WaitersAreAnswered' /\ HandedOver'
  BY <1>1 DEF DispatcherTyped, PoolKnowsEveryBuild, WaitersAreAnswered, HandedOver
<1>3. TeardownOwesNothingElse'
  BY <1>1 DEF TeardownOwesNothingElse, CleanExitLeavesNoConnection, Answered
<1> QED
  BY <1>2, <1>3

\* The invariant holds in every state of the pool of dispatchers.
THEOREM DispatcherInvariantHolds == DispatcherSpec => []DispatcherInvariant
<1>1. DispatcherInit => DispatcherInvariant
  BY BuildsAreNumbers
     DEF DispatcherInit, DispatcherInvariant, DispatcherTyped, PoolKnowsEveryBuild,
         WaitersAreAnswered, HandedOver, TeardownOwesNothingElse,
         CleanExitLeavesNoConnection, Shutdowns, NoBuild, BuildPhases, AskPhases
<1>2. DispatcherInvariant /\ [DispatcherNext]_dispatcherVars => DispatcherInvariant'
  <2> SUFFICES ASSUME DispatcherInvariant, [DispatcherNext]_dispatcherVars
               PROVE  DispatcherInvariant'
    OBVIOUS
  <2>1. CASE UNCHANGED dispatcherVars
    BY <2>1
       DEF dispatcherVars, DispatcherInvariant, DispatcherTyped, PoolKnowsEveryBuild,
           WaitersAreAnswered, HandedOver, TeardownOwesNothingElse,
           CleanExitLeavesNoConnection
  <2>2. CASE DispatcherNext
    <3> HIDE DEF DispatcherInvariant
    <3> QED
      BY <2>2, EnsureStep, RefuseStep, FinishStep, FailBuildStep, TeardownStep, SignalStep,
         ExitStep
         DEF DispatcherNext
  <2> QED
    BY <2>1, <2>2
<1> QED
  BY <1>1, <1>2, PTL DEF DispatcherSpec

\* The pool and the asks are what the provider keeps, and no ask is handed a promise
\* that holds no dispatcher.
THEOREM DispatcherTypeCorrect == DispatcherSpec => []DispatcherTypeOK
<1>1. DispatcherInvariant => DispatcherTypeOK
  BY DEF DispatcherInvariant, DispatcherTyped, DispatcherTypeOK, HandedOver, Shutdowns
<1> QED
  BY <1>1, DispatcherInvariantHolds, PTL

\* A process that exits with 0 leaves no connection it had when it was asked to stop,
\* for any number of classes, builds and asks
\* (JobDispatcherProvider.shutdownJobDispatchers).
THEOREM CleanExitIsClean == DispatcherSpec => []CleanExitLeavesNoConnection
  BY DispatcherInvariantHolds, PTL DEF DispatcherInvariant, TeardownOwesNothingElse
================================================================================
