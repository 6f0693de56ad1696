------------------------- MODULE AuthSessionsProofs -------------------------
(***************************************************************************)
(* AuthSessions for any number of sign-ins, refreshes and changes: what a  *)
(* revoked session, a spent token and a sweep of the sessions put an end   *)
(* to, whatever overlaps with them.                                        *)
(***************************************************************************)
EXTENDS AuthSessions, TLAPS

-----------------------------------------------------------------------------
(* The inductive invariant.                                                  *)

\* A sign-in has no session and no token until it creates them.
LoginsInOrder ==
  \A l \in Logins :
    /\ root[l] = l
    /\ upc[l] \in {"idle", "failed", "reset", "session"} => session[l] = "none"
    /\ upc[l] \in {"idle", "failed", "reset", "session", "token"} => token[l] = "none"

\* A refresh deals in a token, of a session, that were answered before it began,
\* and has no token of its own until it creates one.
RefreshesInOrder ==
  \A r \in Refreshes :
    /\ upc[r] # "idle" => /\ uses[r] \in Issuers /\ upc[uses[r]] = "answered"
                          /\ root[r] \in Logins /\ upc[root[r]] = "answered"
    /\ upc[r] \in {"idle", "checked", "family", "kill", "owner", "create"} => token[r] = "none"

\* Revoked sessions stay revoked: the ones a refresh has met when it began are,
\* and it does not get past the check of its own if that is one of them.
RevokedStays ==
  \A r \in Refreshes :
    /\ \A l \in Logins \cap prior[r] : session[l] = "revoked"
    /\ upc[r] \in {"owner", "create", "spend", "record", "answered"} => root[r] \notin prior[r]

\* A refresh that answers has spent its token, so one that begins later with the
\* same token takes the path of reuse.
SpentStays ==
  \A r \in Refreshes :
    /\ upc[r] \in {"record", "answered"} => token[uses[r]] = "revoked"
    /\ \A s \in Refreshes \cap prior[r] :
         /\ upc[s] = "answered"
         /\ upc[r] \in {"checked", "owner", "create", "spend", "record", "answered"}
              => uses[s] # uses[r]

\* Whether change e has swept the sessions.
HasSwept(e) == /\ kind[e] \in Sweeping
               /\ \/ upc[e] \in {"tokens", "purge", "record", "answered"}
                  \/ upc[e] = "account" /\ kind[e] = "deleteAccount"

SweptStays ==
  \A e \in Changes :
    /\ upc[e] = "account" => kind[e] \in Kinds \ {"logout", "force"}
    /\ upc[e] = "idle" => kind[e] = "none"
    /\ upc[e] \in {"consume", "mark"} => kind[e] = "verify"
    /\ upc[e] = "purge" => kind[e] = "deleteAccount"
    /\ prior[e] \subseteq Logins
    /\ \A l \in prior[e] : session[l] # "none" /\ (HasSwept(e) => session[l] = "revoked")

AuthInv == /\ AuthTypeOK
           /\ LoginsInOrder /\ RefreshesInOrder
           /\ RevokedStays /\ SpentStays /\ ReuseEndsSession /\ SweptStays

-----------------------------------------------------------------------------
(* Types.                                                                    *)

LEMMA AuthInitTypeOK == AuthInit => AuthTypeOK
<1> SUFFICES ASSUME AuthInit PROVE AuthTypeOK
  OBVIOUS
<1>1. root \in [Calls -> Logins \cup {Nobody}]
  BY DEF AuthInit
<1>2. /\ standing \in {"PENDING_VERIFICATION", "ACTIVE", "LOCKED", "SUSPENDED", "DELETED"}
      /\ deleted \in BOOLEAN /\ lockout \in BOOLEAN /\ verified \in BOOLEAN
      /\ link \in {"sent", "used", "purged"}
  BY DEF AuthInit
<1> QED
  BY <1>1, <1>2 DEF AuthInit, AuthTypeOK, Stored

\* updateMany revokes what is live and leaves the rest.
LEMMA RevokeInKeeps ==
  ASSUME NEW D, NEW f \in [D -> Stored], NEW S
  PROVE  /\ RevokeIn(f, S) \in [D -> Stored]
         /\ \A x \in D : /\ RevokeIn(f, S)[x] = "none" <=> f[x] = "none"
                         /\ f[x] = "revoked" => RevokeIn(f, S)[x] = "revoked"
                         /\ x \in S /\ f[x] # "none" => RevokeIn(f, S)[x] = "revoked"
BY DEF RevokeIn, Stored

LEMMA AuthTypeStep ==
  ASSUME AuthTypeOK, SweptStays, RefreshesInOrder, [AuthNext]_authVars
  PROVE  AuthTypeOK'
<1> USE DEF AuthTypeOK, Calls, Issuers, AtAuth, AuthGoto, accountVars
<1>1. ASSUME NEW l \in Logins, FindAccount(l) \/ RecordFailedLogin(l) \/ ResetFailedLogin(l)
      PROVE  AuthTypeOK'
  BY <1>1 DEF FindAccount, RecordFailedLogin, ResetFailedLogin
<1>2. ASSUME NEW l \in Logins, CreateSession(l) \/ CreateToken(l)
      PROVE  AuthTypeOK'
  BY <1>2 DEF CreateSession, CreateToken, Stored
<1>3. ASSUME NEW r \in Refreshes, FindToken(r)
      PROVE  AuthTypeOK'
  BY <1>3 DEF FindToken, Answered
<1>4. ASSUME NEW r \in Refreshes, RevokeFamily(r)
      PROVE  AuthTypeOK'
  BY <1>4, RevokeInKeeps DEF RevokeFamily
<1>5. ASSUME NEW r \in Refreshes, KillSession(r) \/ CheckSession(r) \/ CheckOwner(r)
      PROVE  AuthTypeOK'
  BY <1>5 DEF KillSession, CheckSession, CheckOwner, Stored
<1>6. ASSUME NEW r \in Refreshes, CreateNext(r) \/ SpendToken(r)
      PROVE  AuthTypeOK'
  BY <1>6 DEF CreateNext, SpendToken, Stored
<1>7. ASSUME NEW e \in Changes, StartChange(e)
      PROVE  AuthTypeOK'
  BY <1>7 DEF StartChange, Kinds, FirstStep
<1>8. ASSUME NEW e \in Changes, ConsumeLink(e) \/ MarkVerified(e) \/ Purge(e)
      PROVE  AuthTypeOK'
  BY <1>8 DEF ConsumeLink, MarkVerified, Purge
<1>9. ASSUME NEW e \in Changes, UpdateAccount(e)
      PROVE  AuthTypeOK'
  <2>1. StandingAfter(kind[e]) \in
          {"PENDING_VERIFICATION", "ACTIVE", "LOCKED", "SUSPENDED", "DELETED"}
    BY <1>9 DEF UpdateAccount, SweptStays, StandingAfter, Kinds
  <2> QED
    BY <1>9, <2>1 DEF UpdateAccount
<1>10. ASSUME NEW e \in Changes, RevokeSessions(e) \/ RevokeTokens(e)
       PROVE  AuthTypeOK'
  BY <1>10, RevokeInKeeps DEF RevokeSessions, RevokeTokens
<1>11. ASSUME NEW c \in Calls, Answer(c) \/ StopAuth(c)
       PROVE  AuthTypeOK'
  BY <1>11 DEF Answer, StopAuth
<1>12. CASE UNCHANGED authVars
  BY <1>12 DEF authVars
<1> QED
  BY <1>1, <1>2, <1>3, <1>4, <1>5, <1>6, <1>7, <1>8, <1>9, <1>10, <1>11, <1>12 DEF AuthNext,
     AuthArrive, AuthProceed

-----------------------------------------------------------------------------
(* The parts of the invariant.                                               *)

LEMMA LoginsStep ==
  ASSUME AuthTypeOK, LoginsInOrder, RefreshesInOrder, [AuthNext]_authVars
  PROVE  LoginsInOrder'
<1> USE AuthCallsAreDistinct
    DEF AuthTypeOK, Calls, Issuers, AtAuth, AuthGoto, accountVars, LoginsInOrder
<1>1. ASSUME NEW l \in Logins, FindAccount(l) \/ RecordFailedLogin(l) \/ ResetFailedLogin(l)
      PROVE  LoginsInOrder'
  BY <1>1 DEF FindAccount, RecordFailedLogin, ResetFailedLogin
<1>2. ASSUME NEW l \in Logins, CreateSession(l) \/ CreateToken(l)
      PROVE  LoginsInOrder'
  BY <1>2 DEF CreateSession, CreateToken
<1>3. ASSUME NEW r \in Refreshes, FindToken(r)
      PROVE  LoginsInOrder'
  BY <1>3 DEF FindToken, Answered
<1>4. ASSUME NEW r \in Refreshes, RevokeFamily(r)
      PROVE  LoginsInOrder'
  BY <1>4, RevokeInKeeps DEF RevokeFamily
<1>5. ASSUME NEW r \in Refreshes, KillSession(r)
      PROVE  LoginsInOrder'
  BY <1>5 DEF KillSession, RefreshesInOrder
<1>6. ASSUME NEW r \in Refreshes, CheckSession(r) \/ CheckOwner(r)
      PROVE  LoginsInOrder'
  BY <1>6 DEF CheckSession, CheckOwner
<1>7. ASSUME NEW r \in Refreshes, CreateNext(r)
      PROVE  LoginsInOrder'
  BY <1>7 DEF CreateNext
<1>8. ASSUME NEW r \in Refreshes, SpendToken(r)
      PROVE  LoginsInOrder'
  BY <1>8 DEF SpendToken, RefreshesInOrder
<1>9. ASSUME NEW e \in Changes, StartChange(e)
      PROVE  LoginsInOrder'
  BY <1>9 DEF StartChange
<1>10. ASSUME NEW e \in Changes, ConsumeLink(e) \/ MarkVerified(e) \/ Purge(e)
      PROVE  LoginsInOrder'
  BY <1>10 DEF ConsumeLink, MarkVerified, Purge
<1>11. ASSUME NEW e \in Changes, UpdateAccount(e)
      PROVE  LoginsInOrder'
  BY <1>11 DEF UpdateAccount
<1>12. ASSUME NEW e \in Changes, RevokeSessions(e)
      PROVE  LoginsInOrder'
  BY <1>12, RevokeInKeeps DEF RevokeSessions
<1>13. ASSUME NEW e \in Changes, RevokeTokens(e)
      PROVE  LoginsInOrder'
  BY <1>13, RevokeInKeeps DEF RevokeTokens
<1>14. ASSUME NEW c \in Calls, Answer(c) \/ StopAuth(c)
      PROVE  LoginsInOrder'
  BY <1>14 DEF Answer, StopAuth
<1>15. CASE UNCHANGED authVars
  BY <1>15 DEF authVars
<1> QED
  BY <1>1, <1>2, <1>3, <1>4, <1>5, <1>6, <1>7, <1>8, <1>9, <1>10, <1>11, <1>12, <1>13, <1>14,
     <1>15 DEF AuthNext, AuthArrive, AuthProceed

LEMMA RefreshesStep ==
  ASSUME AuthTypeOK, LoginsInOrder, RefreshesInOrder, [AuthNext]_authVars
  PROVE  RefreshesInOrder'
<1> USE AuthCallsAreDistinct
    DEF AuthTypeOK, Calls, Issuers, AtAuth, AuthGoto, accountVars, RefreshesInOrder
<1>1. ASSUME NEW l \in Logins, FindAccount(l) \/ RecordFailedLogin(l) \/ ResetFailedLogin(l)
      PROVE  RefreshesInOrder'
  BY <1>1 DEF FindAccount, RecordFailedLogin, ResetFailedLogin
<1>2. ASSUME NEW l \in Logins, CreateSession(l) \/ CreateToken(l)
      PROVE  RefreshesInOrder'
  BY <1>2 DEF CreateSession, CreateToken
<1>3. ASSUME NEW r \in Refreshes, FindToken(r)
      PROVE  RefreshesInOrder'
  BY <1>3 DEF FindToken, Answered, LoginsInOrder
<1>4. ASSUME NEW r \in Refreshes, RevokeFamily(r)
      PROVE  RefreshesInOrder'
  BY <1>4, RevokeInKeeps DEF RevokeFamily
<1>5. ASSUME NEW r \in Refreshes, KillSession(r)
      PROVE  RefreshesInOrder'
  BY <1>5 DEF KillSession
<1>6. ASSUME NEW r \in Refreshes, CheckSession(r) \/ CheckOwner(r)
      PROVE  RefreshesInOrder'
  BY <1>6 DEF CheckSession, CheckOwner
<1>7. ASSUME NEW r \in Refreshes, CreateNext(r)
      PROVE  RefreshesInOrder'
  BY <1>7 DEF CreateNext
<1>8. ASSUME NEW r \in Refreshes, SpendToken(r)
      PROVE  RefreshesInOrder'
  BY <1>8 DEF SpendToken
<1>9. ASSUME NEW e \in Changes, StartChange(e)
      PROVE  RefreshesInOrder'
  BY <1>9 DEF StartChange
<1>10. ASSUME NEW e \in Changes, ConsumeLink(e) \/ MarkVerified(e) \/ Purge(e)
      PROVE  RefreshesInOrder'
  BY <1>10 DEF ConsumeLink, MarkVerified, Purge
<1>11. ASSUME NEW e \in Changes, UpdateAccount(e)
      PROVE  RefreshesInOrder'
  BY <1>11 DEF UpdateAccount
<1>12. ASSUME NEW e \in Changes, RevokeSessions(e)
      PROVE  RefreshesInOrder'
  BY <1>12, RevokeInKeeps DEF RevokeSessions
<1>13. ASSUME NEW e \in Changes, RevokeTokens(e)
      PROVE  RefreshesInOrder'
  BY <1>13, RevokeInKeeps DEF RevokeTokens
<1>14. ASSUME NEW c \in Calls, Answer(c) \/ StopAuth(c)
      PROVE  RefreshesInOrder'
  BY <1>14 DEF Answer, StopAuth
<1>15. CASE UNCHANGED authVars
  BY <1>15 DEF authVars
<1> QED
  BY <1>1, <1>2, <1>3, <1>4, <1>5, <1>6, <1>7, <1>8, <1>9, <1>10, <1>11, <1>12, <1>13, <1>14,
     <1>15 DEF AuthNext, AuthArrive, AuthProceed

LEMMA RevokedStep ==
  ASSUME AuthTypeOK, LoginsInOrder, RefreshesInOrder, RevokedStays, [AuthNext]_authVars
  PROVE  RevokedStays'
<1> USE AuthCallsAreDistinct
    DEF AuthTypeOK, Calls, Issuers, AtAuth, AuthGoto, accountVars, RevokedStays
<1>1. ASSUME NEW l \in Logins, FindAccount(l) \/ RecordFailedLogin(l) \/ ResetFailedLogin(l)
      PROVE  RevokedStays'
  BY <1>1 DEF FindAccount, RecordFailedLogin, ResetFailedLogin
<1>2. ASSUME NEW l \in Logins, CreateSession(l) \/ CreateToken(l)
      PROVE  RevokedStays'
  BY <1>2 DEF CreateSession, CreateToken, LoginsInOrder
<1>3. ASSUME NEW r \in Refreshes, FindToken(r)
      PROVE  RevokedStays'
  BY <1>3 DEF FindToken, Answered
<1>4. ASSUME NEW r \in Refreshes, RevokeFamily(r)
      PROVE  RevokedStays'
  BY <1>4, RevokeInKeeps DEF RevokeFamily
<1>5. ASSUME NEW r \in Refreshes, KillSession(r)
      PROVE  RevokedStays'
  BY <1>5 DEF KillSession
<1>6. ASSUME NEW r \in Refreshes, CheckSession(r) \/ CheckOwner(r)
      PROVE  RevokedStays'
  BY <1>6 DEF CheckSession, CheckOwner, RefreshesInOrder
<1>7. ASSUME NEW r \in Refreshes, CreateNext(r)
      PROVE  RevokedStays'
  BY <1>7 DEF CreateNext
<1>8. ASSUME NEW r \in Refreshes, SpendToken(r)
      PROVE  RevokedStays'
  BY <1>8 DEF SpendToken
<1>9. ASSUME NEW e \in Changes, StartChange(e)
      PROVE  RevokedStays'
  BY <1>9 DEF StartChange
<1>10. ASSUME NEW e \in Changes, ConsumeLink(e) \/ MarkVerified(e) \/ Purge(e)
      PROVE  RevokedStays'
  BY <1>10 DEF ConsumeLink, MarkVerified, Purge
<1>11. ASSUME NEW e \in Changes, UpdateAccount(e)
      PROVE  RevokedStays'
  BY <1>11 DEF UpdateAccount
<1>12. ASSUME NEW e \in Changes, RevokeSessions(e)
      PROVE  RevokedStays'
  BY <1>12, RevokeInKeeps DEF RevokeSessions
<1>13. ASSUME NEW e \in Changes, RevokeTokens(e)
      PROVE  RevokedStays'
  BY <1>13, RevokeInKeeps DEF RevokeTokens
<1>14. ASSUME NEW c \in Calls, Answer(c) \/ StopAuth(c)
      PROVE  RevokedStays'
  BY <1>14 DEF Answer, StopAuth
<1>15. CASE UNCHANGED authVars
  BY <1>15 DEF authVars
<1> QED
  BY <1>1, <1>2, <1>3, <1>4, <1>5, <1>6, <1>7, <1>8, <1>9, <1>10, <1>11, <1>12, <1>13, <1>14,
     <1>15 DEF AuthNext, AuthArrive, AuthProceed

LEMMA SpentStep ==
  ASSUME AuthTypeOK, LoginsInOrder, RefreshesInOrder, SpentStays, [AuthNext]_authVars
  PROVE  SpentStays'
<1> USE AuthCallsAreDistinct
    DEF AuthTypeOK, Calls, Issuers, AtAuth, AuthGoto, accountVars, SpentStays
<1>1. ASSUME NEW l \in Logins, FindAccount(l) \/ RecordFailedLogin(l) \/ ResetFailedLogin(l)
      PROVE  SpentStays'
  BY <1>1 DEF FindAccount, RecordFailedLogin, ResetFailedLogin
<1>2. ASSUME NEW l \in Logins, CreateSession(l) \/ CreateToken(l)
      PROVE  SpentStays'
  BY <1>2 DEF CreateSession, CreateToken, LoginsInOrder, RefreshesInOrder
<1>3. ASSUME NEW r \in Refreshes, FindToken(r)
      PROVE  SpentStays'
  BY <1>3 DEF FindToken, Answered
<1>4. ASSUME NEW r \in Refreshes, RevokeFamily(r)
      PROVE  SpentStays'
  <2>1. \A x \in Issuers : token[x] = "revoked" => token'[x] = "revoked"
    BY <1>4, RevokeInKeeps DEF RevokeFamily
  <2> QED
    BY <1>4, <2>1 DEF RevokeFamily, RefreshesInOrder
<1>5. ASSUME NEW r \in Refreshes, KillSession(r)
      PROVE  SpentStays'
  BY <1>5 DEF KillSession
<1>6. ASSUME NEW r \in Refreshes, CheckSession(r) \/ CheckOwner(r)
      PROVE  SpentStays'
  BY <1>6 DEF CheckSession, CheckOwner
<1>7. ASSUME NEW r \in Refreshes, CreateNext(r)
      PROVE  SpentStays'
  BY <1>7 DEF CreateNext, RefreshesInOrder
<1>8. ASSUME NEW r \in Refreshes, SpendToken(r)
      PROVE  SpentStays'
  BY <1>8 DEF SpendToken, RefreshesInOrder
<1>9. ASSUME NEW e \in Changes, StartChange(e)
      PROVE  SpentStays'
  BY <1>9 DEF StartChange
<1>10. ASSUME NEW e \in Changes, ConsumeLink(e) \/ MarkVerified(e) \/ Purge(e)
      PROVE  SpentStays'
  BY <1>10 DEF ConsumeLink, MarkVerified, Purge
<1>11. ASSUME NEW e \in Changes, UpdateAccount(e)
      PROVE  SpentStays'
  BY <1>11 DEF UpdateAccount
<1>12. ASSUME NEW e \in Changes, RevokeSessions(e)
      PROVE  SpentStays'
  BY <1>12, RevokeInKeeps DEF RevokeSessions
<1>13. ASSUME NEW e \in Changes, RevokeTokens(e)
      PROVE  SpentStays'
  <2>1. \A x \in Issuers : token[x] = "revoked" => token'[x] = "revoked"
    BY <1>13, RevokeInKeeps DEF RevokeTokens
  <2>2. /\ \A r \in Refreshes : upc'[r] = upc[r]
        /\ UNCHANGED <<uses, prior>>
    BY <1>13 DEF RevokeTokens
  <2> QED
    BY <2>1, <2>2 DEF RefreshesInOrder
<1>14. ASSUME NEW c \in Calls, Answer(c) \/ StopAuth(c)
      PROVE  SpentStays'
  BY <1>14 DEF Answer, StopAuth
<1>15. CASE UNCHANGED authVars
  BY <1>15 DEF authVars
<1> QED
  BY <1>1, <1>2, <1>3, <1>4, <1>5, <1>6, <1>7, <1>8, <1>9, <1>10, <1>11, <1>12, <1>13, <1>14,
     <1>15 DEF AuthNext, AuthArrive, AuthProceed

LEMMA ReuseStep ==
  ASSUME AuthTypeOK, LoginsInOrder, RefreshesInOrder, ReuseEndsSession, [AuthNext]_authVars
  PROVE  ReuseEndsSession'
<1> USE AuthCallsAreDistinct
    DEF AuthTypeOK, Calls, Issuers, AtAuth, AuthGoto, accountVars, ReuseEndsSession
<1>1. ASSUME NEW l \in Logins, FindAccount(l) \/ RecordFailedLogin(l) \/ ResetFailedLogin(l)
      PROVE  ReuseEndsSession'
  BY <1>1 DEF FindAccount, RecordFailedLogin, ResetFailedLogin
<1>2. ASSUME NEW l \in Logins, CreateSession(l) \/ CreateToken(l)
      PROVE  ReuseEndsSession'
  BY <1>2 DEF CreateSession, CreateToken, LoginsInOrder, RefreshesInOrder
<1>3. ASSUME NEW r \in Refreshes, FindToken(r)
      PROVE  ReuseEndsSession'
  BY <1>3 DEF FindToken, Answered
<1>4. ASSUME NEW r \in Refreshes, RevokeFamily(r)
      PROVE  ReuseEndsSession'
  BY <1>4, RevokeInKeeps DEF RevokeFamily
<1>5. ASSUME NEW r \in Refreshes, KillSession(r)
      PROVE  ReuseEndsSession'
  BY <1>5 DEF KillSession, RefreshesInOrder
<1>6. ASSUME NEW r \in Refreshes, CheckSession(r) \/ CheckOwner(r)
      PROVE  ReuseEndsSession'
  BY <1>6 DEF CheckSession, CheckOwner
<1>7. ASSUME NEW r \in Refreshes, CreateNext(r)
      PROVE  ReuseEndsSession'
  BY <1>7 DEF CreateNext
<1>8. ASSUME NEW r \in Refreshes, SpendToken(r)
      PROVE  ReuseEndsSession'
  BY <1>8 DEF SpendToken
<1>9. ASSUME NEW e \in Changes, StartChange(e)
      PROVE  ReuseEndsSession'
  BY <1>9 DEF StartChange
<1>10. ASSUME NEW e \in Changes, ConsumeLink(e) \/ MarkVerified(e) \/ Purge(e)
      PROVE  ReuseEndsSession'
  BY <1>10 DEF ConsumeLink, MarkVerified, Purge
<1>11. ASSUME NEW e \in Changes, UpdateAccount(e)
      PROVE  ReuseEndsSession'
  BY <1>11 DEF UpdateAccount
<1>12. ASSUME NEW e \in Changes, RevokeSessions(e)
      PROVE  ReuseEndsSession'
  BY <1>12, RevokeInKeeps DEF RevokeSessions, RefreshesInOrder
<1>13. ASSUME NEW e \in Changes, RevokeTokens(e)
      PROVE  ReuseEndsSession'
  BY <1>13, RevokeInKeeps DEF RevokeTokens
<1>14. ASSUME NEW c \in Calls, Answer(c) \/ StopAuth(c)
      PROVE  ReuseEndsSession'
  BY <1>14 DEF Answer, StopAuth
<1>15. CASE UNCHANGED authVars
  BY <1>15 DEF authVars
<1> QED
  BY <1>1, <1>2, <1>3, <1>4, <1>5, <1>6, <1>7, <1>8, <1>9, <1>10, <1>11, <1>12, <1>13, <1>14,
     <1>15 DEF AuthNext, AuthArrive, AuthProceed

LEMMA SweptStep ==
  ASSUME AuthTypeOK, LoginsInOrder, RefreshesInOrder, SweptStays, [AuthNext]_authVars
  PROVE  SweptStays'
<1> USE AuthCallsAreDistinct
    DEF AuthTypeOK, Calls, Issuers, AtAuth, AuthGoto, accountVars, SweptStays, HasSwept, Sweeping,
       Kinds
<1>1. ASSUME NEW l \in Logins, FindAccount(l) \/ RecordFailedLogin(l) \/ ResetFailedLogin(l)
      PROVE  SweptStays'
  BY <1>1 DEF FindAccount, RecordFailedLogin, ResetFailedLogin
<1>2. ASSUME NEW l \in Logins, CreateSession(l) \/ CreateToken(l)
      PROVE  SweptStays'
  BY <1>2 DEF CreateSession, CreateToken, LoginsInOrder
<1>3. ASSUME NEW r \in Refreshes, FindToken(r)
      PROVE  SweptStays'
  BY <1>3 DEF FindToken
<1>4. ASSUME NEW r \in Refreshes, RevokeFamily(r)
      PROVE  SweptStays'
  BY <1>4, RevokeInKeeps DEF RevokeFamily
<1>5. ASSUME NEW r \in Refreshes, KillSession(r)
      PROVE  SweptStays'
  BY <1>5 DEF KillSession, RefreshesInOrder
<1>6. ASSUME NEW r \in Refreshes, CheckSession(r) \/ CheckOwner(r)
      PROVE  SweptStays'
  BY <1>6 DEF CheckSession, CheckOwner
<1>7. ASSUME NEW r \in Refreshes, CreateNext(r)
      PROVE  SweptStays'
  BY <1>7 DEF CreateNext
<1>8. ASSUME NEW r \in Refreshes, SpendToken(r)
      PROVE  SweptStays'
  BY <1>8 DEF SpendToken
<1>9. ASSUME NEW e \in Changes, StartChange(e)
      PROVE  SweptStays'
  BY <1>9 DEF StartChange, MayStart, FirstStep
<1>10. ASSUME NEW e \in Changes, ConsumeLink(e) \/ MarkVerified(e) \/ Purge(e)
      PROVE  SweptStays'
  BY <1>10 DEF ConsumeLink, MarkVerified, Purge
<1>11. ASSUME NEW e \in Changes, UpdateAccount(e)
      PROVE  SweptStays'
  BY <1>11 DEF UpdateAccount
<1>12. ASSUME NEW e \in Changes, RevokeSessions(e)
      PROVE  SweptStays'
  BY <1>12, RevokeInKeeps DEF RevokeSessions
<1>13. ASSUME NEW e \in Changes, RevokeTokens(e)
      PROVE  SweptStays'
  BY <1>13, RevokeInKeeps DEF RevokeTokens
<1>14. ASSUME NEW c \in Calls, Answer(c) \/ StopAuth(c)
      PROVE  SweptStays'
  BY <1>14 DEF Answer, StopAuth
<1>15. CASE UNCHANGED authVars
  BY <1>15 DEF authVars
<1> QED
  BY <1>1, <1>2, <1>3, <1>4, <1>5, <1>6, <1>7, <1>8, <1>9, <1>10, <1>11, <1>12, <1>13, <1>14,
     <1>15 DEF AuthNext, AuthArrive, AuthProceed

-----------------------------------------------------------------------------
(* The theorems.                                                             *)

LEMMA InitAuthInv == AuthInit => AuthInv
BY AuthInitTypeOK, AuthCallsAreDistinct
DEF AuthInit, AuthInv, LoginsInOrder, RefreshesInOrder, RevokedStays, SpentStays, ReuseEndsSession,
    SweptStays, HasSwept, Sweeping, Calls, Issuers, AtAuth

\* The invariant holds in every state of every behaviour of AuthService.
THEOREM AuthInvariant == AuthSpec => []AuthInv
<1>1. AuthInv /\ [AuthNext]_authVars => AuthInv'
  BY AuthTypeStep, LoginsStep, RefreshesStep, RevokedStep, SpentStep, ReuseStep, SweptStep
  DEF AuthInv
<1> QED
  BY <1>1, InitAuthInv, PTL DEF AuthSpec

\* Types hold for any calls on the account.
THEOREM AuthTypeCorrect == AuthSpec => []AuthTypeOK
<1>1. AuthInv => AuthTypeOK
  BY DEF AuthInv
<1> QED
  BY <1>1, AuthInvariant, PTL

\* refresh looks the session up: one begun after the session was revoked does not
\* answer, however many calls overlap with it.
THEOREM RevokedIssueNothing == AuthSpec => []RevokedIssuesNothing
<1>1. AuthInv => RevokedIssuesNothing
  BY DEF AuthInv, RevokedStays, RevokedIssuesNothing, Answered
<1> QED
  BY <1>1, AuthInvariant, PTL

\* Two refreshes that both answer with one token overlap.
THEOREM TokensAreExchangedOnce == AuthSpec => []ExchangedOnce
<1>1. AuthInv => ExchangedOnce
  BY DEF AuthInv, SpentStays, ExchangedOnce, Answered
<1> QED
  BY <1>1, AuthInvariant, PTL

\* Once reuse has been reported the session of the token stays revoked.
THEOREM ReuseEndsSessions == AuthSpec => []ReuseEndsSession
<1>1. AuthInv => ReuseEndsSession
  BY DEF AuthInv
<1> QED
  BY <1>1, AuthInvariant, PTL

\* Password changes, suspensions, locks, deletions and forced logouts end every
\* session that was there when they were asked for.
THEOREM SweepsEndSessions == AuthSpec => []SweepEndsSessions
<1>1. AuthInv => SweepEndsSessions
  BY DEF AuthInv, SweptStays, HasSwept, SweepEndsSessions, Answered
<1> QED
  BY <1>1, AuthInvariant, PTL

-----------------------------------------------------------------------------
(* What the race named in the finding leaves standing.                       *)

\* Only a sign-in that read the account before its suspension, or another change of
\* the account, opens a suspended account: every later sign-in is refused, however
\* often it is tried and whatever lockouts run out meanwhile.
THEOREM QuietSuspensionStays == AuthSpec => QuietSuspensionHolds
<1>1. ASSUME AuthTypeOK, [AuthNext]_authVars, SuspendedAtRest,
             ~ \E e \in Changes : UpdateAccount(e) /\ kind[e] # "suspend"
      PROVE  SuspendedAtRest'
  <2> USE AuthCallsAreDistinct
      DEF AuthTypeOK, Calls, Issuers, AtAuth, AuthGoto, accountVars, SuspendedAtRest
  <2>1. ASSUME NEW l \in Logins, FindAccount(l) \/ RecordFailedLogin(l) \/ ResetFailedLogin(l)
        PROVE  SuspendedAtRest'
    BY <1>1, <2>1 DEF FindAccount, RecordFailedLogin, ResetFailedLogin
  <2>2. ASSUME NEW l \in Logins, CreateSession(l) \/ CreateToken(l)
        PROVE  SuspendedAtRest'
    BY <1>1, <2>2 DEF CreateSession, CreateToken
  <2>3. ASSUME NEW r \in Refreshes, FindToken(r) \/ RevokeFamily(r) \/ KillSession(r)
        PROVE  SuspendedAtRest'
    BY <1>1, <2>3 DEF FindToken, RevokeFamily, KillSession
  <2>4. ASSUME NEW r \in Refreshes, CheckSession(r) \/ CheckOwner(r) \/ CreateNext(r)
                                    \/ SpendToken(r)
        PROVE  SuspendedAtRest'
    BY <1>1, <2>4 DEF CheckSession, CheckOwner, CreateNext, SpendToken
  <2>5. ASSUME NEW e \in Changes, StartChange(e) \/ ConsumeLink(e) \/ MarkVerified(e)
                                  \/ Purge(e)
        PROVE  SuspendedAtRest'
    BY <1>1, <2>5 DEF StartChange, ConsumeLink, MarkVerified, Purge
  <2>6. ASSUME NEW e \in Changes, UpdateAccount(e)
        PROVE  SuspendedAtRest'
    <3>1. kind[e] = "suspend"
      BY <1>1, <2>6
    <3> QED
      BY <1>1, <2>6, <3>1 DEF UpdateAccount, StandingAfter
  <2>7. ASSUME NEW e \in Changes, RevokeSessions(e) \/ RevokeTokens(e)
        PROVE  SuspendedAtRest'
    BY <1>1, <2>7 DEF RevokeSessions, RevokeTokens
  <2>8. ASSUME NEW c \in Calls, Answer(c) \/ StopAuth(c)
        PROVE  SuspendedAtRest'
    BY <1>1, <2>8 DEF Answer, StopAuth
  <2>9. CASE UNCHANGED authVars
    BY <1>1, <2>9 DEF authVars
  <2> QED
    BY <1>1, <2>1, <2>2, <2>3, <2>4, <2>5, <2>6, <2>7, <2>8, <2>9
       DEF AuthNext, AuthArrive, AuthProceed
<1>2. AuthTypeOK /\ [AuthNext]_authVars =>
        [SuspendedAtRest =>
           SuspendedAtRest'
             \/ \E e \in Changes : UpdateAccount(e) /\ kind[e] # "suspend"]_authVars
  BY <1>1
<1> QED
  BY <1>2, AuthTypeCorrect, PTL DEF AuthSpec, QuietSuspensionHolds

=============================================================================
