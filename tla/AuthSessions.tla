---------------------------- MODULE AuthSessions ----------------------------
(***************************************************************************)
(* The sessions and refresh tokens of one account of the auth service:     *)
(* AuthService's sign-in, its token rotation, and the calls that end       *)
(* sessions or change what the account may do.                             *)
(*                                                                         *)
(* None of these calls opens a transaction: every await is a statement of  *)
(* its own, and what a call has read of the account, the token or the      *)
(* session is not looked at again before it writes.                        *)
(***************************************************************************)
EXTENDS Naturals

CONSTANTS Logins,      \* login calls; the session a login creates has its name
          Refreshes,   \* refresh calls
          Changes      \* calls that end sessions or change the account

VARIABLES standing,    \* users.status
          deleted,     \* users.deletedAt is set
          lockout,     \* users.lockedUntil is set
          verified,    \* users.emailVerified
          link,        \* the e-mail verification token: "sent", "used" or "purged"
          session,     \* session[l]: "none", "live" or "revoked"
          token,       \* token[c]: the refresh token call c has created, likewise
          upc,         \* upc[c]: where a call is
          uses,        \* uses[r]: the token refresh r presents, named by its creator
          root,        \* root[c]: the session of the tokens call c deals in
          kind,        \* kind[e]: what change e is, or "none" as long as it is idle
          prior        \* prior[c]: what had happened when c began (history, no state)

accountVars == <<standing, deleted, lockout, verified, link>>
authVars == <<accountVars, session, token, upc, uses, root, kind, prior>>

Issuers == Logins \cup Refreshes
Calls == Issuers \cup Changes

ASSUME AuthCallsAreDistinct == /\ Logins \cap Refreshes = {}
                               /\ Issuers \cap Changes = {}

\* adminUpdateStatus is "suspend" (to DEACTIVATED is the same here), "lock" or
\* "activate"; a new password is set by changePassword or by resetPassword.
Kinds == {"logout", "force", "password", "suspend", "lock", "activate",
          "softDelete", "restore", "deleteAccount", "verify"}

\* The changes that end every session of the account.
Sweeping == {"force", "password", "suspend", "lock", "softDelete", "deleteAccount"}

Nobody == "nobody"
Stored == {"none", "live", "revoked"}

AuthTypeOK ==
  /\ standing \in {"PENDING_VERIFICATION", "ACTIVE", "LOCKED", "SUSPENDED", "DELETED"}
  /\ deleted \in BOOLEAN /\ lockout \in BOOLEAN /\ verified \in BOOLEAN
  /\ link \in {"sent", "used", "purged"}
  /\ session \in [Logins -> Stored]
  /\ token \in [Issuers -> Stored]
  /\ upc \in [Calls -> {"idle", "checked", "failed", "reset", "session", "token",
                        "family", "kill", "owner", "create", "spend", "consume", "mark",
                        "account", "sessions", "tokens", "purge", "record",
                        "answered", "reuse", "refused", "stopped"}]
  /\ uses \in [Refreshes -> Issuers \cup {Nobody}]
  /\ root \in [Calls -> Logins \cup {Nobody}]
  /\ kind \in [Changes -> Kinds \cup {"none"}]
  /\ prior \in [Refreshes \cup Changes -> SUBSET Issuers]

\* The account has just been registered, or its address is confirmed already.
AuthInit ==
  /\ verified \in BOOLEAN
  /\ standing = IF verified THEN "ACTIVE" ELSE "PENDING_VERIFICATION"
  /\ link = IF verified THEN "used" ELSE "sent"
  /\ deleted = FALSE /\ lockout = FALSE
  /\ session = [l \in Logins |-> "none"]
  /\ token = [c \in Issuers |-> "none"]
  /\ upc = [c \in Calls |-> "idle"]
  /\ uses = [r \in Refreshes |-> Nobody]
  /\ root = [c \in Calls |-> IF c \in Logins THEN c ELSE Nobody]
  /\ kind = [e \in Changes |-> "none"]
  /\ prior = [c \in Refreshes \cup Changes |-> {}]

AtAuth(c, label) == upc[c] = label
AuthGoto(c, label) == upc' = [upc EXCEPT ![c] = label]
Answered(c) == upc[c] = "answered"

\* updateMany over the rows S that are not revoked yet.
RevokeIn(f, S) == [x \in DOMAIN f |-> IF x \in S /\ f[x] = "live" THEN "revoked" ELSE f[x]]

\* The tokens of session l: the family is that of its login.
TokensOf(l) == {c \in Issuers : root[c] = l}

-----------------------------------------------------------------------------
(* login.  A definition marked Fault is a broken variant of the one it       *)
(* precedes: no specification uses it.                                       *)

\* findByEmail and its checks, and the password compared with the hash just read.
\* A lock that has run out does not stop a sign-in, nor does one an administrator
\* has set, which has no date.
FindAccount(l) ==
  LET open == ~deleted /\ standing \notin {"SUSPENDED", "DELETED"}
  IN /\ AtAuth(l, "idle")
     /\ \/ open /\ verified /\ AuthGoto(l, "reset")
        \/ open /\ AuthGoto(l, "failed")
        \/ (~open \/ ~verified \/ lockout) /\ AuthGoto(l, "refused")
     /\ UNCHANGED <<accountVars, session, token, uses, root, kind, prior>>

\* recordFailedLogin: the attempt that reaches the limit locks, any other clears
\* the date.
RecordFailedLogin(l) ==
  /\ AtAuth(l, "failed")
  /\ \/ lockout' = TRUE /\ standing' = "LOCKED"
     \/ lockout' = FALSE /\ UNCHANGED standing
  /\ AuthGoto(l, "refused")
  /\ UNCHANGED <<deleted, verified, link, session, token, uses, root, kind, prior>>

\* resetFailedLogin makes the account ACTIVE, by id, whatever it is by now.
ResetFailedLogin(l) ==
  /\ AtAuth(l, "reset")
  /\ standing' = "ACTIVE" /\ lockout' = FALSE
  /\ AuthGoto(l, "session")
  /\ UNCHANGED <<deleted, verified, link, session, token, uses, root, kind, prior>>

CreateSession(l) ==
  /\ AtAuth(l, "session")
  /\ session' = [session EXCEPT ![l] = "live"]
  /\ AuthGoto(l, "token")
  /\ UNCHANGED <<accountVars, token, uses, root, kind, prior>>

CreateToken(l) ==
  /\ AtAuth(l, "token")
  /\ token' = [token EXCEPT ![l] = "live"]
  /\ AuthGoto(l, "record")
  /\ UNCHANGED <<accountVars, session, uses, root, kind, prior>>

\* History, audit and analytics rows, the access token, the answer.
Answer(c) ==
  /\ AtAuth(c, "record")
  /\ AuthGoto(c, "answered")
  /\ UNCHANGED <<accountVars, session, token, uses, root, kind, prior>>

-----------------------------------------------------------------------------
(* refresh. *)

\* findByHash, of a token whose creator has answered with it.  A revoked token
\* starts the reuse path; an expired one is refused.
FindToken(r) ==
  /\ AtAuth(r, "idle")
  /\ \E c \in Issuers :
       /\ Answered(c)
       /\ uses' = [uses EXCEPT ![r] = c]
       /\ root' = [root EXCEPT ![r] = root[c]]
       /\ IF token[c] = "revoked" THEN AuthGoto(r, "family")
          ELSE AuthGoto(r, "checked") \/ AuthGoto(r, "refused")
  /\ prior' = [prior EXCEPT ![r] = {s \in Refreshes : Answered(s)}
                                   \cup {l \in Logins : session[l] = "revoked"}]
  /\ UNCHANGED <<accountVars, session, token, kind>>

\* The reuse path: revokeFamily, then the session, then the audit row and the error.
RevokeFamily(r) ==
  /\ AtAuth(r, "family")
  /\ token' = RevokeIn(token, TokensOf(root[r]))
  /\ AuthGoto(r, "kill")
  /\ UNCHANGED <<accountVars, session, uses, root, kind, prior>>

\* Fault: only the family is revoked.
KeepSession(r) ==
  /\ AtAuth(r, "kill")
  /\ AuthGoto(r, "reuse")
  /\ UNCHANGED <<accountVars, session, token, uses, root, kind, prior>>

KillSession(r) ==
  /\ AtAuth(r, "kill")
  /\ session' = [session EXCEPT ![root[r]] = "revoked"]
  /\ AuthGoto(r, "reuse")
  /\ UNCHANGED <<accountVars, token, uses, root, kind, prior>>

\* Fault: the session is not looked up.
SkipSession(r) ==
  /\ AtAuth(r, "checked")
  /\ AuthGoto(r, "owner")
  /\ UNCHANGED <<accountVars, session, token, uses, root, kind, prior>>

CheckSession(r) ==
  /\ r \in Refreshes
  /\ AtAuth(r, "checked")
  /\ AuthGoto(r, IF session[root[r]] = "live" THEN "owner" ELSE "refused")
  /\ UNCHANGED <<accountVars, session, token, uses, root, kind, prior>>

CheckOwner(r) ==
  /\ AtAuth(r, "owner")
  /\ AuthGoto(r, IF ~deleted /\ standing = "ACTIVE" THEN "create" ELSE "refused")
  /\ UNCHANGED <<accountVars, session, token, uses, root, kind, prior>>

CreateNext(r) ==
  /\ AtAuth(r, "create")
  /\ token' = [token EXCEPT ![r] = "live"]
  /\ AuthGoto(r, "spend")
  /\ UNCHANGED <<accountVars, session, uses, root, kind, prior>>

\* Fault: the presented token is not revoked.
KeepToken(r) ==
  /\ AtAuth(r, "spend")
  /\ AuthGoto(r, "record")
  /\ UNCHANGED <<accountVars, session, token, uses, root, kind, prior>>

SpendToken(r) ==
  /\ AtAuth(r, "spend")
  /\ token' = [token EXCEPT ![uses[r]] = "revoked"]
  /\ AuthGoto(r, "record")
  /\ UNCHANGED <<accountVars, session, uses, root, kind, prior>>

-----------------------------------------------------------------------------
(* The changes.  Those of one account take up to five statements.            *)

\* What a change reads first may refuse it: the session or user is not found, the
\* current password is wrong, the reset or verification token is spent.
MayStart(e, k) ==
  /\ k = "verify" => link = "sent"
  /\ k = "deleteAccount" => ~deleted /\ standing # "DELETED"

FirstStep(k) == CASE k = "verify" -> "consume"
                  [] k \in {"logout", "force", "deleteAccount"} -> "sessions"
                  [] OTHER -> "account"

StartChange(e) ==
  /\ AtAuth(e, "idle")
  /\ \E k \in Kinds :
       /\ kind' = [kind EXCEPT ![e] = k]
       /\ AuthGoto(e, "refused") \/ (MayStart(e, k) /\ AuthGoto(e, FirstStep(k)))
       /\ IF k = "logout" THEN \E l \in Logins : session[l] # "none" /\ root' = [root EXCEPT ![e] = l]
          ELSE UNCHANGED root
  /\ prior' = [prior EXCEPT ![e] = {l \in Logins : session[l] # "none"}]
  /\ UNCHANGED <<accountVars, session, token, uses>>

\* consumeEmailVerificationToken's update, by id: the row must be there still.
ConsumeLink(e) ==
  /\ AtAuth(e, "consume")
  /\ IF link = "purged" THEN AuthGoto(e, "stopped") /\ UNCHANGED link
     ELSE AuthGoto(e, "mark") /\ link' = "used"
  /\ UNCHANGED <<standing, deleted, lockout, verified, session, token, uses, root, kind, prior>>

MarkVerified(e) ==
  /\ AtAuth(e, "mark")
  /\ verified' = TRUE
  /\ AuthGoto(e, "account")
  /\ UNCHANGED <<standing, deleted, lockout, link, session, token, uses, root, kind, prior>>

\* The write of the user's row, by id.  A new password leaves all of this alone.
StandingAfter(k) ==
  [password |-> standing, suspend |-> "SUSPENDED", lock |-> "LOCKED",
   softDelete |-> "DELETED", deleteAccount |-> "DELETED", activate |-> "ACTIVE", restore |-> "ACTIVE",
   verify |-> "ACTIVE"][k]

UpdateAccount(e) ==
  LET k == kind[e]
  IN /\ AtAuth(e, "account")
     /\ standing' = StandingAfter(k)
     /\ deleted' = (k \in {"softDelete", "deleteAccount"} \/ (deleted /\ k # "restore"))
     /\ lockout' = (lockout /\ k # "deleteAccount")
     /\ verified' = (verified /\ k # "deleteAccount")
     /\ AuthGoto(e, IF k \in {"password", "suspend", "lock", "softDelete"} THEN "sessions" ELSE "record")
     /\ UNCHANGED <<link, session, token, uses, root, kind, prior>>

\* Fault: only refresh tokens are revoked.
KeepSessions(e) ==
  /\ AtAuth(e, "sessions")
  /\ AuthGoto(e, "tokens")
  /\ UNCHANGED <<accountVars, session, token, uses, root, kind, prior>>

RevokeSessions(e) ==
  /\ AtAuth(e, "sessions")
  /\ session' = RevokeIn(session, IF kind[e] = "logout" THEN {root[e]} ELSE Logins)
  /\ AuthGoto(e, "tokens")
  /\ UNCHANGED <<accountVars, token, uses, root, kind, prior>>

RevokeTokens(e) ==
  /\ AtAuth(e, "tokens")
  /\ token' = RevokeIn(token, IF kind[e] = "logout" THEN TokensOf(root[e]) ELSE Issuers)
  /\ AuthGoto(e, IF kind[e] = "deleteAccount" THEN "purge" ELSE "record")
  /\ UNCHANGED <<accountVars, session, uses, root, kind, prior>>

\* purgeEligibleCloudData, of which the verification token is what matters here.
Purge(e) ==
  /\ AtAuth(e, "purge")
  /\ link' = "purged"
  /\ AuthGoto(e, "account")
  /\ UNCHANGED <<standing, deleted, lockout, verified, session, token, uses, root, kind, prior>>

\* A statement throws, or the service dies: nothing is undone.
StopAuth(c) ==
  /\ upc[c] \notin {"idle", "answered", "reuse", "refused", "stopped"}
  /\ AuthGoto(c, "stopped")
  /\ UNCHANGED <<accountVars, session, token, uses, root, kind, prior>>

\* A call arrives, or one under way goes on.
AuthArrive == \/ \E l \in Logins : FindAccount(l)
              \/ \E r \in Refreshes : FindToken(r)
              \/ \E e \in Changes : StartChange(e)
AuthProceed ==
  \/ \E l \in Logins : RecordFailedLogin(l) \/ ResetFailedLogin(l) \/ CreateSession(l) \/ CreateToken(l)
  \/ \E r \in Refreshes : \/ RevokeFamily(r) \/ KillSession(r)
                          \/ CheckSession(r) \/ CheckOwner(r) \/ CreateNext(r) \/ SpendToken(r)
  \/ \E e \in Changes : \/ ConsumeLink(e) \/ MarkVerified(e)
                        \/ UpdateAccount(e) \/ RevokeSessions(e) \/ RevokeTokens(e) \/ Purge(e)
  \/ \E c \in Calls : Answer(c) \/ StopAuth(c)

AuthNext == AuthArrive \/ AuthProceed

AuthSpec == AuthInit /\ [][AuthNext]_authVars

-----------------------------------------------------------------------------
(* What ending a session promises. *)

\* A refresh begun after the session of its token was revoked never answers with
\* tokens, however the calls that revoke sessions and tokens overlap with it.
RevokedIssuesNothing ==
  \A r \in Refreshes : Answered(r) => root[r] \notin prior[r]

\* A token is exchanged for new ones by one call, or by calls that overlap: one
\* begun after another has answered with it does not answer.
ExchangedOnce ==
  \A r, s \in Refreshes : Answered(s) /\ r \in prior[s] => uses[r] # uses[s]

\* A client told of reuse holds no session any more, whoever else was using it.
ReuseEndsSession ==
  \A r \in Refreshes : AtAuth(r, "reuse") => session[root[r]] = "revoked"

\* Changing the password, suspending, locking, deleting and forcing a logout end, by the
\* time they answer, every session that was there when they were asked for.
SweepEndsSessions ==
  \A e \in Changes : Answered(e) /\ kind[e] \in Sweeping =>
    \A l \in prior[e] : session[l] = "revoked"

\* The account is suspended, and no sign-in is past its checks and about to write it.
SuspendedAtRest ==
  /\ standing = "SUSPENDED"
  /\ \A l \in Logins : upc[l] \notin {"failed", "reset"}

\* A suspension that no sign-in overlaps keeps every later one out, until another
\* change of the account writes its status.
QuietSuspensionHolds ==
  [][SuspendedAtRest =>
       SuspendedAtRest' \/ \E e \in Changes : UpdateAccount(e) /\ kind[e] # "suspend"]_authVars

-----------------------------------------------------------------------------
(* What the repository says of it, and the code does not keep. *)

\* auth.service.spec.ts:515, "suspended account cannot sign in": no sign-in that
\* begins after the suspension has been answered is let in, as long as no
\* administrator activates or restores the account.
SuspendedCannotSignIn ==
  [][\A l \in Logins : AtAuth(l, "idle") /\ AtAuth(l, "reset")' =>
       ~ /\ \E e \in Changes : kind[e] = "suspend" /\ Answered(e)
         /\ \A e \in Changes : kind[e] \notin {"activate", "restore"}]_authVars

=============================================================================
