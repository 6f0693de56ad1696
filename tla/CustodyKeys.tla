---------------------------- MODULE CustodyKeys ----------------------------
(***************************************************************************)
(* One key of the custody service: KeyService (generate, rotate, revoke,   *)
(* destroy) and RecoveryService (start, approve, reject, complete).        *)
(*                                                                         *)
(* A call reads rows, checks what it read, and then writes by id alone,    *)
(* each statement in a transaction of its own.  The only thing that stops  *)
(* two rotates from overtaking each other is the unique index on           *)
(* (keyId, version).  Key material is named by the call that made it.      *)
(***************************************************************************)
EXTENDS Integers, FiniteSets

CONSTANTS Generation,    \* the generate call
          Rotations,     \* rotate calls
          Revocations,   \* revoke calls
          Destructions,  \* destroy calls
          Recoveries,    \* startRecovery calls, and the requests they create
          Consents,      \* approve calls
          Refusals,      \* reject calls
          Completions,   \* complete calls
          RecoveryOf,    \* RecoveryOf[c]: the request a consent, refusal or completion is about
          ConsenterOf,   \* ConsenterOf[c]: the user who makes approve call c
          Required       \* Required[r]: requiredApprovals of the policy of r

VARIABLES keyStatus,     \* cryptographic_keys.status, or "none"
          material,      \* materialEncrypted, or NoMaterial
          current,       \* currentVersion
          versions,      \* the key_versions rows
          recovery,      \* recovery[r]: recovery_requests.status, or "none"
          consents,      \* consents[r]: approvalsCount
          keyed,         \* the requests that name the key
          kpc,           \* kpc[c]: where a call is
          kseen          \* kseen[c]: the version, or the count, a call has read

Makers == Rotations \cup {Generation}
Answers == Consents \cup Refusals \cup Completions
KeyCalls == Makers \cup Revocations \cup Destructions \cup Recoveries \cup Answers

keyRowVars == <<keyStatus, material, current>>
recoveryVars == <<recovery, consents, keyed>>
keysVars == <<keyRowVars, versions, recoveryVars, kpc, kseen>>

NoMaterial == "cleared"

ASSUME RecoveryOfAssumption == RecoveryOf \in [Answers -> Recoveries]
ASSUME RequiredAssumption == Required \in [Recoveries -> Nat]
ASSUME MakersAreCalls == NoMaterial \notin Makers
ASSUME ConsentsAreFinite == IsFiniteSet(Consents)
ASSUME KindsAreDistinct ==
  /\ Generation \notin Rotations \cup Revocations \cup Destructions \cup Recoveries \cup Answers
  /\ Rotations \cap (Revocations \cup Destructions \cup Recoveries \cup Answers) = {}
  /\ Revocations \cap (Destructions \cup Recoveries \cup Answers) = {}
  /\ Destructions \cap (Recoveries \cup Answers) = {}
  /\ Recoveries \cap Answers = {}
  /\ Consents \cap (Refusals \cup Completions) = {} /\ Refusals \cap Completions = {}

KeyStatuses == {"none", "ACTIVE", "REVOKED", "DESTROYED", "RECOVERING"}
RecoveryStatuses == {"none", "AWAITING_APPROVAL", "APPROVED", "REJECTED", "COMPLETED"}

KeyEnds == {"done", "refused", "stopped"}
KeyPCs == {"read", "insert", "write", "create", "close"} \cup KeyEnds

KeysTypeOK ==
  /\ keyStatus \in KeyStatuses
  /\ material \in Makers \cup {NoMaterial}
  /\ current \in Nat
  /\ versions \subseteq [version : Nat, material : Makers]
  /\ recovery \in [Recoveries -> RecoveryStatuses]
  /\ consents \in [Recoveries -> Nat]
  /\ keyed \subseteq Recoveries
  /\ kpc \in [KeyCalls -> KeyPCs]
  /\ kseen \in [KeyCalls -> Nat]

KeysInit ==
  /\ keyStatus = "none" /\ material = NoMaterial /\ current = 0
  /\ versions = {}
  /\ recovery = [r \in Recoveries |-> "none"]
  /\ consents = [r \in Recoveries |-> 0]
  /\ keyed = {}
  /\ kpc = [c \in KeyCalls |-> "read"]
  /\ kseen = [c \in KeyCalls |-> 0]

AtKey(c, label) == kpc[c] = label
KeyGoto(c, label) == kpc' = [kpc EXCEPT ![c] = label]
ReadThen(c, n, label) == kseen' = [kseen EXCEPT ![c] = n] /\ KeyGoto(c, label)
SetRecovery(c, s) == recovery' = [recovery EXCEPT ![RecoveryOf[c]] = s]
AsksOf(c) == recovery[RecoveryOf[c]]
NamesKey(c) == RecoveryOf[c] \in keyed

-----------------------------------------------------------------------------
(* KeyService.  A definition marked Fault is a broken variant of the one it  *)
(* precedes: no specification uses it.                                       *)

\* generate: the key row, and in a statement of its own its first version.
Generate ==
  /\ AtKey(Generation, "read")
  /\ keyStatus' = "ACTIVE" /\ material' = Generation /\ current' = 1
  /\ KeyGoto(Generation, "insert")
  /\ UNCHANGED <<versions, recoveryVars, kseen>>

AddVersion(c, n) == versions' = versions \cup {[version |-> n, material |-> c]}

InsertFirstVersion ==
  /\ AtKey(Generation, "insert")
  /\ AddVersion(Generation, 1)
  /\ KeyGoto(Generation, "done")
  /\ UNCHANGED <<keyRowVars, recoveryVars, kseen>>

\* Fault: a key in any status may be rotated.
ReadForRotateAny(c) ==
  /\ c \in Rotations
  /\ AtKey(c, "read")
  /\ keyStatus # "none"
  /\ ReadThen(c, current, "insert")
  /\ UNCHANGED <<keyRowVars, versions, recoveryVars>>

\* rotate reads an ACTIVE key and asks the provider for new material.
ReadForRotate(c) ==
  /\ c \in Rotations
  /\ AtKey(c, "read")
  /\ keyStatus # "none"
  /\ IF keyStatus = "ACTIVE" THEN ReadThen(c, current, "insert")
                             ELSE KeyGoto(c, "refused") /\ UNCHANGED kseen
  /\ UNCHANGED <<keyRowVars, versions, recoveryVars>>

Taken(n) == \E row \in versions : row.version = n

\* Fault: no unique index on (keyId, version).
InsertAnyVersion(c) ==
  /\ c \in Rotations
  /\ AtKey(c, "insert")
  /\ AddVersion(c, kseen[c] + 1)
  /\ KeyGoto(c, "write")
  /\ UNCHANGED <<keyRowVars, recoveryVars, kseen>>

\* keyVersion.create throws when another rotate has taken the next version.
InsertVersion(c) ==
  /\ c \in Rotations
  /\ AtKey(c, "insert")
  /\ IF Taken(kseen[c] + 1)
       THEN KeyGoto(c, "refused") /\ UNCHANGED versions
       ELSE AddVersion(c, kseen[c] + 1) /\ KeyGoto(c, "write")
  /\ UNCHANGED <<keyRowVars, recoveryVars, kseen>>

\* Fault: the version counter is left as it was.
RotateMaterialOnly(c) ==
  /\ c \in Rotations
  /\ AtKey(c, "write")
  /\ material' = c
  /\ KeyGoto(c, "done")
  /\ UNCHANGED <<keyStatus, current, versions, recoveryVars, kseen>>

\* The new material and version go into the key row, whatever its status is now.
Rotate(c) ==
  /\ c \in Rotations
  /\ AtKey(c, "write")
  /\ material' = c /\ current' = kseen[c] + 1
  /\ KeyGoto(c, "done")
  /\ UNCHANGED <<keyStatus, versions, recoveryVars, kseen>>

ReadForRevoke(c) ==
  /\ c \in Revocations
  /\ AtKey(c, "read")
  /\ keyStatus # "none"
  /\ KeyGoto(c, IF keyStatus \in {"REVOKED", "DESTROYED"} THEN "refused" ELSE "write")
  /\ UNCHANGED <<keyRowVars, versions, recoveryVars, kseen>>

Revoke(c) ==
  /\ c \in Revocations
  /\ AtKey(c, "write")
  /\ keyStatus' = "REVOKED"
  /\ KeyGoto(c, "done")
  /\ UNCHANGED <<material, current, versions, recoveryVars, kseen>>

\* destroy, up to the provider's answer.
ReadForDestroy(c) ==
  /\ c \in Destructions
  /\ AtKey(c, "read")
  /\ keyStatus # "none"
  /\ KeyGoto(c, IF keyStatus = "DESTROYED" THEN "refused" ELSE "write")
  /\ UNCHANGED <<keyRowVars, versions, recoveryVars, kseen>>

Destroy(c) ==
  /\ c \in Destructions
  /\ AtKey(c, "write")
  /\ keyStatus' = "DESTROYED" /\ material' = NoMaterial
  /\ KeyGoto(c, "done")
  /\ UNCHANGED <<current, versions, recoveryVars, kseen>>

-----------------------------------------------------------------------------
(* RecoveryService.  A recovery request is named by the call that starts it. *)

\* startRecovery without a key has no key to mark.
StartWithoutKey(r) ==
  /\ r \in Recoveries
  /\ AtKey(r, "read")
  /\ KeyGoto(r, "create")
  /\ UNCHANGED <<keyRowVars, versions, recoveryVars, kseen>>

ReadForRecovery(r) ==
  /\ r \in Recoveries
  /\ AtKey(r, "read")
  /\ keyStatus # "none"
  /\ KeyGoto(r, IF keyStatus = "DESTROYED" THEN "refused" ELSE "write")
  /\ UNCHANGED <<keyRowVars, versions, recoveryVars, kseen>>

\* keyed holds the keyId of the request that is about to be created.
MarkRecovering(r) ==
  /\ r \in Recoveries
  /\ AtKey(r, "write")
  /\ keyStatus' = "RECOVERING"
  /\ keyed' = keyed \cup {r}
  /\ KeyGoto(r, "create")
  /\ UNCHANGED <<material, current, versions, recovery, consents, kseen>>

CreateRequest(r) ==
  /\ r \in Recoveries
  /\ AtKey(r, "create")
  /\ recovery' = [recovery EXCEPT ![r] =
                    IF Required[r] > 0 THEN "AWAITING_APPROVAL" ELSE "APPROVED"]
  /\ KeyGoto(r, "done")
  /\ UNCHANGED <<keyRowVars, versions, consents, keyed, kseen>>

ReadForConsent(c) ==
  /\ c \in Consents
  /\ AtKey(c, "read")
  /\ AsksOf(c) # "none"
  /\ IF AsksOf(c) = "AWAITING_APPROVAL"
       THEN ReadThen(c, consents[RecoveryOf[c]], "write")
       ELSE KeyGoto(c, "refused") /\ UNCHANGED kseen
  /\ UNCHANGED <<keyRowVars, versions, recoveryVars>>

ConsentSuffices(c) == kseen[c] + 1 >= Required[RecoveryOf[c]]

\* approve writes the count it read plus one, over any status written since.  It does
\* not ask who has approved before.
Consent(c) ==
  /\ c \in Consents
  /\ AtKey(c, "write")
  /\ consents' = [consents EXCEPT ![RecoveryOf[c]] = kseen[c] + 1]
  /\ SetRecovery(c, IF ConsentSuffices(c) THEN "APPROVED" ELSE "AWAITING_APPROVAL")
  /\ KeyGoto(c, "done")
  /\ UNCHANGED <<keyRowVars, versions, keyed, kseen>>

\* reject asks nothing of the request's status; it frees the key first.
ReadForRefusal(c) ==
  /\ c \in Refusals
  /\ AtKey(c, "read")
  /\ AsksOf(c) # "none"
  /\ KeyGoto(c, IF NamesKey(c) THEN "write" ELSE "close")
  /\ UNCHANGED <<keyRowVars, versions, recoveryVars, kseen>>

FreeKey(c, label) ==
  /\ AtKey(c, "write")
  /\ keyStatus' = "ACTIVE"
  /\ KeyGoto(c, label)
  /\ UNCHANGED <<material, current, versions, recoveryVars, kseen>>

FreeForRefusal(c) == c \in Refusals /\ FreeKey(c, "close")

Refuse(c) ==
  /\ c \in Refusals
  /\ AtKey(c, "close")
  /\ SetRecovery(c, "REJECTED")
  /\ KeyGoto(c, "done")
  /\ UNCHANGED <<keyRowVars, versions, consents, keyed, kseen>>

ReadForComplete(c) ==
  /\ c \in Completions
  /\ AtKey(c, "read")
  /\ AsksOf(c) # "none"
  /\ KeyGoto(c, IF AsksOf(c) = "APPROVED" THEN "close" ELSE "refused")
  /\ UNCHANGED <<keyRowVars, versions, recoveryVars, kseen>>

\* Fault: complete does not free the key.
CompleteRequestOnly(c) ==
  /\ c \in Completions
  /\ AtKey(c, "close")
  /\ SetRecovery(c, "COMPLETED")
  /\ KeyGoto(c, "done")
  /\ UNCHANGED <<keyRowVars, versions, consents, keyed, kseen>>

\* complete closes the request first and frees the key afterwards.
Complete(c) ==
  /\ c \in Completions
  /\ AtKey(c, "close")
  /\ SetRecovery(c, "COMPLETED")
  /\ KeyGoto(c, IF NamesKey(c) THEN "write" ELSE "done")
  /\ UNCHANGED <<keyRowVars, versions, consents, keyed, kseen>>

FreeForComplete(c) == c \in Completions /\ FreeKey(c, "done")

-----------------------------------------------------------------------------

\* The provider or the database throws, or the service dies: nothing is undone.
\* A stopped call is told from a refused one only where a property needs it.
StopKeyCall(c) ==
  /\ kpc[c] \notin KeyEnds \cup {"read"}
  /\ KeyGoto(c, IF c \in {Generation} \cup Recoveries \cup Completions
                  THEN "stopped" ELSE "refused")
  /\ UNCHANGED <<keyRowVars, versions, recoveryVars, kseen>>

KeysNext ==
  \/ Generate \/ InsertFirstVersion
  \/ \E c \in Rotations : ReadForRotate(c) \/ InsertVersion(c) \/ Rotate(c)
  \/ \E c \in Revocations : ReadForRevoke(c) \/ Revoke(c)
  \/ \E c \in Destructions : ReadForDestroy(c) \/ Destroy(c)
  \/ \E r \in Recoveries : \/ StartWithoutKey(r) \/ ReadForRecovery(r)
                           \/ MarkRecovering(r) \/ CreateRequest(r)
  \/ \E c \in Consents : ReadForConsent(c) \/ Consent(c)
  \/ \E c \in Refusals : ReadForRefusal(c) \/ FreeForRefusal(c) \/ Refuse(c)
  \/ \E c \in Completions : ReadForComplete(c) \/ Complete(c) \/ FreeForComplete(c)
  \/ \E c \in KeyCalls : StopKeyCall(c)

KeysSpec == KeysInit /\ [][KeysNext]_keysVars

-----------------------------------------------------------------------------
(* What makes the key row trustworthy. *)

\* The material in the key row is that of the version it names: the version row
\* exists and holds it, except for a first version that generate has yet to
\* insert or died before inserting (key.service.ts writes the two rows apart).
KeyHoldsItsVersion ==
  material # NoMaterial =>
    \/ [version |-> current, material |-> material] \in versions
    \/ /\ material = Generation /\ current = 1
       /\ kpc[Generation] \in {"insert", "stopped"}

\* Rotates that race never turn the key back: the version only grows, and
\* material comes into the row only together with a higher version.
VersionsMoveForward ==
  [][/\ current' >= current
     /\ material' \notin {material, NoMaterial} => current' > current]_keysVars

\* The material is cleared, and no rotate is under way that read the key before.
Erased ==
  /\ keyStatus \notin {"none", "ACTIVE"} /\ material = NoMaterial
  /\ \A c \in Rotations : kpc[c] \in KeyEnds \cup {"read"}

\* Material that destroy has cleared stays away, whatever revoke and recovery
\* calls write over DESTROYED, until one that ends a recovery of the key makes
\* it ACTIVE again; only a rotate that overlaps destroy can bring it back sooner.
ErasedStaysEmpty ==
  [][Erased =>
       /\ material' = NoMaterial
       /\ \/ Erased'
          \/ \E c \in Refusals \cup Completions : AtKey(c, "write") /\ ~ AtKey(c, "write")']_keysVars

Open == {"AWAITING_APPROVAL", "APPROVED"}

\* r has marked the key and someone still owes it a way out: the request is not
\* created yet, or is open, or a complete call has closed it and is about to
\* free the key; or the call that should have done so was stopped on the way.
Owed(r) ==
  /\ r \in keyed
  /\ \/ kpc[r] \in {"create", "stopped"}
     \/ recovery[r] \in Open
     \/ \E c \in Completions : RecoveryOf[c] = r /\ kpc[c] \in {"write", "stopped"}

\* A key is left RECOVERING, where rotate refuses it, only while a recovery of
\* it is under way or after a call on one was stopped between its two writes.
RecoveringIsOwed ==
  keyStatus = "RECOVERING" => \E r \in Recoveries : Owed(r)

\* The approve calls that have counted themselves on r.
Consented(r) == {c \in Consents : RecoveryOf[c] = r /\ kpc[c] = "done"}

-----------------------------------------------------------------------------
(* What the repository says of recoveries, and the code does not keep. *)

\* approval-policy.ts:17: "Number of distinct approvals required before a
\* signing/recovery request may proceed": a recovery that is approved or completed
\* was approved by as many users as its policy requires.
RecoveryApprovalsAreDistinct ==
  \A r \in Recoveries :
    recovery[r] \in {"APPROVED", "COMPLETED"} =>
      Cardinality({ConsenterOf[c] : c \in Consented(r)}) >= Required[r]

=============================================================================
