------------------------ MODULE KycVerificationProofs ------------------------
(***************************************************************************)
(* KycVerification for any number of submissions, reviewers' calls and     *)
(* deliveries: when a replayed event is refused, and why a rejection       *)
(* reaches the customer's profile.                                         *)
(***************************************************************************)
EXTENDS KycVerification, TLAPS

-----------------------------------------------------------------------------
(* The inductive invariant.                                                  *)

\* What a call found ended when it began has ended, and a call that has not begun
\* has decided nothing.
CallsInOrder ==
  /\ \A c, d \in KycCalls : d \in before[c] => Ended(d)
  /\ \A c \in written : kpc[c] \notin {"idle", "open", "active", "create", "identity", "tail",
                                       "deny", "write", "refused", "duplicate"}

\* A row is there only once its submission has begun.  Who decides a row has
\* begun, and not before its submission did.
RowsAreSubmitted ==
  /\ \A q \in Submits : request[q] # "none" => Begun(q)
  /\ \A c \in Reviewings \cup Deliveries :
       /\ about[c] # Nothing => Begun(about[c]) /\ c \notin before[about[c]]
       /\ ~ Begun(c) => about[c] = Nothing
       /\ kpc[c] \in {"write", "profile", "look", "find", "close"} => about[c] \in Submits
  /\ \A s \in Submits : about[s] = s
  /\ \A c \in KycCalls : \A q \in todo[c] : Begun(q)

\* Only an approval closes other requests, never its own, and who has decided has
\* decided a request.
StepsAreOwn ==
  /\ \A c \in KycCalls : kpc[c] \in {"look", "find", "close"} => c \notin Submits /\ Approves(c)
  /\ \A c \in KycCalls : about[c] \notin todo[c] /\ (todo[c] # {} => Begun(c))
  /\ \A c \in written : c \notin Submits => about[c] \in Submits
  /\ \A c \in KycCalls \ Submits : kpc[c] \in {"profile", "look", "find", "close"} => c \in written

\* A call that has begun has its input, and a delivery goes on to the profile only
\* with an event that is about it.
InputsAreRead ==
  /\ \A d \in Deliveries : Begun(d) => event[d] \in Events
  /\ \A r \in Reviewings : Begun(r) => deed[r] \in Deeds
  /\ \A d \in Deliveries : kpc[d] = "profile" => event[d].type \in {"verified", "requires_input"}

KycBase == KycTypeOK /\ CallsInOrder /\ RowsAreSubmitted /\ StepsAreOwn /\ InputsAreRead

\* Of two calls that have begun, the one found the other ended, unless they overlap.
LEMMA OneFirst ==
  ASSUME NEW c \in KycCalls, NEW d \in KycCalls, Begun(c), Begun(d), ~ Overlap(c, d)
  PROVE  c \in before[d] \/ d \in before[c]
BY DEF Overlap

\* The invariant's base holds at the start.
LEMMA KycInitOK == KycInit => KycBase
<1> SUFFICES ASSUME KycInit PROVE KycBase
  OBVIOUS
<1>1. RowTypes
  BY DEF KycInit, RowTypes
<1>2. CallTypes
  BY DEF KycInit, CallTypes, KycCalls
<1>3. CallsInOrder
  BY DEF KycInit, CallsInOrder
<1>4. RowsAreSubmitted
  BY KycCallsAreDistinct DEF KycInit, RowsAreSubmitted, KycCalls, Begun
<1>5. StepsAreOwn
  BY DEF KycInit, StepsAreOwn, Begun, KycCalls
<1>6. InputsAreRead
  BY DEF KycInit, InputsAreRead, Begun, KycCalls
<1> QED
  BY <1>1, <1>2, <1>3, <1>4, <1>5, <1>6 DEF KycBase, KycTypeOK

\* What a decision writes is a status that a request may have, and so may the
\* profile unless the decision ends with the request.
LEMMA DecisionTyped ==
  ASSUME KycBase, NEW c \in Reviewings \cup Deliveries, Begun(c)
  PROVE  /\ Decision(c) \in {"IN_REVIEW", "APPROVED", "REJECTED", "RENEWAL_REQUIRED", "CANCELLED"}
         /\ c \in Reviewings \/ event[c].type # "canceled" => Decision(c) # "CANCELLED"
<1>1. CASE c \in Reviewings
  <2>1. deed[c] \in Deeds
    BY <1>1 DEF KycBase, InputsAreRead
  <2> QED
    BY <1>1, <2>1 DEF Decision, Deeds
<1>2. CASE c \in Deliveries
  <2>1. event[c].type \in {"verified", "requires_input", "canceled", "processing"}
    BY <1>2 DEF KycBase, InputsAreRead, Events
  <2>2. c \notin Reviewings
    BY <1>2, KycCallsAreDistinct
  <2> QED
    BY <2>1, <2>2 DEF Decision
<1> QED
  BY <1>1, <1>2

\* The events a decision leaves in the metadata are events.
LEMMA SeenAfterTyped ==
  ASSUME KycBase, NEW c \in Reviewings \cup Deliveries, AtKyc(c, "write")
  PROVE  SeenAfter(c) \in SUBSET Events
<1>1. /\ about[c] \in Submits /\ c \in KycCalls
      /\ c \in Deliveries => event[c] \in Events
  BY DEF KycBase, RowsAreSubmitted, InputsAreRead, AtKyc, Begun, KycCalls
<1>2. copy[c][about[c]] \in SUBSET Events /\ seen[about[c]] \in SUBSET Events
  BY <1>1 DEF KycBase, KycTypeOK, RowTypes, CallTypes
<1> QED
  BY <1>1, <1>2 DEF SeenAfter

\* findFirst finds a request.
LEMMA NewestIsRequest ==
  ASSUME NEW e, NEW q \in Newest(Matches(e))
  PROVE  q \in Submits /\ request[q] # "none"
BY DEF Newest, Matches

\* The sets a call is in.
LEMMA WhoCalls ==
  /\ Submits \subseteq KycCalls /\ Reviewings \subseteq KycCalls /\ Deliveries \subseteq KycCalls
  /\ Reviewings \cup Deliveries \subseteq KycCalls
  /\ \A c \in KycCalls : c \in Submits \/ c \in Reviewings \/ c \in Deliveries
BY DEF KycCalls

\* The types of the rows hold after every step.
LEMMA RowTypesStep ==
  ASSUME KycBase, [KycNext]_kycVars
  PROVE  RowTypes'
<1>0. RowTypes
  BY DEF KycBase, KycTypeOK
<1> USE DEF RowTypes, Decide, SetRef, rowVars, profileVars
<1>1. ASSUME NEW s \in Submits, FindProfile(s) \/ FindActive(s) \/ VerifyIdentity(s)
      PROVE  RowTypes'
  BY <1>0, <1>1 DEF FindProfile, FindActive, VerifyIdentity
<1>2. ASSUME NEW s \in Submits, OpenProfile(s) \/ SubmitProfile(s)
      PROVE  RowTypes'
  BY <1>0, <1>2 DEF OpenProfile, SubmitProfile
<1>3. ASSUME NEW s \in Submits, CreateVerification(s)
      PROVE  RowTypes'
  BY <1>0, <1>3 DEF CreateVerification
<1>4. ASSUME NEW s \in Submits, DenyRequest(s)
      PROVE  RowTypes'
  BY <1>0, <1>4 DEF DenyRequest
<1>5. ASSUME NEW s \in Submits, QueueRequest(s)
      PROVE  RowTypes'
  BY <1>0, <1>5 DEF QueueRequest
<1>6. ASSUME NEW c \in KycCalls, ReadForReview(c) \/ Receive(c) \/ LookAtProfile(c) \/ FindOpen(c)
                                   \/ KycStop(c)
      PROVE  RowTypes'
  BY <1>0, <1>6 DEF ReadForReview, Receive, LookAtProfile, FindOpen, KycStop
<1>7. ASSUME NEW c \in Reviewings \cup Deliveries, DecideRequest(c)
      PROVE  RowTypes'
  <2>1. about[c] \in Submits /\ Begun(c) /\ c \in KycCalls
    BY <1>7, WhoCalls DEF DecideRequest, AtKyc, Begun, KycBase, RowsAreSubmitted
  <2>2. /\ Decision(c) \in {"IN_REVIEW", "APPROVED", "REJECTED", "RENEWAL_REQUIRED", "CANCELLED"}
        /\ SeenAfter(c) \in SUBSET Events
    BY <1>7, <2>1, DecisionTyped, SeenAfterTyped DEF DecideRequest
  <2>3. c \in Deliveries => event[c].session \in Submits
    BY <2>1 DEF KycBase, InputsAreRead, Events
  <2>4. ref' \in [Submits -> Submits \cup {Nothing}]
    BY <1>0, <1>7, <2>1, <2>3 DEF DecideRequest
  <2> QED
    BY <1>0, <1>7, <2>1, <2>2, <2>4 DEF DecideRequest
<1>8. ASSUME NEW c \in Reviewings \cup Deliveries, DecideProfile(c)
      PROVE  RowTypes'
  <2>1. about[c] \in Submits /\ Begun(c) /\ c \in KycCalls
    BY <1>8, WhoCalls DEF DecideProfile, AtKyc, Begun, KycBase, RowsAreSubmitted
  <2>2. c \in Reviewings \/ event[c].type # "canceled"
    BY <1>8 DEF DecideProfile, AtKyc, KycBase, InputsAreRead
  <2> QED
    BY <1>0, <1>8, <2>1, <2>2, DecisionTyped DEF DecideProfile
<1>9. ASSUME NEW c \in Reviewings \cup Deliveries, CloseSuperseded(c)
      PROVE  RowTypes'
  BY <1>0, <1>9, WhoCalls DEF CloseSuperseded, KycBase, KycTypeOK, CallTypes
<1>10. CASE UNCHANGED kycVars
  BY <1>0, <1>10 DEF kycVars
<1> HIDE DEF RowTypes, Decide, SetRef, rowVars, profileVars
<1> QED
  BY <1>1, <1>2, <1>3, <1>4, <1>5, <1>6, <1>7, <1>8, <1>9, <1>10, WhoCalls
     DEF KycNext, KycArrive, KycProceed, SubmitStep, DecisionStep

\* The types of the calls hold after every step.
LEMMA CallTypesStep ==
  ASSUME KycBase, [KycNext]_kycVars
  PROVE  CallTypes'
<1>0. CallTypes /\ RowTypes
  BY DEF KycBase, KycTypeOK
<1> USE WhoCalls DEF CallTypes, KycGoto, KycEnds, callVars
<1>1. ASSUME NEW s \in Submits, FindProfile(s)
      PROVE  CallTypes'
  BY <1>0, <1>1 DEF FindProfile, KycBegin
<1>2. ASSUME NEW s \in Submits, OpenProfile(s) \/ FindActive(s) \/ CreateVerification(s)
                               \/ VerifyIdentity(s) \/ QueueRequest(s) \/ SubmitProfile(s)
      PROVE  CallTypes'
  BY <1>0, <1>2 DEF OpenProfile, FindActive, CreateVerification, VerifyIdentity, QueueRequest,
                    SubmitProfile
<1>3. ASSUME NEW s \in Submits, DenyRequest(s)
      PROVE  CallTypes'
  BY <1>0, <1>3 DEF DenyRequest
<1>4. ASSUME NEW r \in Reviewings, ReadForReview(r)
      PROVE  CallTypes'
  BY <1>0, <1>4 DEF ReadForReview, KycBegin, RowTypes
<1>5. ASSUME NEW d \in Deliveries, Receive(d)
      PROVE  CallTypes'
  <2>1. kpc' \in [KycCalls -> {"idle", "open", "active", "create", "identity", "tail", "deny",
                              "write", "profile", "look", "find", "close"} \cup KycEnds]
    BY <1>0, <1>5 DEF Receive
  <2>2. about' \in [KycCalls -> Submits \cup {Nothing}]
    BY <1>0, <1>5, NewestIsRequest DEF Receive
  <2>3. event' \in [Deliveries -> Events \cup {NoEvent}]
    BY <1>0, <1>5 DEF Receive
  <2>4. copy' \in [KycCalls -> [Submits -> SUBSET Events]] /\ before' \in [KycCalls -> SUBSET KycCalls]
    BY <1>0, <1>5 DEF Receive, KycBegin, RowTypes
  <2> QED
    BY <1>0, <1>5, <2>1, <2>2, <2>3, <2>4 DEF Receive
<1>6. ASSUME NEW c \in Reviewings \cup Deliveries, DecideRequest(c)
      PROVE  CallTypes'
  BY <1>0, <1>6 DEF DecideRequest
<1>7. ASSUME NEW c \in Reviewings \cup Deliveries, DecideProfile(c) \/ LookAtProfile(c)
      PROVE  CallTypes'
  BY <1>0, <1>7 DEF DecideProfile, LookAtProfile
<1>8. ASSUME NEW c \in Reviewings \cup Deliveries, FindOpen(c)
      PROVE  CallTypes'
  BY <1>0, <1>8 DEF FindOpen, RowTypes
<1>9. ASSUME NEW c \in Reviewings \cup Deliveries, CloseSuperseded(c)
      PROVE  CallTypes'
  BY <1>0, <1>9 DEF CloseSuperseded
<1>10. ASSUME NEW c \in KycCalls, KycStop(c)
      PROVE  CallTypes'
  BY <1>0, <1>10 DEF KycStop
<1>11. CASE UNCHANGED kycVars
  BY <1>0, <1>11 DEF kycVars
<1> HIDE DEF CallTypes, KycGoto, KycEnds, callVars
<1> QED
  BY <1>1, <1>2, <1>3, <1>4, <1>5, <1>6, <1>7, <1>8, <1>9, <1>10, <1>11
     DEF KycNext, KycArrive, KycProceed, SubmitStep, DecisionStep

\* A call arrives at a request that is there.
LEMMA ArrivesAtRequest ==
  ASSUME KycBase, NEW c \in Reviewings \cup Deliveries, ReadForReview(c) \/ Receive(c)
  PROVE  /\ ~ Begun(c)
         /\ about'[c] = Nothing \/ (about'[c] \in Submits /\ request[about'[c]] # "none")
         /\ kpc'[c] = "write" => about'[c] \in Submits
         /\ kpc'[c] \in {"write", "refused", "duplicate"}
<1>0. about \in [KycCalls -> Submits \cup {Nothing}] /\ c \in KycCalls
      /\ kpc \in [KycCalls -> {"idle", "open", "active", "create", "identity", "tail", "deny",
                              "write", "profile", "look", "find", "close"} \cup KycEnds]
  BY WhoCalls DEF KycBase, KycTypeOK, CallTypes
<1>1. CASE ReadForReview(c)
  BY <1>0, <1>1 DEF ReadForReview, KycGoto, AtKyc, Begun
<1>2. CASE Receive(c)
  <2>1. ~ Begun(c) /\ about[c] = Nothing
    BY <1>2 DEF Receive, AtKyc, Begun, KycBase, RowsAreSubmitted
  <2> QED
    BY <1>0, <1>2, <2>1, NewestIsRequest DEF Receive, KycGoto
<1> QED
  BY <1>1, <1>2

\* A step moves one call that has not ended, and changes what belongs to it.
Moves(x) ==
  /\ ~ Ended(x)
  /\ kpc'[x] # "idle"
  /\ \A c \in KycCalls \ {x} : /\ kpc'[c] = kpc[c] /\ about'[c] = about[c]
                               /\ todo'[c] = todo[c] /\ copy'[c] = copy[c]
  /\ \A c \in Reviewings \ {x} : deed'[c] = deed[c]
  /\ \A c \in Deliveries \ {x} : event'[c] = event[c]

\* It arrives, ...
Arrives(x) ==
  /\ ~ Begun(x)
  /\ before' = [before EXCEPT ![x] = {c \in KycCalls : Ended(c)}]
  /\ written' = written /\ todo' = todo
  /\ x \in Deliveries => event'[x] \in Events
  /\ x \in Reviewings => deed'[x] \in Deeds
  /\ x \in Submits => about' = about /\ kpc'[x] \in {"open", "active", "refused"}
  /\ x \in Deliveries /\ about'[x] \in Submits /\ event'[x] \in seen[about'[x]] =>
       kpc'[x] = "duplicate"
  /\ x \notin Submits =>
       /\ copy'[x] = seen
       /\ about'[x] = Nothing \/ (about'[x] \in Submits /\ request[about'[x]] # "none")
       /\ kpc'[x] = "write" => about'[x] \in Submits
       /\ kpc'[x] \in {"write", "refused", "duplicate"}

\* ... or goes on, with the input and the order it has.
GoesOn(x) ==
  /\ Begun(x)
  /\ before' = before /\ about' = about /\ deed' = deed /\ event' = event
  /\ kpc[x] \in {"profile", "look", "find", "close"} =>
       kpc'[x] \in {"look", "find", "close", "done", "stopped"}
  /\ x \notin Submits /\ kpc'[x] \in {"write", "profile", "look", "find", "close"} =>
       kpc[x] \in {"write", "profile", "look", "find", "close"}
  /\ kpc'[x] \in {"look", "find", "close"} =>
       x \notin Submits /\ (Approves(x) \/ kpc[x] \in {"look", "find", "close"})
  /\ x \in Deliveries /\ kpc'[x] = "profile" => event[x].type \in {"verified", "requires_input"}
  /\ about[x] \notin todo[x] => about[x] \notin todo'[x]
  /\ copy'[x] \in {copy[x], seen}
  /\ x \notin Submits /\ kpc'[x] \in {"profile", "look", "find", "close"} =>
       x \in written' \/ kpc[x] \in {"profile", "look", "find", "close"}
  /\ \/ written' = written
     \/ /\ kpc[x] = "write" \/ (x \in Submits /\ kpc[x] = "deny")
        /\ kpc'[x] \in {"profile", "done"}
        /\ written' = written \cup {x}
        /\ x \in Deliveries => event[x] \in seen'[about[x]]

OneMoves(x) == Moves(x) /\ (Arrives(x) \/ GoesOn(x))

LEMMA StepMovesOne ==
  ASSUME KycBase, KycNext
  PROVE  \E x \in KycCalls : OneMoves(x)
<1>0. CallTypes
  BY DEF KycBase, KycTypeOK
<1> USE <1>0, WhoCalls DEF CallTypes, OneMoves, Moves, Arrives, GoesOn, KycGoto, AtKyc, KycEnds,
       callVars, Begun, Ended
<1>1. ASSUME NEW s \in Submits, FindProfile(s)
      PROVE  OneMoves(s)
  BY <1>1, KycCallsAreDistinct DEF FindProfile, KycBegin
<1>2. ASSUME NEW s \in Submits, OpenProfile(s) \/ FindActive(s) \/ CreateVerification(s)
      PROVE  OneMoves(s)
  BY <1>2, KycCallsAreDistinct DEF OpenProfile, FindActive, CreateVerification
<1>3. ASSUME NEW s \in Submits, VerifyIdentity(s) \/ QueueRequest(s) \/ SubmitProfile(s)
      PROVE  OneMoves(s)
  BY <1>3, KycCallsAreDistinct DEF VerifyIdentity, QueueRequest, SubmitProfile
<1>4. ASSUME NEW s \in Submits, DenyRequest(s)
      PROVE  OneMoves(s)
  BY <1>4, KycCallsAreDistinct DEF DenyRequest
<1>5. ASSUME NEW r \in Reviewings, ReadForReview(r)
      PROVE  OneMoves(r)
  BY <1>5, ArrivesAtRequest, KycCallsAreDistinct DEF ReadForReview, KycBegin
<1>6. ASSUME NEW d \in Deliveries, Receive(d)
      PROVE  OneMoves(d)
  <2>1. Moves(d)
    BY <1>6, ArrivesAtRequest DEF Receive
  <2>2. before' = [before EXCEPT ![d] = {c \in KycCalls : Ended(c)}] /\ written' = written
    BY <1>6 DEF Receive, KycBegin
  <2>3. d \notin Submits /\ d \notin Reviewings
    BY KycCallsAreDistinct
  <2>4. event'[d] \in Events /\ todo' = todo /\ copy'[d] = seen
    BY <1>6 DEF Receive
  <2>6. about'[d] \in Submits /\ event'[d] \in seen[about'[d]] => kpc'[d] = "duplicate"
    <3>1. about[d] = Nothing
      BY <1>6 DEF Receive, KycBase, RowsAreSubmitted
    <3> QED
      BY <1>6, <3>1, KycCallsAreDistinct DEF Receive
  <2>5. Arrives(d)
    BY <1>6, <2>2, <2>3, <2>4, <2>6, ArrivesAtRequest
  <2> QED
    BY <2>1, <2>5
<1>7. ASSUME NEW c \in Reviewings \cup Deliveries, DecideRequest(c)
      PROVE  OneMoves(c)
  <2>1. c \in Deliveries => event[c] \in Events
    BY <1>7 DEF DecideRequest, KycBase, InputsAreRead
  <2>2. c \notin Submits
    BY KycCallsAreDistinct
  <2>3. c \in Deliveries => event[c] \in seen'[about[c]]
    <3>1. about[c] \in Submits
      BY <1>7 DEF DecideRequest, KycBase, RowsAreSubmitted
    <3> QED
      BY <1>7, <3>1 DEF DecideRequest, SeenAfter, KycBase, KycTypeOK, RowTypes
  <2> QED
    BY <1>7, <2>1, <2>2, <2>3 DEF DecideRequest, Events
<1>8. ASSUME NEW c \in Reviewings \cup Deliveries, DecideProfile(c) \/ LookAtProfile(c)
      PROVE  OneMoves(c)
  BY <1>8, KycCallsAreDistinct DEF DecideProfile, LookAtProfile
<1>9. ASSUME NEW c \in Reviewings \cup Deliveries, FindOpen(c) \/ CloseSuperseded(c)
      PROVE  OneMoves(c)
  BY <1>9, KycCallsAreDistinct DEF FindOpen, CloseSuperseded
<1>10. ASSUME NEW c \in KycCalls, KycStop(c)
       PROVE  OneMoves(c)
  BY <1>10 DEF KycStop
<1> HIDE DEF CallTypes, OneMoves, Moves, Arrives, GoesOn, KycGoto, AtKyc, KycEnds, callVars,
       Begun, Ended
<1> QED
  BY <1>1, <1>2, <1>3, <1>4, <1>5, <1>6, <1>7, <1>8, <1>9, <1>10
     DEF KycNext, KycArrive, KycProceed, SubmitStep, DecisionStep

\* The order of the calls is kept.
LEMMA CallsInOrderStep ==
  ASSUME KycBase, [KycNext]_kycVars
  PROVE  CallsInOrder'
<1>1. ASSUME NEW x \in KycCalls, OneMoves(x)
      PROVE  CallsInOrder'
  <2>0. CallTypes /\ CallsInOrder
    BY DEF KycBase, KycTypeOK
  <2>1. \A d \in KycCalls : Ended(d) => Ended(d)'
    BY <1>1 DEF OneMoves, Moves, Ended
  <2>2. \A c, d \in KycCalls : d \in before'[c] => d \in before[c] \/ Ended(d)
    <3>1. CASE Arrives(x)
      BY <3>1, <2>0 DEF Arrives, CallTypes
    <3>2. CASE GoesOn(x)
      BY <3>2 DEF GoesOn
    <3> QED
      BY <1>1, <3>1, <3>2 DEF OneMoves
  <2>3. \A c, d \in KycCalls : d \in before'[c] => Ended(d)'
    BY <2>0, <2>1, <2>2 DEF CallsInOrder
  <2>4. written \subseteq KycCalls
    BY <2>0 DEF CallTypes
  <2>5. ASSUME NEW c \in written'
        PROVE  kpc'[c] \notin {"idle", "open", "active", "create", "identity", "tail", "deny",
                               "write", "refused", "duplicate"}
    <3>1. CASE c \in written /\ c # x
      BY <1>1, <2>0, <2>4, <3>1 DEF OneMoves, Moves, CallsInOrder
    <3>2. CASE c \in written /\ c = x
      <4>1. kpc[x] \in {"profile", "look", "find", "close"}
        BY <1>1, <2>0, <2>4, <3>2 DEF OneMoves, Moves, CallsInOrder, CallTypes, Ended, KycEnds
      <4> QED
        BY <1>1, <3>2, <4>1 DEF OneMoves, Arrives, GoesOn, Begun
    <3>3. CASE c \notin written
      BY <1>1, <2>5, <3>3 DEF OneMoves, Arrives, GoesOn
    <3> QED
      BY <3>1, <3>2, <3>3
  <2> QED
    BY <2>3, <2>5 DEF CallsInOrder
<1>2. CASE UNCHANGED kycVars
  BY <1>2 DEF KycBase, CallsInOrder, kycVars, callVars, Ended
<1> QED
  BY <1>1, <1>2, StepMovesOne

\* Rows and what is to be closed belong to submissions that have begun.
LEMMA RequestsBegun ==
  ASSUME KycBase, KycNext, NEW q \in Submits
  PROVE  /\ request'[q] # "none" => Begun(q)'
         /\ \A c \in KycCalls : q \in todo'[c] => Begun(q)'
<1>0. request \in [Submits -> {"none", "SUBMITTED", "IN_REVIEW", "APPROVED", "REJECTED",
                              "RENEWAL_REQUIRED", "CANCELLED"}]
      /\ todo \in [KycCalls -> SUBSET Submits]
  BY DEF KycBase, KycTypeOK, RowTypes, CallTypes
<1>1. Begun(q) => Begun(q)'
  BY StepMovesOne, WhoCalls DEF OneMoves, Moves, Begun
<1>2. /\ request[q] # "none" => Begun(q)
      /\ \A c \in KycCalls : q \in todo[c] => Begun(q)
      /\ \A c \in Reviewings \cup Deliveries : about[c] = q => Begun(q)
  BY WhoCalls, KycCallsAreDistinct DEF KycBase, RowsAreSubmitted
<1> USE <1>0, <1>1, <1>2, WhoCalls DEF Decide, callVars, rowVars
<1>3. ASSUME NEW s \in Submits, FindProfile(s) \/ SubmitStep(s)
      PROVE  todo' = todo /\ (request' = request \/ \E t : request' = [request EXCEPT ![s] = t] /\ Begun(s))
  BY <1>3 DEF FindProfile, SubmitStep, OpenProfile, FindActive, CreateVerification, VerifyIdentity,
              DenyRequest, QueueRequest, SubmitProfile, AtKyc, Begun
<1>4. ASSUME NEW c \in KycCalls, \/ ReadForReview(c) \/ Receive(c) \/ DecideProfile(c)
                                  \/ LookAtProfile(c) \/ KycStop(c)
      PROVE  todo' = todo /\ request' = request
  BY <1>4 DEF ReadForReview, Receive, DecideProfile, LookAtProfile, KycStop
<1>5. ASSUME NEW c \in Reviewings \cup Deliveries, DecideRequest(c)
      PROVE  todo' = todo /\ \E t : request' = [request EXCEPT ![about[c]] = t]
  BY <1>5 DEF DecideRequest
<1>6. ASSUME NEW c \in Reviewings \cup Deliveries, FindOpen(c)
      PROVE  request' = request /\ \A d \in KycCalls : q \in todo'[d] => q \in todo[d] \/ request[q] \in Open
  BY <1>6 DEF FindOpen
<1>7. ASSUME NEW c \in Reviewings \cup Deliveries, CloseSuperseded(c)
      PROVE  \E p \in todo[c] : /\ request' = [request EXCEPT ![p] = "CANCELLED"]
                               /\ todo' = [todo EXCEPT ![c] = @ \ {p}]
  BY <1>7 DEF CloseSuperseded
<1>8. ASSUME NEW s \in Submits, FindProfile(s) \/ SubmitStep(s)
      PROVE  /\ request'[q] # "none" => Begun(q)'
             /\ \A c \in KycCalls : q \in todo'[c] => Begun(q)'
  BY <1>3, <1>8
<1>9. ASSUME NEW c \in Reviewings \cup Deliveries, DecideRequest(c) \/ FindOpen(c) \/ CloseSuperseded(c)
      PROVE  /\ request'[q] # "none" => Begun(q)'
             /\ \A d \in KycCalls : q \in todo'[d] => Begun(q)'
  <2>1. CASE DecideRequest(c)
    BY <1>5, <2>1
  <2>2. CASE FindOpen(c)
    BY <1>6, <2>2 DEF Open
  <2>3. CASE CloseSuperseded(c)
    BY <1>7, <2>3
  <2> QED
    BY <1>9, <2>1, <2>2, <2>3
<1> QED
  BY <1>4, <1>8, <1>9 DEF KycNext, KycArrive, KycProceed, DecisionStep

\* Who decides a row began after its submission did.
LEMMA RowsAreSubmittedStep ==
  ASSUME KycBase, [KycNext]_kycVars
  PROVE  RowsAreSubmitted'
<1>0. CallTypes /\ RowsAreSubmitted /\ CallsInOrder
  BY DEF KycBase, KycTypeOK
<1>1. CASE UNCHANGED kycVars
  BY <1>0, <1>1 DEF RowsAreSubmitted, kycVars, callVars, rowVars, Begun
<1>2. CASE KycNext
  <2>1. PICK x \in KycCalls : OneMoves(x)
    BY <1>2, StepMovesOne
  <2>2. \A q \in Submits : Begun(q) => Begun(q)' /\ before'[q] = before[q]
    BY <1>0, <2>1, WhoCalls DEF OneMoves, Moves, Arrives, GoesOn, Begun, CallTypes
  <2>3. \A s \in Submits : about'[s] = s
    BY <1>0, <2>1, WhoCalls DEF OneMoves, Moves, Arrives, GoesOn, RowsAreSubmitted
  <2>4. ASSUME NEW c \in Reviewings \cup Deliveries
        PROVE  /\ about'[c] # Nothing => Begun(about[c])' /\ c \notin before'[about'[c]]
               /\ ~ Begun(c)' => about'[c] = Nothing
               /\ kpc'[c] \in {"write", "profile", "look", "find", "close"} => about'[c] \in Submits
    <3>1. about[c] \in Submits \cup {Nothing} /\ c \in KycCalls /\ c \notin Submits
      BY <1>0, WhoCalls, KycCallsAreDistinct DEF CallTypes
    <3>5. /\ about[c] # Nothing => Begun(about[c]) /\ c \notin before[about[c]]
          /\ ~ Begun(c) => about[c] = Nothing
          /\ kpc[c] \in {"write", "profile", "look", "find", "close"} => about[c] \in Submits
      BY <1>0 DEF RowsAreSubmitted
    <3>6. kpc'[x] # "idle"
      BY <2>1 DEF OneMoves, Moves
    <3>2. CASE c # x
      <4>1. about'[c] = about[c] /\ kpc'[c] = kpc[c]
        BY <2>1, <3>1, <3>2 DEF OneMoves, Moves
      <4> QED
        BY <1>0, <2>2, <3>1, <3>5, <4>1 DEF Begun
    <3>3. CASE c = x /\ GoesOn(x)
      BY <1>0, <2>2, <3>1, <3>3, <3>5, <3>6 DEF GoesOn, Begun
    <3>4. CASE c = x /\ Arrives(x)
      <4>1. about'[c] = Nothing \/ (about'[c] \in Submits /\ kpc[about'[c]] # "idle")
        BY <1>0, <3>1, <3>4 DEF Arrives, RowsAreSubmitted, Begun
      <4>2. \A d \in KycCalls : c \notin before[d]
        BY <1>0, <2>1, <3>1, <3>4 DEF OneMoves, Moves, CallsInOrder
      <4>3. kpc'[c] \in {"write", "profile", "look", "find", "close"} => about'[c] \in Submits
        BY <3>1, <3>4 DEF Arrives
      <4> QED
        BY <2>2, <3>1, <3>4, <3>6, <4>1, <4>2, <4>3, WhoCalls DEF Begun
    <3> QED
      BY <2>1, <3>2, <3>3, <3>4 DEF OneMoves
  <2>5. /\ \A q \in Submits : request'[q] # "none" => Begun(q)'
        /\ \A c \in KycCalls : \A q \in todo'[c] : Begun(q)'
    <3>1. \A c \in KycCalls : todo'[c] \subseteq Submits
      BY CallTypesStep DEF CallTypes
    <3> QED
      BY <1>2, <3>1, RequestsBegun
  <2> QED
    BY <2>3, <2>4, <2>5 DEF RowsAreSubmitted, Begun
<1> QED
  BY <1>1, <1>2


\* A call is only ever in the steps of what it is, and keeps the input it has read.
LEMMA StepsAreOwnStep ==
  ASSUME KycBase, [KycNext]_kycVars
  PROVE  StepsAreOwn' /\ InputsAreRead'
<1>0. CallTypes /\ CallsInOrder /\ StepsAreOwn /\ RowsAreSubmitted /\ InputsAreRead
  BY DEF KycBase, KycTypeOK
<1>1. CASE UNCHANGED kycVars
  BY <1>0, <1>1 DEF StepsAreOwn, InputsAreRead, kycVars, callVars, Approves, Begun
<1>2. CASE KycNext
  <2>1. PICK x \in KycCalls : OneMoves(x)
    BY <1>2, StepMovesOne
  <2>2. ASSUME NEW c \in KycCalls, c # x
        PROVE  /\ kpc'[c] = kpc[c] /\ about'[c] = about[c] /\ todo'[c] = todo[c]
               /\ Approves(c) => Approves(c)'
    BY <2>1, <2>2 DEF OneMoves, Moves, Approves
  <2>3. x \in Submits => x \notin Reviewings /\ x \notin Deliveries
    BY KycCallsAreDistinct
  <2>4. kpc'[x] \in {"look", "find", "close"} => x \notin Submits /\ Approves(x)'
    BY <1>0, <2>1, WhoCalls DEF OneMoves, Arrives, GoesOn, StepsAreOwn, Approves
  <2>5. about'[x] \notin todo'[x] /\ kpc'[x] # "idle"
    BY <1>0, <2>1 DEF OneMoves, Moves, Arrives, GoesOn, StepsAreOwn
  <2>6. ASSUME NEW c \in written', c \notin Submits
        PROVE  about'[c] \in Submits
    <3>1. CASE c \in written
      <4>1. c \in KycCalls /\ about[c] \in Submits /\ Begun(c)
        BY <1>0, <2>6, <3>1 DEF StepsAreOwn, CallTypes, CallsInOrder, Begun
      <4> QED
        BY <2>1, <2>2, <4>1 DEF OneMoves, Arrives, GoesOn
    <3>2. CASE c \notin written
      <4>1. c = x /\ GoesOn(x) /\ kpc[x] = "write"
        BY <2>1, <2>6, <3>2 DEF OneMoves, Arrives, GoesOn
      <4> QED
        BY <1>0, <2>6, <4>1, WhoCalls DEF GoesOn, RowsAreSubmitted
    <3> QED
      BY <3>1, <3>2
  <2>7. \A c \in KycCalls \ Submits :
          kpc'[c] \in {"profile", "look", "find", "close"} => c \in written'
    BY <1>0, <2>1, <2>2 DEF OneMoves, Arrives, GoesOn, StepsAreOwn
  <2>8. StepsAreOwn'
    BY <1>0, <2>2, <2>4, <2>5, <2>6, <2>7 DEF StepsAreOwn, Begun
  <2>9. InputsAreRead'
    BY <1>0, <2>1, <2>5, WhoCalls DEF OneMoves, Moves, Arrives, GoesOn, InputsAreRead, Begun
  <2> QED
    BY <2>8, <2>9
<1> QED
  BY <1>1, <1>2

\* The base is inductive.
LEMMA KycBaseStep ==
  ASSUME KycBase, [KycNext]_kycVars
  PROVE  KycBase'
<1>1. RowTypes' /\ CallTypes'
  BY RowTypesStep, CallTypesStep
<1>2. CallsInOrder' /\ RowsAreSubmitted' /\ StepsAreOwn' /\ InputsAreRead'
  BY CallsInOrderStep, RowsAreSubmittedStep, StepsAreOwnStep
<1> QED
  BY <1>1, <1>2 DEF KycBase, KycTypeOK

-----------------------------------------------------------------------------
(* A rejection reaches the profile. *)

\* An approved profile has the level of a request that an approval has decided, and
\* no rejection that has ended began after that approval did.
GrantIsApproval ==
  profile = "APPROVED" =>
    \E a \in written :
      /\ Approves(a) /\ about[a] = granted
      /\ \A c \in written : Rejects(c) /\ kpc[c] = "done" => a \notin before[c]

\* A rejected request has been rejected by a call that no approval of it began after.
RejectionIsLast ==
  \A q \in Submits : request[q] = "REJECTED" =>
    \E c \in written :
      /\ Rejects(c) /\ about[c] = q
      /\ \A a \in written : Approves(a) /\ about[a] = q => c \notin before[a]

KycInv == KycBase /\ GrantIsApproval /\ RejectionIsLast

\* A call that has begun keeps what it is, whom it is about and the order.
LEMMA BegunKeep ==
  ASSUME KycBase, [KycNext]_kycVars, NEW c \in KycCalls, Begun(c)
  PROVE  /\ Begun(c)' /\ about'[c] = about[c] /\ before'[c] = before[c]
         /\ c \in Reviewings => deed'[c] = deed[c]
         /\ c \in Deliveries => event'[c] = event[c]
<1>0. CallTypes
  BY DEF KycBase, KycTypeOK
<1>1. CASE UNCHANGED kycVars
  BY <1>1 DEF kycVars, callVars, Begun
<1>2. CASE KycNext
  <2>1. PICK x \in KycCalls : OneMoves(x)
    BY <1>2, StepMovesOne
  <2>2. CASE c = x
    BY <2>1, <2>2 DEF OneMoves, Moves, Arrives, GoesOn, Begun
  <2>3. CASE c # x
    <3>1. before'[c] = before[c]
      BY <1>0, <2>1, <2>3 DEF OneMoves, Arrives, GoesOn, CallTypes
    <3> QED
      BY <2>1, <2>3, <3>1 DEF OneMoves, Moves, Begun
  <2> QED
    BY <2>2, <2>3
<1> QED
  BY <1>1, <1>2

\* So does a call that has decided, and it stays one.
LEMMA DecidedKeep ==
  ASSUME KycBase, [KycNext]_kycVars, NEW c \in written
  PROVE  /\ c \in written' /\ c \in KycCalls /\ Begun(c)
         /\ about'[c] = about[c] /\ before'[c] = before[c]
         /\ Approves(c)' <=> Approves(c)
         /\ Rejects(c)' <=> Rejects(c)
<1>1. c \in KycCalls /\ Begun(c)
  BY DEF KycBase, KycTypeOK, CallTypes, CallsInOrder, Begun
<1>2. c \in written'
  BY StepMovesOne DEF OneMoves, Arrives, GoesOn, kycVars, callVars
<1> QED
  BY <1>1, <1>2, BegunKeep DEF Approves, Rejects

\* A decision of APPROVED is an approval's, and one of REJECTED a rejection's.
LEMMA DecisionSays ==
  ASSUME KycBase, NEW c \in Reviewings \cup Deliveries, Begun(c)
  PROVE  /\ Decision(c) = "APPROVED" <=> Approves(c)
         /\ Decision(c) = "REJECTED" => Rejects(c)
         /\ ~ (Approves(c) /\ Rejects(c))
<1>0. c \notin Submits
  BY KycCallsAreDistinct
<1>1. CASE c \in Reviewings
  <2>1. deed[c] \in Deeds /\ c \notin Deliveries
    BY <1>1, KycCallsAreDistinct DEF KycBase, InputsAreRead
  <2> QED
    BY <1>0, <1>1, <2>1 DEF Decision, Deeds, Approves, Rejects
<1>2. CASE c \in Deliveries
  <2>1. event[c].type \in {"verified", "requires_input", "canceled", "processing"}
    BY <1>2 DEF KycBase, InputsAreRead, Events
  <2>2. c \notin Reviewings
    BY <1>2, KycCallsAreDistinct
  <2> QED
    BY <1>0, <1>2, <2>1, <2>2 DEF Decision, Approves, Rejects
<1> QED
  BY <1>1, <1>2

\* What can be APPROVED after a step: what an approval writes; or what was, and then
\* no rejection ends in the step.
ProfileKept ==
  \/ profile' # "APPROVED"
  \/ \E c \in written : /\ Approves(c) /\ ~ Ended(c) /\ c \notin Submits
                        /\ granted' = about[c] /\ written' = written /\ kpc'[c] = "look"
                        /\ \A d \in KycCalls \ {c} : kpc'[d] = kpc[d]
  \/ /\ profile' = profile /\ granted' = granted
     /\ \A c \in written' : Rejects(c)' /\ kpc'[c] = "done" => c \in written /\ kpc[c] = "done"

LEMMA ProfileChanges ==
  ASSUME KycBase, [KycNext]_kycVars
  PROVE  ProfileKept
<1>0. CallTypes /\ CallsInOrder /\ StepsAreOwn /\ RowsAreSubmitted
  BY DEF KycBase, KycTypeOK
<1>1. CASE UNCHANGED kycVars
  BY <1>1 DEF kycVars, profileVars, callVars, ProfileKept, Rejects
<1> USE <1>0, WhoCalls DEF CallTypes, KycGoto, AtKyc, profileVars, callVars
<1>2. ASSUME NEW s \in Submits, FindProfile(s) \/ FindActive(s)
      PROVE  ProfileKept
  <2>1. /\ kpc'[s] # "done" /\ profile' = profile /\ granted' = granted /\ written' = written
        /\ \A c \in KycCalls \ {s} : kpc'[c] = kpc[c]
    BY <1>2 DEF FindProfile, FindActive
  <2> QED
    BY <2>1 DEF ProfileKept
<1>3. ASSUME NEW s \in Submits, CreateVerification(s) \/ VerifyIdentity(s) \/ QueueRequest(s)
      PROVE  ProfileKept
  <2>1. /\ kpc'[s] # "done" /\ profile' = profile /\ granted' = granted /\ written' = written
        /\ \A c \in KycCalls \ {s} : kpc'[c] = kpc[c]
    BY <1>3 DEF CreateVerification, VerifyIdentity, QueueRequest
  <2> QED
    BY <2>1 DEF ProfileKept
<1>4. ASSUME NEW s \in Submits, DenyRequest(s)
      PROVE  ProfileKept
  <2>1. /\ kpc'[s] # "done" /\ profile' = profile /\ granted' = granted
        /\ written' = written \cup {s}
        /\ \A c \in KycCalls \ {s} : kpc'[c] = kpc[c]
    BY <1>4 DEF DenyRequest
  <2> QED
    BY <2>1 DEF ProfileKept
<1>5. ASSUME NEW s \in Submits, OpenProfile(s) \/ SubmitProfile(s)
      PROVE  ProfileKept
  <2>1. CASE profile' # "APPROVED"
    BY <2>1 DEF ProfileKept
  <2>2. CASE profile' = "APPROVED"
    <3>1. /\ kpc'[s] # "done" /\ profile' = profile /\ granted' = granted /\ written' = written
          /\ \A c \in KycCalls \ {s} : kpc'[c] = kpc[c]
      BY <1>5, <2>2 DEF OpenProfile, SubmitProfile
    <3> QED
      BY <3>1 DEF ProfileKept
  <2> QED
    BY <2>1, <2>2
<1>6. ASSUME NEW x \in Reviewings \cup Deliveries, ReadForReview(x) \/ Receive(x)
      PROVE  ProfileKept
  <2>1. /\ kpc'[x] # "done" /\ profile' = profile /\ granted' = granted /\ written' = written
        /\ \A c \in KycCalls \ {x} : kpc'[c] = kpc[c]
    BY <1>6 DEF ReadForReview, Receive
  <2> QED
    BY <2>1 DEF ProfileKept
<1>7. ASSUME NEW x \in Reviewings \cup Deliveries, DecideRequest(x)
      PROVE  ProfileKept
  <2>1. /\ profile' = profile /\ granted' = granted /\ written' = written \cup {x}
        /\ kpc'[x] = "done" => x \in Deliveries
        /\ \A c \in KycCalls \ {x} : kpc'[c] = kpc[c]
    BY <1>7 DEF DecideRequest
  <2>2. x \in Deliveries => ~ Rejects(x)'
    BY KycCallsAreDistinct DEF Rejects
  <2> QED
    BY <2>1, <2>2 DEF ProfileKept
<1>8. ASSUME NEW x \in Reviewings \cup Deliveries, DecideProfile(x)
      PROVE  ProfileKept
  <2>0. Begun(x) /\ ~ Ended(x) /\ profile' = Decision(x) /\ x \notin Submits
    BY <1>8, KycCallsAreDistinct DEF DecideProfile, Begun, Ended, KycEnds
  <2>1. CASE ~ Approves(x)
    BY <2>0, <2>1, DecisionSays DEF ProfileKept
  <2>2. CASE Approves(x)
    <3>1. /\ granted' = about[x] /\ written' = written /\ kpc'[x] = "look"
          /\ \A d \in KycCalls \ {x} : kpc'[d] = kpc[d]
      BY <1>8, <2>2 DEF DecideProfile
    <3>2. x \in written
      BY <1>8, <2>0 DEF DecideProfile, StepsAreOwn
    <3> QED
      BY <2>0, <2>2, <3>1, <3>2 DEF ProfileKept
  <2> QED
    BY <2>1, <2>2
<1>9. ASSUME NEW x \in Reviewings \cup Deliveries, LookAtProfile(x) \/ FindOpen(x) \/ CloseSuperseded(x)
      PROVE  ProfileKept
  <2>1. /\ profile' = profile /\ granted' = granted /\ written' = written /\ deed' = deed
        /\ kpc[x] \in {"look", "find", "close"}
        /\ \A c \in KycCalls \ {x} : kpc'[c] = kpc[c]
    BY <1>9 DEF LookAtProfile, FindOpen, CloseSuperseded
  <2>2. Approves(x) /\ Begun(x)
    BY <2>1 DEF StepsAreOwn, Begun
  <2>3. ~ Rejects(x)
    BY <2>2, DecisionSays
  <2>4. ~ Rejects(x)'
    BY <2>1, <2>3 DEF Rejects
  <2> QED
    BY <2>1, <2>4 DEF ProfileKept
<1>10. ASSUME NEW x \in KycCalls, KycStop(x)
       PROVE  ProfileKept
  <2>1. /\ kpc'[x] # "done" /\ profile' = profile /\ granted' = granted /\ written' = written
        /\ \A c \in KycCalls \ {x} : kpc'[c] = kpc[c]
    BY <1>10 DEF KycStop
  <2> QED
    BY <2>1 DEF ProfileKept
<1> HIDE DEF CallTypes, KycGoto, AtKyc, profileVars, callVars
<1> QED
  BY <1>1, <1>2, <1>3, <1>4, <1>5, <1>6, <1>7, <1>8, <1>9, <1>10
     DEF KycNext, KycArrive, KycProceed, SubmitStep, DecisionStep

LEMMA GrantIsApprovalStep ==
  ASSUME KycBase, GrantIsApproval, [KycNext]_kycVars
  PROVE  GrantIsApproval'
<1>0. CallsInOrder /\ CallTypes
  BY DEF KycBase, KycTypeOK
<1>1. CASE profile' # "APPROVED"
  BY <1>1 DEF GrantIsApproval
<1>2. ASSUME NEW a \in written, /\ Approves(a) /\ ~ Ended(a) /\ a \notin Submits
                                /\ granted' = about[a] /\ written' = written
      PROVE  GrantIsApproval'
  <2>1. /\ a \in written' /\ Approves(a)' /\ about'[a] = granted'
    BY <1>2, DecidedKeep
  <2>2. ASSUME NEW c \in written'
        PROVE  a \notin before'[c]
    <3>1. c \in KycCalls /\ a \in KycCalls /\ before'[c] = before[c]
      BY <1>2, <2>2, DecidedKeep
    <3> QED
      BY <1>0, <1>2, <3>1 DEF CallsInOrder
  <2> QED
    BY <2>1, <2>2 DEF GrantIsApproval
<1>3. CASE /\ profile' = profile /\ granted' = granted /\ profile' = "APPROVED"
           /\ \A c \in written' : Rejects(c)' /\ kpc'[c] = "done" => c \in written /\ kpc[c] = "done"
  <2>1. PICK a \in written :
          /\ Approves(a) /\ about[a] = granted
          /\ \A c \in written : Rejects(c) /\ kpc[c] = "done" => a \notin before[c]
    BY <1>3 DEF GrantIsApproval
  <2>2. a \in written' /\ Approves(a)' /\ about'[a] = granted'
    BY <1>3, <2>1, DecidedKeep
  <2>3. ASSUME NEW c \in written', Rejects(c)', kpc'[c] = "done"
        PROVE  a \notin before'[c]
    BY <1>3, <2>1, <2>3, DecidedKeep
  <2> QED
    BY <2>2, <2>3 DEF GrantIsApproval
<1> QED
  BY <1>1, <1>2, <1>3, ProfileChanges DEF ProfileKept

\* What can be REJECTED after a step: what a rejection writes; or what was, and then
\* no approval is written in the step.
RequestKept(q) ==
  \/ request'[q] # "REJECTED"
  \/ \E c \in written' : Rejects(c)' /\ about'[c] = q /\ ~ Ended(c)
  \/ /\ request[q] = "REJECTED"
     /\ \A a \in written' \ written : Approves(a)' => about'[a] # q

LEMMA RequestChanges ==
  ASSUME KycBase, [KycNext]_kycVars, NEW q \in Submits
  PROVE  RequestKept(q)
<1>0. CallTypes /\ RowTypes /\ StepsAreOwn /\ RowsAreSubmitted
  BY DEF KycBase, KycTypeOK
<1>1. CASE UNCHANGED kycVars
  BY <1>1 DEF kycVars, rowVars, callVars, RequestKept
<1> USE <1>0, WhoCalls DEF CallTypes, RowTypes, KycGoto, AtKyc, rowVars, callVars, Decide
<1>2. ASSUME request' = request, written' = written
      PROVE  RequestKept(q)
  BY <1>2 DEF RequestKept
<1>3. ASSUME NEW s \in Submits, CreateVerification(s) \/ QueueRequest(s)
      PROVE  RequestKept(q)
  BY <1>3 DEF CreateVerification, QueueRequest, RequestKept
<1>4. ASSUME NEW s \in Submits, DenyRequest(s)
      PROVE  RequestKept(q)
  <2>1. s \notin Deliveries /\ s \notin Reviewings /\ about[s] = s
    BY KycCallsAreDistinct DEF RowsAreSubmitted
  <2>2. /\ written' = written \cup {s} /\ about' = about /\ ~ Ended(s)
        /\ \A p \in Submits \ {s} : request'[p] = request[p]
    BY <1>4 DEF DenyRequest, Ended, KycEnds
  <2> QED
    BY <2>1, <2>2 DEF RequestKept, Approves, Rejects
<1>5. ASSUME NEW c \in Reviewings \cup Deliveries, DecideRequest(c)
      PROVE  RequestKept(q)
  <2>1. /\ Begun(c) /\ ~ Ended(c) /\ written' = written \cup {c} /\ about' = about
        /\ deed' = deed /\ event' = event
        /\ request' = [request EXCEPT ![about[c]] = Decision(c)]
    BY <1>5 DEF DecideRequest, Begun, Ended, KycEnds
  <2>2. (Approves(c)' <=> Approves(c)) /\ (Rejects(c)' <=> Rejects(c))
    BY <2>1 DEF Approves, Rejects
  <2>3. CASE about[c] = q
    BY <2>1, <2>2, <2>3, DecisionSays DEF RequestKept
  <2>4. CASE about[c] # q
    BY <2>1, <2>4 DEF RequestKept
  <2> QED
    BY <2>3, <2>4
<1>6. ASSUME NEW c \in Reviewings \cup Deliveries, CloseSuperseded(c)
      PROVE  RequestKept(q)
  BY <1>6 DEF CloseSuperseded, RequestKept
<1>7. ASSUME NEW s \in Submits, \/ FindProfile(s) \/ OpenProfile(s) \/ FindActive(s)
                               \/ VerifyIdentity(s) \/ SubmitProfile(s)
      PROVE  request' = request /\ written' = written
  BY <1>7 DEF FindProfile, OpenProfile, FindActive, VerifyIdentity, SubmitProfile
<1>8. ASSUME NEW c \in KycCalls, \/ ReadForReview(c) \/ Receive(c) \/ DecideProfile(c)
                                \/ LookAtProfile(c) \/ FindOpen(c) \/ KycStop(c)
      PROVE  request' = request /\ written' = written
  BY <1>8 DEF ReadForReview, Receive, DecideProfile, LookAtProfile, FindOpen, KycStop
<1> HIDE DEF CallTypes, RowTypes, KycGoto, AtKyc, rowVars, callVars, Decide
<1> QED
  BY <1>1, <1>2, <1>3, <1>4, <1>5, <1>6, <1>7, <1>8
     DEF KycNext, KycArrive, KycProceed, SubmitStep, DecisionStep

LEMMA RejectionIsLastStep ==
  ASSUME KycBase, RejectionIsLast, [KycNext]_kycVars
  PROVE  RejectionIsLast'
<1> SUFFICES ASSUME NEW q \in Submits, request'[q] = "REJECTED"
             PROVE  \E c \in written' :
                      /\ Rejects(c)' /\ about'[c] = q
                      /\ \A a \in written' : Approves(a)' /\ about'[a] = q => c \notin before'[a]
  BY DEF RejectionIsLast
<1>0. CallsInOrder /\ CallTypes /\ CallsInOrder' /\ CallTypes'
  BY KycBaseStep DEF KycBase, KycTypeOK
<1>1. ASSUME NEW c \in written', Rejects(c)', about'[c] = q, ~ Ended(c)
      PROVE  \A a \in written' : c \notin before'[a]
  <2>1. ASSUME NEW a \in written', c \in before'[a]
        PROVE  FALSE
    <3>1. a \in KycCalls /\ c \in KycCalls
      BY <1>0 DEF CallTypes
    <3>2. CASE a \in written
      BY <1>0, <1>1, <2>1, <3>1, <3>2, DecidedKeep DEF CallsInOrder
    <3>3. CASE a \notin written
      <4>1. before' = before
        BY <2>1, <3>3, StepMovesOne DEF OneMoves, Arrives, GoesOn, kycVars, callVars
      <4> QED
        BY <1>0, <1>1, <2>1, <3>1, <4>1 DEF CallsInOrder
    <3> QED
      BY <3>2, <3>3
  <2> QED
    BY <2>1
<1>2. CASE /\ request[q] = "REJECTED"
           /\ \A a \in written' \ written : Approves(a)' => about'[a] # q
  <2>1. PICK c \in written :
          /\ Rejects(c) /\ about[c] = q
          /\ \A a \in written : Approves(a) /\ about[a] = q => c \notin before[a]
    BY <1>2 DEF RejectionIsLast
  <2>2. c \in written' /\ Rejects(c)' /\ about'[c] = q
    BY <2>1, DecidedKeep
  <2>3. ASSUME NEW a \in written', Approves(a)', about'[a] = q
        PROVE  c \notin before'[a]
    <3>1. a \in written
      BY <1>2, <2>3
    <3> QED
      BY <2>1, <2>3, <3>1, DecidedKeep
  <2> QED
    BY <2>2, <2>3
<1> QED
  BY <1>1, <1>2, RequestChanges DEF RequestKept

\* A rejected request is not what approved the profile, unless the rejection is on its
\* way there, stopped, or overlapped an approval (KycService.approve, reject and
\* handleWebhook).
THEOREM RejectionHolds == KycSpec => []RejectionReachesProfile
<1>1. KycInit => KycInv
  <2>1. KycInit => GrantIsApproval /\ RejectionIsLast
    BY DEF KycInit, GrantIsApproval, RejectionIsLast
  <2> QED
    BY <2>1, KycInitOK DEF KycInv
<1>2. KycInv /\ [KycNext]_kycVars => KycInv'
  BY KycBaseStep, GrantIsApprovalStep, RejectionIsLastStep DEF KycInv
<1>3. KycInv => RejectionReachesProfile
  <2> SUFFICES ASSUME KycInv, profile = "APPROVED", granted # Nothing, request[granted] = "REJECTED"
               PROVE  \E c \in written :
                        /\ Rejects(c) /\ about[c] = granted
                        /\ \/ kpc[c] \in {"profile", "stopped"}
                           \/ \E a \in written : Approves(a) /\ about[a] = granted /\ Overlap(a, c)
    BY DEF RejectionReachesProfile
  <2>0. CallTypes /\ RowTypes /\ CallsInOrder /\ StepsAreOwn
    BY DEF KycInv, KycBase, KycTypeOK
  <2>1. PICK a \in written :
          /\ Approves(a) /\ about[a] = granted
          /\ \A c \in written : Rejects(c) /\ kpc[c] = "done" => a \notin before[c]
    BY DEF KycInv, GrantIsApproval
  <2>2. granted \in Submits
    BY <2>0 DEF RowTypes
  <2>3. PICK c \in written :
          /\ Rejects(c) /\ about[c] = granted
          /\ \A b \in written : Approves(b) /\ about[b] = granted => c \notin before[b]
    BY <2>2 DEF KycInv, RejectionIsLast
  <2>4. kpc[c] \in {"profile", "look", "find", "close", "done", "stopped"} /\ c \in KycCalls
    BY <2>0 DEF CallTypes, CallsInOrder, KycEnds
  <2>5. kpc[c] \notin {"look", "find", "close"}
    <3>1. CASE c \in Submits
      BY <2>0, <2>4, <3>1 DEF StepsAreOwn
    <3>2. CASE c \notin Submits
      <4>1. c \in Reviewings \cup Deliveries /\ Begun(c)
        BY <2>4, <3>2, WhoCalls DEF Begun
      <4>2. ~ Approves(c)
        BY <2>3, <4>1, DecisionSays DEF KycInv
      <4> QED
        BY <2>0, <2>4, <4>2 DEF StepsAreOwn
    <3> QED
      BY <3>1, <3>2
  <2>6. kpc[c] = "done" => Overlap(a, c)
    <3>1. Begun(a) /\ Begun(c)
      BY <2>0, <2>4 DEF CallsInOrder, Begun
    <3> QED
      BY <2>1, <2>3, <3>1 DEF Overlap
  <2> QED
    BY <2>1, <2>3, <2>4, <2>5, <2>6
<1> QED
  BY <1>1, <1>2, <1>3, PTL DEF KycSpec

-----------------------------------------------------------------------------
(* A replayed event is refused. *)

\* No call that writes metadata back overlapped delivery d.
Quiet(d) == \A c \in KycCalls \ {d} : Rewrites(c) => ~ Overlap(c, d)

\* The event of a delivery that changed a request stays in the request's metadata, in
\* every copy read since, and every later delivery of it to the request is refused.
Kept(d) ==
  /\ event[d] \in seen[about[d]]
  /\ \A c \in Reviewings \cup Deliveries : d \in before[c] => event[d] \in copy[c][about[d]]
  /\ \A e \in Deliveries :
       d \in before[e] /\ event[e] = event[d] /\ about[e] = about[d] => kpc[e] = "duplicate"

EventIsKept == \A d \in Deliveries \cap written : Quiet(d) => Kept(d)

\* Calls that overlapped have overlapped for good.
LEMMA QuietBefore ==
  ASSUME KycBase, [KycNext]_kycVars, NEW d \in Deliveries, Begun(d), Quiet(d)'
  PROVE  Quiet(d)
<1> SUFFICES ASSUME NEW c \in KycCalls \ {d}, Rewrites(c), Overlap(c, d)
             PROVE  FALSE
  BY DEF Quiet
<1>1. Begun(c) /\ d \in KycCalls
  BY WhoCalls DEF Overlap
<1>2. /\ Begun(c)' /\ before'[c] = before[c] /\ Begun(d)' /\ before'[d] = before[d]
      /\ c \in Reviewings => deed'[c] = deed[c]
  BY <1>1, BegunKeep
<1>3. Overlap(c, d)'
  BY <1>2 DEF Overlap
<1>4. Rewrites(c)'
  BY <1>2, WhoCalls DEF Rewrites
<1> QED
  BY <1>3, <1>4 DEF Quiet

\* A call under way that writes metadata back began after a quiet delivery.
LEMMA QuietIsFirst ==
  ASSUME KycBase, NEW d \in Deliveries, Begun(d), Quiet(d),
         NEW c \in KycCalls \ {d}, Begun(c), ~ Ended(c), Rewrites(c)
  PROVE  d \in before[c]
<1>1. d \in KycCalls
  BY WhoCalls
<1>2. c \notin before[d]
  BY <1>1 DEF KycBase, CallsInOrder
<1> QED
  BY <1>2 DEF Quiet, Overlap

\* The event stays in the request's metadata.
LEMMA EventStays ==
  ASSUME KycBase, EventIsKept, [KycNext]_kycVars, NEW d \in Deliveries \cap written, Quiet(d)
  PROVE  event[d] \in seen'[about[d]]
<1> DEFINE q == about[d]
<1>0. CallTypes /\ RowTypes /\ StepsAreOwn /\ RowsAreSubmitted /\ InputsAreRead
  BY DEF KycBase, KycTypeOK
<1>1. d \in KycCalls /\ Begun(d) /\ q \in Submits /\ d \notin Submits
  BY <1>0, KycCallsAreDistinct, DecidedKeep, WhoCalls DEF StepsAreOwn, KycBase, CallsInOrder, Begun
<1>2. Kept(d)
  BY DEF EventIsKept
<1>3. event[d] \in seen[q]
  BY <1>2 DEF Kept
<1>4. CASE seen' = seen
  BY <1>3, <1>4
<1> USE <1>0, WhoCalls DEF CallTypes, RowTypes, AtKyc
<1>5. ASSUME NEW s \in Submits, QueueRequest(s)
      PROVE  event[d] \in seen'[q]
  <2>1. s # q
    <3>1. Begun(s) /\ ~ Ended(s) /\ Rewrites(s) /\ s # d
      BY <1>1, <1>5 DEF QueueRequest, Begun, Ended, KycEnds, Rewrites
    <3>2. d \in before[s]
      BY <1>1, <3>1, QuietIsFirst
    <3>3. d \notin before[q]
      BY <1>1, KycCallsAreDistinct DEF RowsAreSubmitted, KycBase
    <3> QED
      BY <3>2, <3>3
  <2> QED
    BY <1>1, <1>3, <1>5, <2>1 DEF QueueRequest
<1>6. ASSUME NEW s \in Submits, \/ FindProfile(s) \/ OpenProfile(s) \/ FindActive(s) \/ CreateVerification(s)
                               \/ VerifyIdentity(s) \/ DenyRequest(s) \/ SubmitProfile(s)
      PROVE  seen' = seen
  BY <1>6 DEF FindProfile, OpenProfile, FindActive, CreateVerification, VerifyIdentity,
              DenyRequest, SubmitProfile, rowVars
<1>7. ASSUME NEW c \in KycCalls, \/ ReadForReview(c) \/ Receive(c) \/ DecideProfile(c)
                                \/ LookAtProfile(c) \/ FindOpen(c) \/ KycStop(c)
      PROVE  seen' = seen
  BY <1>7 DEF ReadForReview, Receive, DecideProfile, LookAtProfile, FindOpen, KycStop, rowVars
<1>8. ASSUME NEW c \in Reviewings \cup Deliveries, DecideRequest(c)
      PROVE  event[d] \in seen'[q]
  <2>1. seen' = [seen EXCEPT ![about[c]] = SeenAfter(c)] /\ Begun(c) /\ ~ Ended(c)
    BY <1>8 DEF DecideRequest, Begun, Ended, KycEnds
  <2>2. CASE about[c] # q
    BY <1>1, <1>3, <2>1, <2>2
  <2>3. CASE about[c] = q /\ c = d
    BY <1>1, <2>1, <2>3 DEF SeenAfter
  <2>4. CASE about[c] = q /\ c # d /\ Rewrites(c)
    <3>1. d \in before[c]
      BY <1>1, <2>1, <2>4, QuietIsFirst
    <3>2. event[d] \in copy[c][q]
      BY <1>2, <3>1 DEF Kept
    <3> QED
      BY <1>1, <1>3, <2>1, <2>4, <3>2 DEF SeenAfter
  <2>5. CASE about[c] = q /\ c # d /\ ~ Rewrites(c)
    <3>1. c \notin Deliveries /\ deed[c] # "reject"
      BY <2>5 DEF Rewrites
    <3> QED
      BY <1>1, <1>3, <2>1, <2>5, <3>1 DEF SeenAfter
  <2> QED
    BY <2>2, <2>3, <2>4, <2>5
<1>9. ASSUME NEW c \in Reviewings \cup Deliveries, CloseSuperseded(c)
      PROVE  event[d] \in seen'[q]
  <2>1. PICK p \in todo[c] : seen' = [seen EXCEPT ![p] = copy[c][p]]
    BY <1>9 DEF CloseSuperseded
  <2>2. Begun(c) /\ ~ Ended(c) /\ Approves(c)
    BY <1>9 DEF CloseSuperseded, Begun, Ended, KycEnds, StepsAreOwn
  <2>3. CASE p # q
    BY <1>1, <1>3, <2>1, <2>3
  <2>4. CASE p = q
    <3>1. c # d
      BY <2>4 DEF StepsAreOwn
    <3>2. Rewrites(c)
      BY <2>2 DEF Approves, Rewrites
    <3>3. d \in before[c]
      BY <1>1, <2>2, <3>1, <3>2, QuietIsFirst
    <3> QED
      BY <1>1, <1>2, <2>1, <2>4, <3>3 DEF Kept
  <2> QED
    BY <2>3, <2>4
<1>10. CASE UNCHANGED kycVars
  BY <1>4, <1>10 DEF kycVars, rowVars
<1> HIDE DEF CallTypes, RowTypes, AtKyc
<1> QED
  BY <1>4, <1>5, <1>6, <1>7, <1>8, <1>9, <1>10
     DEF KycNext, KycArrive, KycProceed, SubmitStep, DecisionStep

\* It stays in the copies, and later deliveries stay refused.
LEMMA KeptStays ==
  ASSUME KycBase, EventIsKept, KycNext, NEW d \in Deliveries \cap written, Quiet(d)
  PROVE  Kept(d)'
<1>0. CallTypes /\ CallsInOrder /\ StepsAreOwn /\ StepsAreOwn'
  BY StepsAreOwnStep DEF KycBase, KycTypeOK
<1>1. /\ d \in KycCalls /\ Begun(d) /\ about[d] \in Submits /\ d \notin Submits
      /\ about'[d] = about[d] /\ event'[d] = event[d]
  BY <1>0, KycCallsAreDistinct, DecidedKeep, BegunKeep, WhoCalls DEF StepsAreOwn
<1>2. Kept(d)
  BY DEF EventIsKept
<1>3. event[d] \in seen'[about[d]]
  BY EventStays
<1>4. PICK x \in KycCalls : OneMoves(x)
  BY StepMovesOne
<1>5. \A c \in KycCalls \ {x} : before'[c] = before[c]
  BY <1>0, <1>4 DEF OneMoves, Arrives, GoesOn, CallTypes
<1>6. ASSUME NEW c \in Reviewings \cup Deliveries, d \in before'[c]
      PROVE  event[d] \in copy'[c][about[d]]
  <2>1. c \in KycCalls /\ c \notin Submits
    BY WhoCalls, KycCallsAreDistinct
  <2>2. CASE c = x /\ Arrives(x)
    BY <1>2, <2>1, <2>2 DEF Arrives, Kept
  <2>3. CASE c = x /\ GoesOn(x)
    BY <1>2, <1>6, <2>3 DEF GoesOn, Kept
  <2>4. CASE c # x
    BY <1>2, <1>4, <1>5, <1>6, <2>1, <2>4 DEF OneMoves, Moves, Kept
  <2> QED
    BY <1>4, <2>2, <2>3, <2>4 DEF OneMoves
<1>7. ASSUME NEW e \in Deliveries, d \in before'[e], event'[e] = event[d], about'[e] = about[d]
      PROVE  kpc'[e] = "duplicate"
  <2>1. e \in KycCalls
    BY WhoCalls
  <2>2. CASE e = x /\ Arrives(x)
    BY <1>1, <1>2, <1>7, <2>2 DEF Arrives, Kept
  <2>3. CASE e = x /\ GoesOn(x)
    <3>1. kpc[x] = "duplicate"
      BY <1>2, <1>7, <2>3 DEF GoesOn, Kept
    <3> QED
      BY <1>4, <3>1 DEF OneMoves, Moves, Ended, KycEnds
  <2>4. CASE e # x
    BY <1>2, <1>4, <1>5, <1>7, <2>1, <2>4 DEF OneMoves, Moves, Kept
  <2> QED
    BY <1>4, <2>2, <2>3, <2>4 DEF OneMoves
<1> QED
  BY <1>1, <1>3, <1>6, <1>7 DEF Kept

LEMMA EventIsKeptStep ==
  ASSUME KycBase, EventIsKept, [KycNext]_kycVars
  PROVE  EventIsKept'
<1>1. CASE UNCHANGED kycVars
  BY <1>1 DEF EventIsKept, Quiet, Kept, Rewrites, Overlap, Begun, kycVars, callVars, rowVars
<1>2. CASE KycNext
  <2> SUFFICES ASSUME NEW d \in Deliveries \cap written', Quiet(d)'
               PROVE  Kept(d)'
    BY DEF EventIsKept
  <2>1. CASE d \in written
    <3>1. Begun(d)
      BY <2>1, DecidedKeep
    <3> QED
      BY <1>2, <2>1, <3>1, QuietBefore, KeptStays
  <2>2. CASE d \notin written
    <3>0. CallsInOrder /\ d \in KycCalls
      BY WhoCalls DEF KycBase
    <3>1. /\ d \in written' /\ before' = before /\ about' = about /\ event' = event
          /\ ~ Ended(d) /\ event[d] \in seen'[about[d]]
      BY <1>2, <2>2, StepMovesOne DEF OneMoves, Moves, Arrives, GoesOn
    <3>2. \A c \in KycCalls : d \notin before'[c]
      BY <3>0, <3>1 DEF CallsInOrder
    <3> QED
      BY <3>1, <3>2, WhoCalls DEF Kept
  <2> QED
    BY <2>1, <2>2
<1> QED
  BY <1>1, <1>2

\* A webhook event changes a request once, unless a call that wrote an older copy of
\* the metadata back overlapped its first delivery (KycService.handleWebhook, reject
\* and closeSupersededOpenRequests).
THEOREM ReplayRefused == KycSpec => []ReplayIsRefused
<1>1. KycInit => KycBase /\ EventIsKept
  <2>1. KycInit => EventIsKept
    BY DEF KycInit, EventIsKept
  <2> QED
    BY <2>1, KycInitOK
<1>2. KycBase /\ EventIsKept /\ [KycNext]_kycVars => (KycBase /\ EventIsKept)'
  BY KycBaseStep, EventIsKeptStep
<1>3. KycBase /\ EventIsKept => ReplayIsRefused
  <2> SUFFICES ASSUME KycBase, EventIsKept, NEW d \in Deliveries, NEW e \in Deliveries,
                      d \in before[e], SameEvent(d, e), about[d] = about[e],
                      d \in written, e \in written,
                      \A c \in KycCalls \ {d, e} : Rewrites(c) => ~ Overlap(c, d)
               PROVE  FALSE
    BY DEF ReplayIsRefused
  <2>1. Quiet(d)
    BY DEF Quiet, Overlap
  <2>2. kpc[e] = "duplicate"
    BY <2>1 DEF EventIsKept, Kept, SameEvent
  <2> QED
    BY <2>2 DEF KycBase, CallsInOrder
<1> QED
  BY <1>1, <1>2, <1>3, PTL DEF KycSpec

\* KycService's rows and calls have their types in every state.
THEOREM KycTypeCorrect == KycSpec => []KycTypeOK
<1>1. KycInit => KycBase
  BY KycInitOK
<1>2. KycBase /\ [KycNext]_kycVars => KycBase'
  BY KycBaseStep
<1>3. KycBase => KycTypeOK
  BY DEF KycBase
<1> QED
  BY <1>1, <1>2, <1>3, PTL DEF KycSpec

==============================================================================
