------------------------- MODULE RequestPipelineProofs -------------------------
(***************************************************************************)
(* Proofs about RequestPipeline, for any number of requests and messages,  *)
(* any window, any bound on the clock and on the restarts.                 *)
(***************************************************************************)
EXTENDS RequestPipeline, TLAPS

(* The fields of a message, and arithmetic that is used everywhere. *)
LEMMA MessageFields ==
  /\ None \notin Message
  /\ \A m \in Message : /\ m.stamp \in Int /\ m.full \in BOOLEAN
                        /\ m.signedWith \in Key \union {DefaultKey, None}
  BY ConstantsAssumption DEF MessageType

LEMMA Windows == Window \in Nat /\ DetectorWindow \in Nat /\ DetectorWindow = 2 * Window /\ DetectorWindow > 0
  BY ConstantsAssumption DEF DetectorWindow

LEMMA InitInv == Init => IInv
<1> SUFFICES ASSUME Init PROVE IInv
  OBVIOUS
<1> USE ConstantsAssumption, Windows DEF Init, Store!Init, Detector!Init
<1>1. TypeOK
  <2>1. Store!TypeOK
    BY DEF Store!TypeOK
  <2>2. Detector!TypeOK
    BY DEF Detector!TypeOK, Detector!Answer
  <2>3. response \in [Request -> Response]
    BY DEF Response
  <2> QED
    BY <2>1, <2>2, <2>3 DEF TypeOK
<1>2. WellPlaced /\ SightedInPlace /\ ChecksArePassed
  BY DEF WellPlaced, BeingHandled, SightedInPlace, ChecksArePassed, IsValid
<1>5. Store!PostsAreAlone /\ KeyIsInForce
  BY DEF Store!PostsAreAlone, Store!Posting, KeyIsInForce
<1>3. AgeIsElapsed /\ RememberedForWindow /\ NewAreApart
  BY DEF AgeIsElapsed, RememberedForWindow, NewAreApart
<1>4. CommittedBeforeReply /\ RefusedForAReason /\ SignedResponseVerifies /\ AcknowledgedIsCommitted
  BY DEF CommittedBeforeReply, RefusedForAReason, SignedResponseVerifies, AcknowledgedIsCommitted
<1> QED
  BY <1>1, <1>2, <1>3, <1>4, <1>5 DEF IInv

-----------------------------------------------------------------------------
(* What most steps leave alone: the detector's part of the invariant. *)

LEMMA DetectorFrame ==
  ASSUME IInv, UNCHANGED <<now, epoch, msg, born, sightedAt, detectorVars>>
  PROVE  (AgeIsElapsed /\ RememberedForWindow /\ NewAreApart)'
  BY DEF IInv, detectorVars, AgeIsElapsed, RememberedForWindow, NewAreApart

LEMMA RejectNotFullInv ==
  ASSUME IInv, NEW r \in Request, RejectNotFull(r)
  PROVE  IInv'
<1> USE ConstantsAssumption, MessageFields, Windows DEF IInv, RejectNotFull, Conclude, Goto, requestVars, keyVars, detectorVars
<1> USE DEF TypeOK, Store!TypeOK, Detector!TypeOK, BeingHandled, IsValid, SignatureMatches
<1>1. TypeOK'
  BY DEF Response, Endpoint, Detector!Answer, WellPlaced
<1>2. WellPlaced'
  BY DEF WellPlaced
<1>3. SightedInPlace'
  BY DEF SightedInPlace, WellPlaced
<1>4. Store!PostsAreAlone' /\ KeyIsInForce'
  BY DEF KeyIsInForce, Store!PostsAreAlone, Store!Posting, Store!CanRead
<1>5. ChecksArePassed'
  BY DEF ChecksArePassed, SightedInPlace, AgeIsElapsed, WellPlaced
<1>6. (AgeIsElapsed /\ RememberedForWindow /\ NewAreApart)'
  BY DetectorFrame
<1>7. CommittedBeforeReply'
  BY DEF CommittedBeforeReply, WellPlaced
<1>8. RefusedForAReason'
  BY DEF RefusedForAReason, WellPlaced, SightedInPlace, ChecksArePassed, AgeIsElapsed, RememberedForWindow
<1>9. SignedResponseVerifies' /\ AcknowledgedIsCommitted'
  BY DEF SignedResponseVerifies, AcknowledgedIsCommitted, ChecksArePassed, KeyIsInForce,
     CommittedBeforeReply, WellPlaced
<1> QED
  BY <1>1, <1>2, <1>3, <1>4, <1>5, <1>6, <1>7, <1>8, <1>9

LEMMA DeriveCredentialInv ==
  ASSUME IInv, NEW r \in Request, DeriveCredential(r)
  PROVE  IInv'
<1> USE ConstantsAssumption, MessageFields, Windows DEF IInv, DeriveCredential, Goto, requestVars, keyVars, detectorVars
<1> USE DEF TypeOK, Store!TypeOK, Detector!TypeOK, BeingHandled, IsValid, SignatureMatches
<1>1. TypeOK'
  BY DEF Response, Endpoint, Detector!Answer, WellPlaced
<1>2. WellPlaced'
  BY DEF WellPlaced
<1>3. SightedInPlace'
  BY DEF SightedInPlace, WellPlaced
<1>4. Store!PostsAreAlone' /\ KeyIsInForce'
  BY DEF KeyIsInForce, Store!PostsAreAlone, Store!Posting, Store!CanRead
<1>5. ChecksArePassed'
  BY DEF ChecksArePassed, SightedInPlace, AgeIsElapsed, WellPlaced
<1>6. (AgeIsElapsed /\ RememberedForWindow /\ NewAreApart)'
  BY DetectorFrame
<1>7. CommittedBeforeReply'
  BY DEF CommittedBeforeReply, WellPlaced
<1>8. RefusedForAReason'
  BY DEF RefusedForAReason, WellPlaced, SightedInPlace, ChecksArePassed, AgeIsElapsed, RememberedForWindow
<1>9. SignedResponseVerifies' /\ AcknowledgedIsCommitted'
  BY DEF SignedResponseVerifies, AcknowledgedIsCommitted, ChecksArePassed, KeyIsInForce,
     CommittedBeforeReply, WellPlaced
<1> QED
  BY <1>1, <1>2, <1>3, <1>4, <1>5, <1>6, <1>7, <1>8, <1>9

LEMMA DeriveFailsInv ==
  ASSUME IInv, NEW r \in Request, DeriveFails(r)
  PROVE  IInv'
<1> USE ConstantsAssumption, MessageFields, Windows DEF IInv, DeriveFails, Conclude, Goto, requestVars, keyVars, detectorVars
<1> USE DEF TypeOK, Store!TypeOK, Detector!TypeOK, BeingHandled, IsValid, SignatureMatches
<1>1. TypeOK'
  BY DEF Response, Endpoint, Detector!Answer, WellPlaced
<1>2. WellPlaced'
  BY DEF WellPlaced
<1>3. SightedInPlace'
  BY DEF SightedInPlace, WellPlaced
<1>4. Store!PostsAreAlone' /\ KeyIsInForce'
  BY DEF KeyIsInForce, Store!PostsAreAlone, Store!Posting, Store!CanRead
<1>5. ChecksArePassed'
  BY DEF ChecksArePassed, SightedInPlace, AgeIsElapsed, WellPlaced
<1>6. (AgeIsElapsed /\ RememberedForWindow /\ NewAreApart)'
  BY DetectorFrame
<1>7. CommittedBeforeReply'
  BY DEF CommittedBeforeReply, WellPlaced
<1>8. RefusedForAReason'
  BY DEF RefusedForAReason, WellPlaced, SightedInPlace, ChecksArePassed, AgeIsElapsed, RememberedForWindow
<1>9. SignedResponseVerifies' /\ AcknowledgedIsCommitted'
  BY DEF SignedResponseVerifies, AcknowledgedIsCommitted, ChecksArePassed, KeyIsInForce,
     CommittedBeforeReply, WellPlaced
<1> QED
  BY <1>1, <1>2, <1>3, <1>4, <1>5, <1>6, <1>7, <1>8, <1>9

LEMMA RejectSignatureInv ==
  ASSUME IInv, NEW r \in Request, RejectSignature(r)
  PROVE  IInv'
<1> USE ConstantsAssumption, MessageFields, Windows DEF IInv, RejectSignature, Conclude, Goto, requestVars, keyVars, detectorVars
<1> USE DEF TypeOK, Store!TypeOK, Detector!TypeOK, BeingHandled, IsValid, SignatureMatches
<1>1. TypeOK'
  BY DEF Response, Endpoint, Detector!Answer, WellPlaced
<1>2. WellPlaced'
  BY DEF WellPlaced
<1>3. SightedInPlace'
  BY DEF SightedInPlace, WellPlaced
<1>4. Store!PostsAreAlone' /\ KeyIsInForce'
  BY DEF KeyIsInForce, Store!PostsAreAlone, Store!Posting, Store!CanRead
<1>5. ChecksArePassed'
  BY DEF ChecksArePassed, SightedInPlace, AgeIsElapsed, WellPlaced
<1>6. (AgeIsElapsed /\ RememberedForWindow /\ NewAreApart)'
  BY DetectorFrame
<1>7. CommittedBeforeReply'
  BY DEF CommittedBeforeReply, WellPlaced
<1>8. RefusedForAReason'
  BY DEF RefusedForAReason, WellPlaced, SightedInPlace, ChecksArePassed, AgeIsElapsed, RememberedForWindow
<1>9. SignedResponseVerifies' /\ AcknowledgedIsCommitted'
  BY DEF SignedResponseVerifies, AcknowledgedIsCommitted, ChecksArePassed, KeyIsInForce,
     CommittedBeforeReply, WellPlaced
<1> QED
  BY <1>1, <1>2, <1>3, <1>4, <1>5, <1>6, <1>7, <1>8, <1>9

LEMMA AcceptSignatureInv ==
  ASSUME IInv, NEW r \in Request, AcceptSignature(r)
  PROVE  IInv'
<1> USE ConstantsAssumption, MessageFields, Windows DEF IInv, AcceptSignature, Goto, requestVars, keyVars, detectorVars
<1> USE DEF TypeOK, Store!TypeOK, Detector!TypeOK, BeingHandled, IsValid, SignatureMatches
<1>1. TypeOK'
  BY DEF Response, Endpoint, Detector!Answer, WellPlaced
<1>2. WellPlaced'
  BY DEF WellPlaced
<1>3. SightedInPlace'
  BY DEF SightedInPlace, WellPlaced
<1>4. Store!PostsAreAlone' /\ KeyIsInForce'
  BY DEF KeyIsInForce, Store!PostsAreAlone, Store!Posting, Store!CanRead
<1>5. ChecksArePassed'
  BY DEF ChecksArePassed, SightedInPlace, AgeIsElapsed, WellPlaced
<1>6. (AgeIsElapsed /\ RememberedForWindow /\ NewAreApart)'
  BY DetectorFrame
<1>7. CommittedBeforeReply'
  BY DEF CommittedBeforeReply, WellPlaced
<1>8. RefusedForAReason'
  BY DEF RefusedForAReason, WellPlaced, SightedInPlace, ChecksArePassed, AgeIsElapsed, RememberedForWindow
<1>9. SignedResponseVerifies' /\ AcknowledgedIsCommitted'
  BY DEF SignedResponseVerifies, AcknowledgedIsCommitted, ChecksArePassed, KeyIsInForce,
     CommittedBeforeReply, WellPlaced
<1> QED
  BY <1>1, <1>2, <1>3, <1>4, <1>5, <1>6, <1>7, <1>8, <1>9

LEMMA CheckDomainInv ==
  ASSUME IInv, NEW r \in Request, CheckDomain(r)
  PROVE  IInv'
<1> USE ConstantsAssumption, MessageFields, Windows DEF IInv, CheckDomain, Conclude, Goto, PassesDomainSpecificValidation, Timely, IsHex, Distance, requestVars, keyVars, detectorVars
<1> USE DEF TypeOK, Store!TypeOK, Detector!TypeOK, BeingHandled, IsValid, SignatureMatches
<1>1. TypeOK'
  BY DEF Response, Endpoint, Detector!Answer, WellPlaced
<1>2. WellPlaced'
  BY DEF WellPlaced
<1>3. SightedInPlace'
  BY DEF SightedInPlace, WellPlaced
<1>4. Store!PostsAreAlone' /\ KeyIsInForce'
  BY DEF KeyIsInForce, Store!PostsAreAlone, Store!Posting, Store!CanRead
<1>5. ChecksArePassed'
  BY DEF ChecksArePassed, SightedInPlace, AgeIsElapsed, WellPlaced
<1>6. (AgeIsElapsed /\ RememberedForWindow /\ NewAreApart)'
  BY DetectorFrame
<1>7. CommittedBeforeReply'
  BY DEF CommittedBeforeReply, WellPlaced
<1>8. RefusedForAReason'
  BY DEF RefusedForAReason, WellPlaced, SightedInPlace, ChecksArePassed, AgeIsElapsed, RememberedForWindow
<1>9. SignedResponseVerifies' /\ AcknowledgedIsCommitted'
  BY DEF SignedResponseVerifies, AcknowledgedIsCommitted, ChecksArePassed, KeyIsInForce,
     CommittedBeforeReply, WellPlaced
<1> QED
  BY <1>1, <1>2, <1>3, <1>4, <1>5, <1>6, <1>7, <1>8, <1>9

LEMMA GenerateContentInv ==
  ASSUME IInv, NEW r \in Request, GenerateContent(r)
  PROVE  IInv'
<1> USE ConstantsAssumption, MessageFields, Windows DEF IInv, GenerateContent, Goto, requestVars, keyVars, detectorVars
<1> USE DEF TypeOK, Store!TypeOK, Detector!TypeOK, BeingHandled, IsValid, SignatureMatches
<1>1. TypeOK'
  BY DEF Response, Endpoint, Detector!Answer, WellPlaced
<1>2. WellPlaced'
  BY DEF WellPlaced
<1>3. SightedInPlace'
  BY DEF SightedInPlace, WellPlaced
<1>4. Store!PostsAreAlone' /\ KeyIsInForce'
  BY DEF KeyIsInForce, Store!PostsAreAlone, Store!Posting, Store!CanRead
<1>5. ChecksArePassed'
  BY DEF ChecksArePassed, SightedInPlace, AgeIsElapsed, WellPlaced
<1>6. (AgeIsElapsed /\ RememberedForWindow /\ NewAreApart)'
  BY DetectorFrame
<1>7. CommittedBeforeReply'
  BY DEF CommittedBeforeReply, WellPlaced
<1>8. RefusedForAReason'
  BY DEF RefusedForAReason, WellPlaced, SightedInPlace, ChecksArePassed, AgeIsElapsed, RememberedForWindow
<1>9. SignedResponseVerifies' /\ AcknowledgedIsCommitted'
  BY DEF SignedResponseVerifies, AcknowledgedIsCommitted, ChecksArePassed, KeyIsInForce,
     CommittedBeforeReply, WellPlaced
<1> QED
  BY <1>1, <1>2, <1>3, <1>4, <1>5, <1>6, <1>7, <1>8, <1>9

LEMMA CredentialFailsInv ==
  ASSUME IInv, NEW r \in Request, CredentialFails(r)
  PROVE  IInv'
<1> USE ConstantsAssumption, MessageFields, Windows DEF IInv, CredentialFails, Respond, Goto, Error, requestVars, keyVars, detectorVars
<1> USE DEF TypeOK, Store!TypeOK, Detector!TypeOK, BeingHandled, IsValid, SignatureMatches
<1>1. TypeOK'
  BY DEF Response, Endpoint, Detector!Answer, WellPlaced
<1>2. WellPlaced'
  BY DEF WellPlaced
<1>3. SightedInPlace'
  BY DEF SightedInPlace, WellPlaced
<1>4. Store!PostsAreAlone' /\ KeyIsInForce'
  BY DEF KeyIsInForce, Store!PostsAreAlone, Store!Posting, Store!CanRead
<1>5. ChecksArePassed'
  BY DEF ChecksArePassed, SightedInPlace, AgeIsElapsed, WellPlaced
<1>6. (AgeIsElapsed /\ RememberedForWindow /\ NewAreApart)'
  BY DetectorFrame
<1>7. CommittedBeforeReply'
  BY DEF CommittedBeforeReply, WellPlaced
<1>8. RefusedForAReason'
  BY DEF RefusedForAReason, WellPlaced, SightedInPlace, ChecksArePassed, AgeIsElapsed, RememberedForWindow
<1>9. SignedResponseVerifies' /\ AcknowledgedIsCommitted'
  BY DEF SignedResponseVerifies, AcknowledgedIsCommitted, ChecksArePassed, KeyIsInForce,
     CommittedBeforeReply, WellPlaced
<1> QED
  BY <1>1, <1>2, <1>3, <1>4, <1>5, <1>6, <1>7, <1>8, <1>9

LEMMA PostLocationInv ==
  ASSUME IInv, NEW r \in Request, PostLocation(r)
  PROVE  IInv'
<1> USE ConstantsAssumption, MessageFields, Windows DEF IInv, PostLocation, Goto, requestVars, keyVars, detectorVars
<1> USE DEF TypeOK, Store!TypeOK, Detector!TypeOK, BeingHandled, IsValid, SignatureMatches
<1>1. TypeOK'
  BY DEF Response, Endpoint, Detector!Answer, WellPlaced
<1>2. WellPlaced'
  BY DEF WellPlaced
<1>3. SightedInPlace'
  BY DEF SightedInPlace, WellPlaced
<1>4. Store!PostsAreAlone' /\ KeyIsInForce'
  BY DEF KeyIsInForce, Store!PostsAreAlone, Store!Posting, Store!CanRead
<1>5. ChecksArePassed'
  BY DEF ChecksArePassed, SightedInPlace, AgeIsElapsed, WellPlaced
<1>6. (AgeIsElapsed /\ RememberedForWindow /\ NewAreApart)'
  BY DetectorFrame
<1>7. CommittedBeforeReply'
  BY DEF CommittedBeforeReply, WellPlaced
<1>8. RefusedForAReason'
  BY DEF RefusedForAReason, WellPlaced, SightedInPlace, ChecksArePassed, AgeIsElapsed, RememberedForWindow
<1>9. SignedResponseVerifies' /\ AcknowledgedIsCommitted'
  BY DEF SignedResponseVerifies, AcknowledgedIsCommitted, ChecksArePassed, KeyIsInForce,
     CommittedBeforeReply, WellPlaced
<1> QED
  BY <1>1, <1>2, <1>3, <1>4, <1>5, <1>6, <1>7, <1>8, <1>9

LEMMA PostLocationFailsInv ==
  ASSUME IInv, NEW r \in Request, PostLocationFails(r)
  PROVE  IInv'
<1> USE ConstantsAssumption, MessageFields, Windows DEF IInv, PostLocationFails, Respond, Goto, Error, requestVars, keyVars, detectorVars
<1> USE DEF TypeOK, Store!TypeOK, Detector!TypeOK, BeingHandled, IsValid, SignatureMatches
<1>1. TypeOK'
  BY DEF Response, Endpoint, Detector!Answer, WellPlaced
<1>2. WellPlaced'
  BY DEF WellPlaced
<1>3. SightedInPlace'
  BY DEF SightedInPlace, WellPlaced
<1>4. Store!PostsAreAlone' /\ KeyIsInForce'
  BY DEF KeyIsInForce, Store!PostsAreAlone, Store!Posting, Store!CanRead
<1>5. ChecksArePassed'
  BY DEF ChecksArePassed, SightedInPlace, AgeIsElapsed, WellPlaced
<1>6. (AgeIsElapsed /\ RememberedForWindow /\ NewAreApart)'
  BY DetectorFrame
<1>7. CommittedBeforeReply'
  BY DEF CommittedBeforeReply, WellPlaced
<1>8. RefusedForAReason'
  BY DEF RefusedForAReason, WellPlaced, SightedInPlace, ChecksArePassed, AgeIsElapsed, RememberedForWindow
<1>9. SignedResponseVerifies' /\ AcknowledgedIsCommitted'
  BY DEF SignedResponseVerifies, AcknowledgedIsCommitted, ChecksArePassed, KeyIsInForce,
     CommittedBeforeReply, WellPlaced
<1> QED
  BY <1>1, <1>2, <1>3, <1>4, <1>5, <1>6, <1>7, <1>8, <1>9

LEMMA RespondUnsignedInv ==
  ASSUME IInv, NEW r \in Request, RespondUnsigned(r)
  PROVE  IInv'
<1> USE ConstantsAssumption, MessageFields, Windows DEF IInv, RespondUnsigned, Respond, Goto, requestVars, keyVars, detectorVars
<1> USE DEF TypeOK, Store!TypeOK, Detector!TypeOK, BeingHandled, IsValid, SignatureMatches
<1>1. TypeOK'
  BY DEF Response, Endpoint, Detector!Answer, WellPlaced
<1>2. WellPlaced'
  BY DEF WellPlaced
<1>3. SightedInPlace'
  BY DEF SightedInPlace, WellPlaced
<1>4. Store!PostsAreAlone' /\ KeyIsInForce'
  BY DEF KeyIsInForce, Store!PostsAreAlone, Store!Posting, Store!CanRead
<1>5. ChecksArePassed'
  BY DEF ChecksArePassed, SightedInPlace, AgeIsElapsed, WellPlaced
<1>6. (AgeIsElapsed /\ RememberedForWindow /\ NewAreApart)'
  BY DetectorFrame
<1>7. CommittedBeforeReply'
  BY DEF CommittedBeforeReply, WellPlaced
<1>8. RefusedForAReason'
  BY DEF RefusedForAReason, WellPlaced, SightedInPlace, ChecksArePassed, AgeIsElapsed, RememberedForWindow
<1>9. SignedResponseVerifies' /\ AcknowledgedIsCommitted'
  BY DEF SignedResponseVerifies, AcknowledgedIsCommitted, ChecksArePassed, KeyIsInForce,
     CommittedBeforeReply, WellPlaced
<1> QED
  BY <1>1, <1>2, <1>3, <1>4, <1>5, <1>6, <1>7, <1>8, <1>9

LEMMA RespondSignedInv ==
  ASSUME IInv, NEW r \in Request, RespondSigned(r)
  PROVE  IInv'
<1> USE ConstantsAssumption, MessageFields, Windows DEF IInv, RespondSigned, Respond, Goto, requestVars, keyVars, detectorVars
<1> USE DEF TypeOK, Store!TypeOK, Detector!TypeOK, BeingHandled, IsValid, SignatureMatches
<1>1. TypeOK'
  BY DEF Response, Endpoint, Detector!Answer, WellPlaced
<1>2. WellPlaced'
  BY DEF WellPlaced
<1>3. SightedInPlace'
  BY DEF SightedInPlace, WellPlaced
<1>4. Store!PostsAreAlone' /\ KeyIsInForce'
  BY DEF KeyIsInForce, Store!PostsAreAlone, Store!Posting, Store!CanRead
<1>5. ChecksArePassed'
  BY DEF ChecksArePassed, SightedInPlace, AgeIsElapsed, WellPlaced
<1>6. (AgeIsElapsed /\ RememberedForWindow /\ NewAreApart)'
  BY DetectorFrame
<1>7. CommittedBeforeReply'
  BY DEF CommittedBeforeReply, WellPlaced
<1>8. RefusedForAReason'
  BY DEF RefusedForAReason, WellPlaced, SightedInPlace, ChecksArePassed, AgeIsElapsed, RememberedForWindow
<1>9. SignedResponseVerifies' /\ AcknowledgedIsCommitted'
  <2>1. PICK k \in Key \union {DefaultKey} :
          /\ Store!CanRead(k)
          /\ response' = [response EXCEPT ![r] = [status |-> "signed", key |-> k]]
    OBVIOUS
  <2>2. overlapped \/ msg[r].signedWith = DefaultKey \/ k = msg[r].signedWith
    BY <2>1 DEF Store!CanRead, ChecksArePassed, KeyIsInForce
  <2>3. SignedResponseVerifies'
    BY <2>1, <2>2 DEF SignedResponseVerifies
  <2>4. AcknowledgedIsCommitted'
    BY <2>1 DEF AcknowledgedIsCommitted, ChecksArePassed, CommittedBeforeReply, WellPlaced
  <2> QED
    BY <2>3, <2>4
<1> QED
  BY <1>1, <1>2, <1>3, <1>4, <1>5, <1>6, <1>7, <1>8, <1>9

LEMMA RespondFailsInv ==
  ASSUME IInv, NEW r \in Request, RespondFails(r)
  PROVE  IInv'
<1> USE ConstantsAssumption, MessageFields, Windows DEF IInv, RespondFails, Respond, Goto, Error, requestVars, keyVars, detectorVars
<1> USE DEF TypeOK, Store!TypeOK, Detector!TypeOK, BeingHandled, IsValid, SignatureMatches
<1>1. TypeOK'
  BY DEF Response, Endpoint, Detector!Answer, WellPlaced
<1>2. WellPlaced'
  BY DEF WellPlaced
<1>3. SightedInPlace'
  BY DEF SightedInPlace, WellPlaced
<1>4. Store!PostsAreAlone' /\ KeyIsInForce'
  BY DEF KeyIsInForce, Store!PostsAreAlone, Store!Posting, Store!CanRead
<1>5. ChecksArePassed'
  BY DEF ChecksArePassed, SightedInPlace, AgeIsElapsed, WellPlaced
<1>6. (AgeIsElapsed /\ RememberedForWindow /\ NewAreApart)'
  BY DetectorFrame
<1>7. CommittedBeforeReply'
  BY DEF CommittedBeforeReply, WellPlaced
<1>8. RefusedForAReason'
  BY DEF RefusedForAReason, WellPlaced, SightedInPlace, ChecksArePassed, AgeIsElapsed, RememberedForWindow
<1>9. SignedResponseVerifies' /\ AcknowledgedIsCommitted'
  BY DEF SignedResponseVerifies, AcknowledgedIsCommitted, ChecksArePassed, KeyIsInForce,
     CommittedBeforeReply, WellPlaced
<1> QED
  BY <1>1, <1>2, <1>3, <1>4, <1>5, <1>6, <1>7, <1>8, <1>9

LEMMA ReceiveInv ==
  ASSUME IInv, NEW r \in Request, NEW e \in Endpoint, NEW m \in Message, Receive(r, e, m)
  PROVE  IInv'
<1> USE ConstantsAssumption, MessageFields, Windows DEF IInv, Receive, Goto, requestVars, keyVars, detectorVars
<1> USE DEF TypeOK, Store!TypeOK, Detector!TypeOK, BeingHandled, IsValid, SignatureMatches
<1>1. TypeOK'
  BY DEF Response, Endpoint, Detector!Answer, WellPlaced
<1>2. WellPlaced'
  BY DEF WellPlaced
<1>3. SightedInPlace'
  BY DEF SightedInPlace, WellPlaced
<1>4. Store!PostsAreAlone' /\ KeyIsInForce'
  BY DEF KeyIsInForce, Store!PostsAreAlone, Store!Posting, Store!CanRead
<1>5. ChecksArePassed'
  BY DEF ChecksArePassed, SightedInPlace, AgeIsElapsed, WellPlaced
<1>6. (AgeIsElapsed /\ RememberedForWindow /\ NewAreApart)'
  <2>1. AgeIsElapsed'
    BY DEF AgeIsElapsed, SightedInPlace
  <2>2. RememberedForWindow'
    BY DEF RememberedForWindow, SightedInPlace, WellPlaced
  <2>3. NewAreApart'
    BY DEF NewAreApart, SightedInPlace, WellPlaced, AgeIsElapsed, RememberedForWindow
  <2> QED
    BY <2>1, <2>2, <2>3
<1>7. CommittedBeforeReply'
  BY DEF CommittedBeforeReply, WellPlaced
<1>8. RefusedForAReason'
  BY DEF RefusedForAReason, WellPlaced, SightedInPlace, ChecksArePassed, AgeIsElapsed, RememberedForWindow
<1>9. SignedResponseVerifies' /\ AcknowledgedIsCommitted'
  BY DEF SignedResponseVerifies, AcknowledgedIsCommitted, ChecksArePassed, KeyIsInForce,
     CommittedBeforeReply, WellPlaced
<1> QED
  BY <1>1, <1>2, <1>3, <1>4, <1>5, <1>6, <1>7, <1>8, <1>9

LEMMA SightNewInv ==
  ASSUME IInv, NEW r \in Request, SightNew(r)
  PROVE  IInv'
<1> USE ConstantsAssumption, MessageFields, Windows DEF IInv, SightNew, Goto, Detector!See, Detector!Remembered, requestVars, keyVars, detectorVars
<1> USE DEF TypeOK, Store!TypeOK, Detector!TypeOK, BeingHandled, IsValid, SignatureMatches
<1>1. TypeOK'
  BY DEF Response, Endpoint, Detector!Answer, WellPlaced
<1>2. WellPlaced'
  BY DEF WellPlaced
<1>3. SightedInPlace'
  BY DEF SightedInPlace, WellPlaced
<1>4. Store!PostsAreAlone' /\ KeyIsInForce'
  BY DEF KeyIsInForce, Store!PostsAreAlone, Store!Posting, Store!CanRead
<1>5. ChecksArePassed'
  BY DEF ChecksArePassed, SightedInPlace, AgeIsElapsed, WellPlaced
<1>6. (AgeIsElapsed /\ RememberedForWindow /\ NewAreApart)'
  <2>1. AgeIsElapsed'
    BY DEF AgeIsElapsed, SightedInPlace
  <2>2. RememberedForWindow'
    BY DEF RememberedForWindow, SightedInPlace, WellPlaced
  <2>3. NewAreApart'
    BY SMTT(30) DEF NewAreApart, SightedInPlace, WellPlaced, AgeIsElapsed, RememberedForWindow
  <2> QED
    BY <2>1, <2>2, <2>3
<1>7. CommittedBeforeReply'
  BY DEF CommittedBeforeReply, WellPlaced
<1>8. RefusedForAReason'
  BY DEF RefusedForAReason, WellPlaced, SightedInPlace, ChecksArePassed, AgeIsElapsed, RememberedForWindow
<1>9. SignedResponseVerifies' /\ AcknowledgedIsCommitted'
  BY DEF SignedResponseVerifies, AcknowledgedIsCommitted, ChecksArePassed, KeyIsInForce,
     CommittedBeforeReply, WellPlaced
<1> QED
  BY <1>1, <1>2, <1>3, <1>4, <1>5, <1>6, <1>7, <1>8, <1>9

LEMMA RejectReplayInv ==
  ASSUME IInv, NEW r \in Request, RejectReplay(r)
  PROVE  IInv'
<1> USE ConstantsAssumption, MessageFields, Windows DEF IInv, RejectReplay, Conclude, Goto, Detector!See, Detector!Remembered, requestVars, keyVars, detectorVars
<1> USE DEF TypeOK, Store!TypeOK, Detector!TypeOK, BeingHandled, IsValid, SignatureMatches
<1>1. TypeOK'
  BY DEF Response, Endpoint, Detector!Answer, WellPlaced
<1>2. WellPlaced'
  BY DEF WellPlaced
<1>3. SightedInPlace'
  BY DEF SightedInPlace, WellPlaced
<1>4. Store!PostsAreAlone' /\ KeyIsInForce'
  BY DEF KeyIsInForce, Store!PostsAreAlone, Store!Posting, Store!CanRead
<1>5. ChecksArePassed'
  BY DEF ChecksArePassed, SightedInPlace, AgeIsElapsed, WellPlaced
<1>6. (AgeIsElapsed /\ RememberedForWindow /\ NewAreApart)'
  <2>1. AgeIsElapsed'
    BY DEF AgeIsElapsed, SightedInPlace
  <2>2. RememberedForWindow'
    BY DEF RememberedForWindow, SightedInPlace, WellPlaced
  <2>3. NewAreApart'
    BY DEF NewAreApart, SightedInPlace, WellPlaced, AgeIsElapsed, RememberedForWindow
  <2> QED
    BY <2>1, <2>2, <2>3
<1>7. CommittedBeforeReply'
  BY DEF CommittedBeforeReply, WellPlaced
<1>8. RefusedForAReason'
  BY DEF RefusedForAReason, WellPlaced, SightedInPlace, ChecksArePassed, AgeIsElapsed, RememberedForWindow
<1>9. SignedResponseVerifies' /\ AcknowledgedIsCommitted'
  BY DEF SignedResponseVerifies, AcknowledgedIsCommitted, ChecksArePassed, KeyIsInForce,
     CommittedBeforeReply, WellPlaced
<1> QED
  BY <1>1, <1>2, <1>3, <1>4, <1>5, <1>6, <1>7, <1>8, <1>9

(* Posts of keys change nothing but the key, and replace none unless they   *)
(* overlap.                                                                 *)
LEMMA PostKeyInv ==
  ASSUME IInv, PostKey
  PROVE  IInv'
<1> USE ConstantsAssumption, MessageFields, Windows DEF IInv, PostKey, requestVars, keyVars, detectorVars
<1> USE DEF TypeOK, Store!TypeOK, Detector!TypeOK, BeingHandled, IsValid, SignatureMatches
<1>0. UNCHANGED <<now, epoch, requestVars, detectorVars>> /\ Store!TypeOK' /\ (overlapped => overlapped')
  <2> PICK p \in KeyPost : \/ Store!PassChecks(p) \/ Store!Open(p) \/ Store!OpenFails(p)
                          \/ Store!Write(p) \/ Store!WriteFails(p)
    BY DEF Store!Step
  <2>1. CASE Store!PassChecks(p)
    BY <2>1 DEF Store!PassChecks
  <2>2. CASE Store!Open(p)
    BY <2>2 DEF Store!Open
  <2>3. CASE Store!OpenFails(p)
    BY <2>3 DEF Store!OpenFails
  <2>4. CASE Store!Write(p)
    BY <2>4 DEF Store!Write
  <2>5. CASE Store!WriteFails(p)
    BY <2>5 DEF Store!WriteFails
  <2> QED
    BY <2>1, <2>2, <2>3, <2>4, <2>5
<1>1. TypeOK'
  BY <1>0 DEF Response, Endpoint, Detector!Answer, WellPlaced
<1>2. WellPlaced'
  BY <1>0 DEF WellPlaced
<1>3. SightedInPlace'
  BY <1>0 DEF SightedInPlace, WellPlaced
<1>4. Store!PostsAreAlone' /\ KeyIsInForce'
  <2> USE DEF KeyIsInForce, Store!PostsAreAlone, Store!Posting
  <2> PICK p \in KeyPost : \/ Store!PassChecks(p) \/ Store!Open(p) \/ Store!OpenFails(p)
                          \/ Store!Write(p) \/ Store!WriteFails(p)
    BY DEF Store!Step
  <2>1. CASE Store!PassChecks(p)
    BY <2>1 DEF Store!PassChecks, Store!IsSet
  <2>2. CASE Store!Open(p)
    BY <2>2 DEF Store!Open
  <2>3. CASE Store!OpenFails(p)
    BY <2>3 DEF Store!OpenFails
  <2>4. CASE Store!Write(p)
    <3>1. file = DefaultKey /\ file' \in Key /\ writing' = writing \ {p}
          /\ UNCHANGED <<pending, overlapped, keyUsed>>
      BY <2>4 DEF Store!Write
    <3>2. KeyIsInForce'
      BY <3>1
    <3>3. overlapped \/ (writing \subseteq {p} /\ pending = {})
      BY <2>4 DEF Store!Write
    <3>4. writing' = {}
      BY <2>4, <3>1 DEF Store!Write
    <3>5. overlapped \/ Store!Posting' = {}
      BY <3>1, <3>3
    <3> QED
      BY <3>1, <3>2, <3>4, <3>5
  <2>5. CASE Store!WriteFails(p)
    BY <2>5 DEF Store!WriteFails
  <2> QED
    BY <2>1, <2>2, <2>3, <2>4, <2>5
<1>5. ChecksArePassed'
  BY <1>0 DEF ChecksArePassed, SightedInPlace, AgeIsElapsed, WellPlaced
<1>6. (AgeIsElapsed /\ RememberedForWindow /\ NewAreApart)'
  BY <1>0, DetectorFrame
<1>7. CommittedBeforeReply'
  BY <1>0 DEF CommittedBeforeReply, WellPlaced
<1>8. RefusedForAReason'
  BY <1>0 DEF RefusedForAReason, WellPlaced, SightedInPlace, ChecksArePassed, AgeIsElapsed, RememberedForWindow
<1>9. SignedResponseVerifies' /\ AcknowledgedIsCommitted'
  BY <1>0 DEF SignedResponseVerifies, AcknowledgedIsCommitted, ChecksArePassed, KeyIsInForce,
     CommittedBeforeReply, WellPlaced
<1> QED
  BY <1>1, <1>2, <1>3, <1>4, <1>5, <1>6, <1>7, <1>8, <1>9

LEMMA ForgetInv ==
  ASSUME IInv, NEW r \in Request, Forget(r)
  PROVE  IInv'
<1> USE ConstantsAssumption, MessageFields, Windows DEF IInv, Forget, Detector!Forget, requestVars, keyVars, detectorVars
<1> USE DEF TypeOK, Store!TypeOK, Detector!TypeOK, BeingHandled, IsValid, SignatureMatches
<1>1. TypeOK'
  BY DEF Response, Endpoint, Detector!Answer, WellPlaced
<1>2. WellPlaced'
  BY DEF WellPlaced
<1>3. SightedInPlace'
  BY DEF SightedInPlace, WellPlaced
<1>4. Store!PostsAreAlone' /\ KeyIsInForce'
  BY DEF KeyIsInForce, Store!PostsAreAlone, Store!Posting, Store!CanRead
<1>5. ChecksArePassed'
  BY DEF ChecksArePassed, SightedInPlace, AgeIsElapsed, WellPlaced
<1>6. (AgeIsElapsed /\ RememberedForWindow /\ NewAreApart)'
  <2>1. AgeIsElapsed'
    BY DEF AgeIsElapsed, SightedInPlace
  <2>2. RememberedForWindow'
    BY DEF RememberedForWindow, SightedInPlace, WellPlaced
  <2>3. NewAreApart'
    BY DEF NewAreApart, SightedInPlace, WellPlaced, AgeIsElapsed, RememberedForWindow
  <2> QED
    BY <2>1, <2>2, <2>3
<1>7. CommittedBeforeReply'
  BY DEF CommittedBeforeReply, WellPlaced
<1>8. RefusedForAReason'
  BY DEF RefusedForAReason, WellPlaced, SightedInPlace, ChecksArePassed, AgeIsElapsed, RememberedForWindow
<1>9. SignedResponseVerifies' /\ AcknowledgedIsCommitted'
  BY DEF SignedResponseVerifies, AcknowledgedIsCommitted, ChecksArePassed, KeyIsInForce,
     CommittedBeforeReply, WellPlaced
<1> QED
  BY <1>1, <1>2, <1>3, <1>4, <1>5, <1>6, <1>7, <1>8, <1>9

LEMMA TickInv ==
  ASSUME IInv, Tick
  PROVE  IInv'
<1> USE ConstantsAssumption, MessageFields, Windows DEF IInv, Tick, Detector!Tick, requestVars, keyVars, detectorVars
<1> USE DEF TypeOK, Store!TypeOK, Detector!TypeOK, BeingHandled, IsValid, SignatureMatches
<1>1. TypeOK'
  BY DEF Response, Endpoint, Detector!Answer, WellPlaced
<1>2. WellPlaced'
  BY DEF WellPlaced
<1>3. SightedInPlace'
  BY DEF SightedInPlace, WellPlaced
<1>4. Store!PostsAreAlone' /\ KeyIsInForce'
  BY DEF KeyIsInForce, Store!PostsAreAlone, Store!Posting, Store!CanRead
<1>5. ChecksArePassed'
  BY DEF ChecksArePassed, SightedInPlace, AgeIsElapsed, WellPlaced
<1>6. (AgeIsElapsed /\ RememberedForWindow /\ NewAreApart)'
  <2>1. AgeIsElapsed'
    BY DEF AgeIsElapsed, SightedInPlace
  <2>2. RememberedForWindow'
    BY DEF RememberedForWindow, SightedInPlace, WellPlaced
  <2>3. NewAreApart'
    BY DEF NewAreApart, SightedInPlace, WellPlaced, AgeIsElapsed, RememberedForWindow
  <2> QED
    BY <2>1, <2>2, <2>3
<1>7. CommittedBeforeReply'
  BY DEF CommittedBeforeReply, WellPlaced
<1>8. RefusedForAReason'
  BY DEF RefusedForAReason, WellPlaced, SightedInPlace, ChecksArePassed, AgeIsElapsed, RememberedForWindow
<1>9. SignedResponseVerifies' /\ AcknowledgedIsCommitted'
  BY DEF SignedResponseVerifies, AcknowledgedIsCommitted, ChecksArePassed, KeyIsInForce,
     CommittedBeforeReply, WellPlaced
<1> QED
  BY <1>1, <1>2, <1>3, <1>4, <1>5, <1>6, <1>7, <1>8, <1>9

LEMMA RestartInv ==
  ASSUME IInv, Restart
  PROVE  IInv'
<1> USE ConstantsAssumption, MessageFields, Windows DEF IInv, Restart, Store!Crash, requestVars, keyVars, detectorVars
<1> USE DEF TypeOK, Store!TypeOK, Detector!TypeOK, BeingHandled, IsValid, SignatureMatches
<1>1. TypeOK'
  BY DEF Response, Endpoint, Detector!Answer, WellPlaced
<1>2. WellPlaced'
  BY DEF WellPlaced
<1>3. SightedInPlace'
  BY DEF SightedInPlace, WellPlaced
<1>4. Store!PostsAreAlone' /\ KeyIsInForce'
  BY DEF KeyIsInForce, Store!PostsAreAlone, Store!Posting, Store!CanRead
<1>5. ChecksArePassed'
  BY DEF ChecksArePassed, SightedInPlace, AgeIsElapsed, WellPlaced
<1>6. (AgeIsElapsed /\ RememberedForWindow /\ NewAreApart)'
  <2>1. AgeIsElapsed'
    BY DEF AgeIsElapsed, SightedInPlace
  <2>2. RememberedForWindow'
    BY DEF RememberedForWindow, SightedInPlace, WellPlaced
  <2>3. NewAreApart'
    BY DEF NewAreApart, SightedInPlace, WellPlaced, AgeIsElapsed, RememberedForWindow
  <2> QED
    BY <2>1, <2>2, <2>3
<1>7. CommittedBeforeReply'
  BY DEF CommittedBeforeReply, WellPlaced
<1>8. RefusedForAReason'
  BY DEF RefusedForAReason, WellPlaced, SightedInPlace, ChecksArePassed, AgeIsElapsed, RememberedForWindow
<1>9. SignedResponseVerifies' /\ AcknowledgedIsCommitted'
  BY DEF SignedResponseVerifies, AcknowledgedIsCommitted, ChecksArePassed, KeyIsInForce,
     CommittedBeforeReply, WellPlaced
<1> QED
  BY <1>1, <1>2, <1>3, <1>4, <1>5, <1>6, <1>7, <1>8, <1>9

-----------------------------------------------------------------------------

(* The inductive invariant: a request has passed the checks before its      *)
(* place, and the detector's memory outlasts a message's acceptability      *)
(* (Validator.cs 45-83, CompositionRoot.cs 220-228).                        *)
THEOREM Inductive == Spec => []IInv
<1>1. IInv /\ [Next]_vars => IInv'
  <2> SUFFICES ASSUME IInv, [Next]_vars PROVE IInv'
    OBVIOUS
  <2>1. ASSUME NEW r \in Request, NEW e \in Endpoint, NEW m \in Message, Receive(r, e, m)
        PROVE  IInv'
    BY <2>1, ReceiveInv
  <2>2. ASSUME NEW r \in Request, Validate(r)
        PROVE  IInv'
    BY <2>2, RejectNotFullInv, DeriveCredentialInv, DeriveFailsInv, RejectSignatureInv,
       AcceptSignatureInv, SightNewInv, RejectReplayInv, CheckDomainInv DEF Validate
  <2>3. ASSUME NEW r \in Request, CreateResponse(r)
        PROVE  IInv'
    BY <2>3, GenerateContentInv, CredentialFailsInv, PostLocationInv, PostLocationFailsInv,
       RespondUnsignedInv, RespondSignedInv, RespondFailsInv DEF CreateResponse
  <2>4. ASSUME NEW r \in Request, Forget(r)
        PROVE  IInv'
    BY <2>4, ForgetInv
  <2>5. CASE PostKey
    BY <2>5, PostKeyInv
  <2>6. CASE Tick
    BY <2>6, TickInv
  <2>7. CASE Restart
    BY <2>7, RestartInv
  <2>8. CASE UNCHANGED vars
    <3>1. UNCHANGED <<now, epoch, keyVars, pc, endpoint, msg, keyUsed, sightedAt, verdict, born,
                      posted, response, seen, answer, age, kept>>
      BY <2>8 DEF vars, requestVars, detectorVars
    <3>3. Store!PostsAreAlone' /\ Store!TypeOK'
      BY <3>1 DEF IInv, TypeOK, keyVars, Store!PostsAreAlone, Store!Posting, Store!TypeOK
    <3>2. (AgeIsElapsed /\ RememberedForWindow /\ NewAreApart)'
      BY <3>1, DetectorFrame DEF detectorVars
    <3> QED
      BY <3>1, <3>2, <3>3 DEF IInv, TypeOK, keyVars, Detector!TypeOK, WellPlaced, SightedInPlace, KeyIsInForce,
         ChecksArePassed, CommittedBeforeReply, RefusedForAReason, SignedResponseVerifies,
         AcknowledgedIsCommitted, IsValid, SignatureMatches
  <2> QED
    BY <2>1, <2>2, <2>3, <2>4, <2>5, <2>6, <2>7, <2>8 DEF Next
<1> QED
  BY InitInv, <1>1, PTL DEF Spec

(* A message is accepted once, but for a restart in between or a request    *)
(* that was sighted before its time: of two that were both new, the second  *)
(* was sighted two windows after the first, when the timestamp of both had  *)
(* run out (README.md 21, CompositionRoot.cs 220-228).                      *)
THEOREM OnlyOnce == Spec => []AcceptedOnce
<1>1. ASSUME IInv PROVE AcceptedOnce
  <2> SUFFICES ASSUME NEW r \in Request, NEW s \in Request, r # s, msg[r] = msg[s],
                      IsValid(r), IsValid(s), born[r] = born[s],
                      ~SightedEarly(r), ~SightedEarly(s)
               PROVE  FALSE
    BY DEF AcceptedOnce
  <2>1. msg[r] \in Message /\ msg[s] \in Message
    BY <1>1 DEF IInv, WellPlaced, IsValid
  <2>2. sightedAt[r] \in Int /\ sightedAt[s] \in Int
    BY <1>1, ConstantsAssumption DEF IInv, TypeOK
  <2>3. \/ sightedAt[r] + DetectorWindow <= sightedAt[s]
        \/ sightedAt[s] + DetectorWindow <= sightedAt[r]
    BY <1>1 DEF IInv, ChecksArePassed, NewAreApart
  <2>4. /\ msg[r].stamp - Window <= sightedAt[r] /\ sightedAt[r] < msg[r].stamp + Window
        /\ msg[s].stamp - Window <= sightedAt[s] /\ sightedAt[s] < msg[s].stamp + Window
    BY <1>1, <2>1, <2>2, MessageFields, Windows DEF IInv, ChecksArePassed, SightedEarly
  <2> QED
    BY <2>1, <2>2, <2>3, <2>4, MessageFields, Windows
<1> QED
  BY <1>1, Inductive, PTL

(* Whoever signed with a credential of a real key of the server's can       *)
(* verify the response, though that key may be replaced or emptied while    *)
(* the request is handled: for this, two posts of keys must have overlapped *)
(* (MessageHandler.cs 38, 53; HMACKey.cs 35-41).                            *)
THEOREM ResponsesVerify == Spec => []SignedResponseVerifies
<1>1. IInv => SignedResponseVerifies
  BY DEF IInv
<1> QED
  BY <1>1, Inductive, PTL

(* A signed response to a post says that the location was committed, and a  *)
(* committed one passed every check (LocationImpl.cs 41-49).                *)
THEOREM AcknowledgedPosts == Spec => []AcknowledgedIsCommitted
<1>1. IInv => AcknowledgedIsCommitted
  BY DEF IInv
<1> QED
  BY <1>1, Inductive, PTL

(* An honest, timely message that arrived once is not refused: what is in   *)
(* the detector's memory arrived since the last restart (Validator.cs       *)
(* 54-74).                                                                  *)
THEOREM NoneIsRefused == Spec => []UnrepeatedIsValid
<1>1. ASSUME IInv PROVE UnrepeatedIsValid
  <2> SUFFICES ASSUME NEW r \in Request, pc[r] \in {"content", "reply", "done"},
                      msg[r].full, keyUsed[r] = msg[r].signedWith, keyUsed[r] # None,
                      Around(msg[r], sightedAt[r]), Around(msg[r], now),
                      \A s \in Request \ {r} : msg[s] # msg[r] \/ born[s] # born[r],
                      ~IsValid(r)
               PROVE  FALSE
    BY DEF UnrepeatedIsValid
  <2>1. msg[r] \in Message /\ verdict[r] = "invalid"
    BY <1>1 DEF IInv, WellPlaced, TypeOK, IsValid
  <2>2. sightedAt[r] \in Int /\ now \in Int
    BY <1>1, ConstantsAssumption DEF IInv, TypeOK
  <2>3. sightedAt[r] <= msg[r].stamp - Window \/ now >= msg[r].stamp + Window
    BY <1>1, <2>1 DEF IInv, RefusedForAReason, SignatureMatches
  <2> QED
    BY <2>1, <2>2, <2>3, MessageFields, Windows DEF Around
<1> QED
  BY <1>1, Inductive, PTL

=============================================================================
