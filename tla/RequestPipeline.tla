--------------------------- MODULE RequestPipeline ---------------------------
(***************************************************************************)
(* A request's way through the server: Validator.IsValidAsync, the         *)
(* domain-specific validation of CompositionRoot, the content generators   *)
(* of LocationImpl, CredentialImpl and Time, MessageHandler's response and *)
(* ActionResultProducer's error result.  Many requests run at once, and a  *)
(* message may arrive any number of times.                                 *)
(*                                                                         *)
(* The replay detector is SlidingWindow (ReplayDetector.tla implements     *)
(* it).  The server's key is KeyStore (HMACKey.tla implements it), so that *)
(* posts of keys may replace a key or empty it between any two reads; a    *)
(* read may fail.  HMACs are taken to be injective: a signature is the     *)
(* server key that the client's secret was derived from.                   *)
(* Time is the server's clock, bounded by MaxTime.                         *)
(***************************************************************************)
EXTENDS Integers

CONSTANTS
  Request,     \* the arrivals
  Message,     \* the messages clients may send: records, see below
  KeyPost,     \* the posts of a key that may be under way at a time
  Key,         \* the keys that may be set
  DefaultKey,  \* the empty key, in force until one is set
  None,
  Window,      \* slidingWindow
  MaxTime,     \* bound on the clock
  MaxRestarts  \* bound on the restarts of the server

(* full: no property of the message is null; hex: ID and Salt are hex       *)
(* strings; signedWith: the server key behind its HMAC, None if it is not   *)
(* the HMAC of this message at all.                                         *)
MessageType ==
  [salt : Int, for : {"bool", "location"}, full : BOOLEAN, hex : BOOLEAN,
   stamp : Int, signedWith : Key \union {DefaultKey, None}]

ASSUME ConstantsAssumption ==
  /\ Message \subseteq MessageType
  /\ {DefaultKey, None} \intersect Key = {} /\ DefaultKey # None
  /\ None \notin Message
  /\ Window \in Nat \ {0} /\ MaxTime \in Nat /\ MaxRestarts \in Nat

VARIABLES
  now,        \* the server's clock
  epoch,      \* the number of restarts
  pc,
  endpoint,   \* endpoint[r]: where r arrived
  msg,        \* msg[r]: the message r carries
  keyUsed,    \* keyUsed[r]: the key r's signature is validated with
  sightedAt,  \* sightedAt[r]: when r was shown to the replay detector
  verdict,    \* verdict[r]: isValid
  born,       \* born[r]: the epoch in which r arrived
  posted,     \* the requests whose location was committed
  response,   \* response[r]
  \* the variables of the key and of the replay detector
  file, pending, writing, overlapped,
  seen, answer, age, kept

requestVars  == <<pc, endpoint, msg, keyUsed, sightedAt, verdict, born, posted, response>>
detectorVars == <<seen, answer, age, kept>>
keyVars      == <<file, pending, writing, overlapped>>
vars         == <<now, epoch, keyVars, requestVars, detectorVars>>

(* Mutant: the detector remembers for as long as a message may be late. *)
SlidingWindowOnly == Window

(* new TimeSpan(slidingWindow.Ticks * 2): a message may be early or late.   *)
DetectorWindow == 2 * Window

Detector == INSTANCE SlidingWindow
              WITH Call <- Request, Thing <- Message, Window <- DetectorWindow

Store == INSTANCE KeyStore WITH Post <- KeyPost, Empty <- DefaultKey

Endpoint == {"time", "credential", "location"}

Response ==
  [status : {"none", "unsigned", "error"}]
    \union [status : {"signed"}, key : Key \union {DefaultKey}]

TypeOK ==
  /\ now \in 0..MaxTime
  /\ epoch \in 0..MaxRestarts
  /\ pc \in [Request -> {"idle", "validate", "compare", "sight", "domain",
                         "content", "reply", "done", "lost"}]
  /\ endpoint \in [Request -> Endpoint \union {None}]
  /\ msg \in [Request -> Message \union {None}]
  /\ keyUsed \in [Request -> Key \union {DefaultKey, None}]
  /\ sightedAt \in [Request -> 0..MaxTime]
  /\ verdict \in [Request -> {"none", "valid", "invalid"}]
  /\ born \in [Request -> 0..MaxRestarts]
  /\ posted \in SUBSET Request
  /\ response \in [Request -> Response]
  /\ Store!TypeOK
  /\ Detector!TypeOK
  /\ \A r \in Request : response[r].status # "none" <=> pc[r] = "done"

Init ==
  /\ now = 0
  /\ epoch = 0
  /\ pc = [r \in Request |-> "idle"]
  /\ endpoint = [r \in Request |-> None]
  /\ msg = [r \in Request |-> None]
  /\ keyUsed = [r \in Request |-> None]
  /\ sightedAt = [r \in Request |-> 0]
  /\ verdict = [r \in Request |-> "none"]
  /\ born = [r \in Request |-> 0]
  /\ posted = {}
  /\ response = [r \in Request |-> [status |-> "none"]]
  /\ Store!Init
  /\ Detector!Init

Goto(r, from, to) ==
  /\ pc[r] = from
  /\ pc' = [pc EXCEPT ![r] = to]

(* IsValidAsync returns (or throws, which is the same to it as invalid). *)
Conclude(r, from, v) ==
  /\ Goto(r, from, "content")
  /\ verdict' = [verdict EXCEPT ![r] = v]

(* Mutant: the handler goes on after it has responded. *)
RespondAndGoOn(r, from, what) ==
  /\ Goto(r, from, "reply")
  /\ response' = [response EXCEPT ![r] = what]

Respond(r, from, what) ==
  /\ Goto(r, from, "done")
  /\ response' = [response EXCEPT ![r] = what]

Error == [status |-> "error"]

(* Time and Credential take messages about a bool. *)
Accepts(e, m) == m.for = "location" <=> e = "location"

Receive(r, e, m) ==
  /\ Goto(r, "idle", "validate")
  /\ Accepts(e, m)
  /\ endpoint' = [endpoint EXCEPT ![r] = e]
  /\ msg' = [msg EXCEPT ![r] = m]
  /\ born' = [born EXCEPT ![r] = epoch]
  /\ UNCHANGED <<now, epoch, keyVars, keyUsed, sightedAt, verdict, posted, response, detectorVars>>

-----------------------------------------------------------------------------
(* Validator.IsValidAsync *)

RejectNotFull(r) ==
  /\ Conclude(r, "validate", "invalid")
  /\ ~msg[r].full
  /\ UNCHANGED <<now, epoch, keyVars, endpoint, msg, keyUsed, sightedAt, born, posted, response, detectorVars>>

DeriveCredential(r) ==
  /\ Goto(r, "validate", "compare")
  /\ msg[r].full
  /\ \E k \in Key \union {DefaultKey} :
       Store!CanRead(k) /\ keyUsed' = [keyUsed EXCEPT ![r] = k]
  /\ UNCHANGED <<now, epoch, keyVars, endpoint, msg, sightedAt, verdict, born, posted, response, detectorVars>>

DeriveFails(r) ==
  /\ Conclude(r, "validate", "invalid")
  /\ msg[r].full
  /\ UNCHANGED <<now, epoch, keyVars, endpoint, msg, keyUsed, sightedAt, born, posted, response, detectorVars>>

SignatureMatches(r) == msg[r].signedWith = keyUsed[r]

RejectSignature(r) ==
  /\ Conclude(r, "compare", "invalid")
  /\ ~SignatureMatches(r)
  /\ UNCHANGED <<now, epoch, keyVars, endpoint, msg, keyUsed, sightedAt, born, posted, response, detectorVars>>

AcceptSignature(r) ==
  /\ Goto(r, "compare", "sight")
  /\ SignatureMatches(r)
  /\ UNCHANGED <<now, epoch, keyVars, endpoint, msg, keyUsed, sightedAt, verdict, born, posted, response, detectorVars>>

SightNew(r) ==
  /\ Goto(r, "sight", "domain")
  /\ ~Detector!Remembered(msg[r])
  /\ Detector!See(r, msg[r])
  /\ sightedAt' = [sightedAt EXCEPT ![r] = now]
  /\ UNCHANGED <<now, epoch, keyVars, endpoint, msg, keyUsed, verdict, born, posted, response>>

RejectReplay(r) ==
  /\ Conclude(r, "sight", "invalid")
  /\ Detector!Remembered(msg[r])
  /\ Detector!See(r, msg[r])
  /\ sightedAt' = [sightedAt EXCEPT ![r] = now]
  /\ UNCHANGED <<now, epoch, keyVars, endpoint, msg, keyUsed, born, posted, response>>

Distance(t, u) == IF t < u THEN u - t ELSE t - u

(* Mutant: an off-by-one. *)
HardlyTimely(m, t) == Distance(t, m.stamp) < Window - 1

Timely(m, t) == Distance(t, m.stamp) < Window

(* FromHexStringAsync gives null for what is not hex, it does not throw: the *)
(* hex strings are not checked.                                              *)
IsHex(m) == TRUE

PassesDomainSpecificValidation(m) == Timely(m, now) /\ IsHex(m)

CheckDomain(r) ==
  /\ Conclude(r, "domain", IF PassesDomainSpecificValidation(msg[r]) THEN "valid" ELSE "invalid")
  /\ UNCHANGED <<now, epoch, keyVars, endpoint, msg, keyUsed, sightedAt, born, posted, response, detectorVars>>

-----------------------------------------------------------------------------
(* The content generators, MessageHandler's response and the error result *)

IsValid(r) == verdict[r] = "valid"

(* The time, or a new credential, whether the request was valid or not; and *)
(* the answer to a location that was not.  A credential needs the key.      *)
GenerateContent(r) ==
  /\ Goto(r, "content", "reply")
  /\ endpoint[r] = "location" => ~IsValid(r)
  /\ endpoint[r] = "credential" => \E k \in Key \union {DefaultKey} : Store!CanRead(k)
  /\ UNCHANGED <<now, epoch, keyVars, endpoint, msg, keyUsed, sightedAt, verdict, born, posted, response, detectorVars>>

(* A new credential is derived from the key, and the key cannot be read. *)
CredentialFails(r) ==
  /\ Respond(r, "content", Error)
  /\ endpoint[r] = "credential"
  /\ UNCHANGED <<now, epoch, keyVars, endpoint, msg, keyUsed, sightedAt, verdict, born, posted, detectorVars>>

(* Mutant: the transaction is not committed. *)
PostUncommitted(r) ==
  /\ Goto(r, "content", "reply")
  /\ endpoint[r] = "location" /\ IsValid(r)
  /\ UNCHANGED <<now, epoch, keyVars, endpoint, msg, keyUsed, sightedAt, verdict, born, posted,
                 response, detectorVars>>

PostLocation(r) ==
  /\ Goto(r, "content", "reply")
  /\ endpoint[r] = "location" /\ IsValid(r)
  /\ posted' = posted \union {r}
  /\ UNCHANGED <<now, epoch, keyVars, endpoint, msg, keyUsed, sightedAt, verdict, born, response, detectorVars>>

(* The database fails; its last failure may have come after the commit. *)
PostLocationFails(r) ==
  /\ Respond(r, "content", Error)
  /\ endpoint[r] = "location" /\ IsValid(r)
  /\ posted' \in {posted, posted \union {r}}
  /\ UNCHANGED <<now, epoch, keyVars, endpoint, msg, keyUsed, sightedAt, verdict, born, detectorVars>>

RespondUnsigned(r) ==
  /\ Respond(r, "reply", [status |-> "unsigned"])
  /\ ~IsValid(r)
  /\ UNCHANGED <<now, epoch, keyVars, endpoint, msg, keyUsed, sightedAt, verdict, born, posted, detectorVars>>

(* The client's secret is derived once more, from what the key is now. *)
RespondSigned(r) ==
  /\ \E k \in Key \union {DefaultKey} :
       Store!CanRead(k) /\ Respond(r, "reply", [status |-> "signed", key |-> k])
  /\ IsValid(r)
  /\ UNCHANGED <<now, epoch, keyVars, endpoint, msg, keyUsed, sightedAt, verdict, born, posted, detectorVars>>

RespondFails(r) ==
  /\ Respond(r, "reply", Error)
  /\ IsValid(r)
  /\ UNCHANGED <<now, epoch, keyVars, endpoint, msg, keyUsed, sightedAt, verdict, born, posted, detectorVars>>

-----------------------------------------------------------------------------
(* The surroundings *)

PostKey ==
  /\ Store!Step
  /\ UNCHANGED <<now, epoch, requestVars, detectorVars>>

Forget(r) ==
  /\ Detector!Forget(r)
  /\ UNCHANGED <<now, epoch, keyVars, requestVars>>

Tick ==
  /\ now < MaxTime
  /\ now' = now + 1
  /\ Detector!Tick
  /\ UNCHANGED <<epoch, keyVars, requestVars>>

(* The server ends and starts again: the requests and the posts of keys it  *)
(* was handling are lost, and the new detector remembers nothing.           *)
Restart ==
  /\ epoch < MaxRestarts
  /\ epoch' = epoch + 1
  /\ pc' = [r \in Request |-> IF pc[r] \in {"idle", "done"} THEN pc[r] ELSE "lost"]
  /\ kept' = {}
  /\ Store!Crash
  /\ UNCHANGED <<now, endpoint, msg, keyUsed, sightedAt, verdict, born, posted, response,
                 seen, answer, age>>

Validate(r) ==
  \/ RejectNotFull(r) \/ DeriveCredential(r) \/ DeriveFails(r)
  \/ RejectSignature(r) \/ AcceptSignature(r)
  \/ SightNew(r) \/ RejectReplay(r)
  \/ CheckDomain(r)

CreateResponse(r) ==
  \/ GenerateContent(r) \/ CredentialFails(r)
  \/ PostLocation(r) \/ PostLocationFails(r)
  \/ RespondUnsigned(r) \/ RespondSigned(r) \/ RespondFails(r)

Next ==
  \/ \E r \in Request, e \in Endpoint, m \in Message : Receive(r, e, m)
  \/ \E r \in Request : Validate(r) \/ CreateResponse(r) \/ Forget(r)
  \/ PostKey
  \/ Tick
  \/ Restart

Spec == Init /\ [][Next]_vars

-----------------------------------------------------------------------------

(* r was shown to the detector before its timestamp was acceptable, and     *)
(* was then slow to have it checked.                                        *)
SightedEarly(r) == sightedAt[r] < msg[r].stamp - Window

(* A message is accepted once: the detector remembers it for as long as its *)
(* timestamp is acceptable (README.md 21, CompositionRoot.cs 220-228).      *)
(* It takes a restart in between, or a request that was sighted early, for  *)
(* the same message to be accepted again.                                   *)
AcceptedOnce ==
  \A r, s \in Request :
    r # s /\ msg[r] = msg[s] /\ IsValid(r) /\ IsValid(s)
    => born[r] # born[s] \/ SightedEarly(r) \/ SightedEarly(s)

(* A client that signed with a credential derived from a real key of the    *)
(* server's can verify the response: both derivations of its secret agree,  *)
(* in spite of being two reads of the key (MessageHandler.cs 38 and 53).    *)
(* It takes two posts of keys that both found none to replace or empty the  *)
(* key in between.                                                          *)
SignedResponseVerifies ==
  \A r \in Request :
    response[r].status = "signed" /\ msg[r].signedWith # DefaultKey
    => overlapped \/ response[r].key = msg[r].signedWith

(* A location is acknowledged by a signed response only when it was         *)
(* committed, and committed only if its request was valid.                  *)
AcknowledgedIsCommitted ==
  \A r \in Request :
    /\ endpoint[r] = "location" /\ response[r].status = "signed" => r \in posted
    /\ r \in posted => IsValid(r) /\ msg[r].full /\ msg[r].signedWith = keyUsed[r]

(* t is less than a minute before or after the message's timestamp. *)
Around(m, t) == m.stamp - Window < t /\ t < m.stamp + Window

(* No false refusal: a full message, signed with the key that it is checked  *)
(* with and timely from its sighting to now, is valid unless it arrived more *)
(* than once between two restarts (Validator.cs 54-74).                      *)
UnrepeatedIsValid ==
  \A r \in Request :
    /\ pc[r] \in {"content", "reply", "done"}
    /\ msg[r].full /\ keyUsed[r] = msg[r].signedWith /\ keyUsed[r] # None
    /\ Around(msg[r], sightedAt[r]) /\ Around(msg[r], now)
    /\ \A s \in Request \ {r} : msg[s] # msg[r] \/ born[s] # born[r]
    => IsValid(r)

(* A signed request is invalid if its hex strings are not (README.md 58). *)
ValidIsHex == \A r \in Request : IsValid(r) => msg[r].hex

-----------------------------------------------------------------------------
(* The inductive invariant.  A request that is being handled arrived since  *)
(* the last restart, and has gone through the checks up to its place.       *)

BeingHandled == {"validate", "compare", "sight", "domain", "content", "reply"}

WellPlaced ==
  \A r \in Request :
    /\ IF pc[r] = "idle" THEN msg[r] = None
       ELSE msg[r] \in Message /\ endpoint[r] \in Endpoint
    /\ pc[r] \in BeingHandled => born[r] = epoch
    /\ born[r] <= epoch
    /\ pc[r] \in {"content", "reply", "done"} => verdict[r] # "none"
    /\ verdict[r] # "none" => pc[r] \in {"content", "reply", "done", "lost"}
    /\ response[r].status = "signed" => IsValid(r)

SightedInPlace ==
  \A r \in Request :
    /\ pc[r] \in {"idle", "validate", "compare", "sight"} => seen[r] = None
    /\ pc[r] = "domain" => answer[r] = "new"
    /\ seen[r] \in {None, msg[r]}
    /\ seen[r] = None <=> answer[r] = "none"

(* While no posts have overlapped, the key never changes once it is set: a  *)
(* secret is derived from it, or from the default key before that.          *)
KeyIsInForce ==
  \A r \in Request : keyUsed[r] \in {None, DefaultKey} \/ overlapped \/ keyUsed[r] = file

ChecksArePassed ==
  \A r \in Request :
    /\ pc[r] \in {"idle", "validate"} => keyUsed[r] = None
    /\ pc[r] = "compare" => msg[r].full /\ keyUsed[r] # None
    /\ pc[r] \in {"sight", "domain"} \/ IsValid(r) =>
         msg[r].full /\ keyUsed[r] # None /\ SignatureMatches(r)
    /\ IsValid(r) => answer[r] = "new" /\ sightedAt[r] < msg[r].stamp + Window

(* The detector's age of a sighting is the time since then ... *)
AgeIsElapsed ==
  \A r \in Request : seen[r] # None =>
    /\ sightedAt[r] <= now
    /\ IF age[r] < DetectorWindow THEN age[r] = now - sightedAt[r]
       ELSE now - sightedAt[r] >= DetectorWindow

(* ... it remembers those since the last restart and no others, for its     *)
(* whole window ...                                                         *)
RememberedForWindow ==
  /\ \A r \in kept : seen[r] # None /\ born[r] = epoch
  /\ \A r \in Request :
       seen[r] # None => r \in kept \/ age[r] = DetectorWindow \/ born[r] < epoch

(* ... and so two that were both new are a window apart. *)
NewAreApart ==
  \A r, s \in Request :
    /\ r # s /\ msg[r] = msg[s] /\ born[r] = born[s]
    /\ answer[r] = "new" /\ answer[s] = "new"
    => \/ sightedAt[r] + DetectorWindow <= sightedAt[s]
       \/ sightedAt[s] + DetectorWindow <= sightedAt[r]

(* A location's request is answered after its transaction. *)
CommittedBeforeReply ==
  \A r \in Request :
    pc[r] = "reply" /\ endpoint[r] = "location" /\ IsValid(r) => r \in posted

(* What is invalid though full and signed arrived before, or was sighted too *)
(* early, or is too old by now.                                              *)
RefusedForAReason ==
  \A r \in Request :
    /\ verdict[r] = "invalid" /\ msg[r].full /\ keyUsed[r] # None /\ SignatureMatches(r)
    => \/ \E s \in Request \ {r} : msg[s] = msg[r] /\ born[s] = born[r]
       \/ sightedAt[r] <= msg[r].stamp - Window
       \/ now >= msg[r].stamp + Window

IInv ==
  /\ TypeOK
  /\ WellPlaced
  /\ SightedInPlace
  /\ Store!PostsAreAlone
  /\ KeyIsInForce
  /\ ChecksArePassed
  /\ AgeIsElapsed
  /\ RememberedForWindow
  /\ NewAreApart
  /\ CommittedBeforeReply
  /\ RefusedForAReason
  /\ SignedResponseVerifies
  /\ AcknowledgedIsCommitted

=============================================================================
