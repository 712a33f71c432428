------------------------------- MODULE WebClient -------------------------------
(***************************************************************************)
(* The page that logs a client's locations: app/main.js and its Logger,    *)
(* lib/logger.js, with what they know of the server.                       *)
(*                                                                         *)
(* A script runs alone until it returns; its calls are answered later, in  *)
(* any order, or fail.  So each event of the page is one action: a click,  *)
(* a position, the callback of a call.  What a callback throws ends in the *)
(* console, and so does a call that failed: nobody is called back.         *)
(*                                                                         *)
(* The server checks a signed call and then serves it, which are two reads *)
(* of its key; RequestPipeline and SqlStore say what they consist of.  The *)
(* key is KeyStore (HMACKey.tla implements it): it may be posted, replaced *)
(* or emptied at any time.  The server keeps a record of the credential    *)
(* that it gave away for nobody: a secret is derived from its ID again.    *)
(* Salts are random and never the same twice, so that no message is a      *)
(* replay.  late stands for the time that passes: over a minute between    *)
(* the message's timestamp and its check.                                  *)
(***************************************************************************)
EXTENDS Wire, FiniteSets

CONSTANTS
  Call,        \* as many calls may be under way at a time
  ID,          \* the byte arrays the server draws as IDs, one after the other
  Salt,        \* the byte arrays that are drawn as salts
  Time,        \* Unix times
  Location,    \* records of a latitude and a longitude
  Asked,       \* the hex strings one may type to query locations
  KeyPost,     \* the posts of a key that may be under way at a time
  Key,         \* the keys that may be posted
  DefaultKey,  \* the server's key while there is none
  None,
  MaxFailures  \* bound on the calls that fail

ASSUME ClientAssumption ==
  /\ ID \in Seq(ByteArray)
  /\ \A m, n \in DOMAIN ID : ID[m] = ID[n] => m = n
  /\ Salt \subseteq ByteArray
  /\ Asked \subseteq HexString
  /\ Time \subseteq 0..(Weight[4] - 1)
  /\ Location \subseteq [latitude : Double, longitude : Double]
  /\ {DefaultKey, None} \intersect Key = {} /\ DefaultKey # None
  /\ MaxFailures \in Nat
  /\ None \notin BOOLEAN

VARIABLES
  \* the page
  credential,  \* logger.credential, None while it is {id: null, secret: null}
  enabled,     \* whether #generateNew is
  watching,    \* whether watchPosition was called
  output,      \* the rows of #locationOutput
  calls,       \* calls[c]: the call under way, None if there is none
  \* the server
  file, pending, writing, overlapped, \* its key
  issued,      \* how many credentials it has issued
  recorded,    \* the locations it has stored
  \* history
  failures,    \* how many calls have failed
  lost         \* whether a call for a credential has failed

pageVars   == <<credential, enabled, watching, output, calls>>
keyVars    == <<file, pending, writing, overlapped>>
serverVars == <<keyVars, issued, recorded>>
vars       == <<pageVars, serverVars, failures, lost>>

Store == INSTANCE KeyStore WITH Post <- KeyPost, Empty <- DefaultKey

Keys == Key \union {DefaultKey}

IssuedBy(k, n) == [id |-> ToHexString(ID[n]), secret |-> GenerateSecret(k, ID[n])]

Credential == {IssuedBy(k, n) : k \in Keys, n \in DOMAIN ID}

(* A row says which ID it is about, which only the page's user knows. *)
Row == [how : {"posted", "found"}, of : Asked \union {c.id : c \in Credential},
        location : Location \union {Arrived(l) : l \in Location}]

(* checked: by the server; empty: answered, and with no JSON at all. *)
Status == {"sent", "checked", "answered", "empty", "failed"}

Message ==
  [contents : HexString, id : {c.id : c \in Credential}, salt : {bytesToHex(s) : s \in Salt},
   unixTime : Time]

ASSUME MessageAssumption == None \notin Message

(* About is, of a call for a credential, whether its callback begins to     *)
(* watch; of a post, its location; of a query, the ID asked for.            *)
(* checkedWith is the key that the message is checked with, None until then *)
(* and if it cannot be read; contents are the contents of the answer.       *)
IsCall(call) ==
  /\ call \in [kind : {"credential", "post", "locations"}, about : {call.about},
              message : Message \union {None}, hmac : {call.hmac}, status : Status,
              late : BOOLEAN, checkedWith : Keys \union {None}, valid : BOOLEAN,
              contents : {call.contents}]
  /\ \/ call.kind = "credential" /\ call.about \in BOOLEAN
     \/ call.kind = "post" /\ call.about \in Location /\ call.message \in Message
     \/ call.kind = "locations" /\ call.about \in Asked /\ call.message = None

TypeOK ==
  /\ credential \in Credential \union {None}
  /\ {enabled, watching, lost} \subseteq BOOLEAN
  /\ output \in SUBSET Row
  /\ DOMAIN calls = Call
  /\ \A c \in Call : calls[c] # None => IsCall(calls[c])
  /\ Store!TypeOK
  /\ issued \in 0..Len(ID)
  /\ recorded \in SUBSET [id : {ID[n] : n \in 1..issued},
                         location : {Arrived(l) : l \in Location}]
  /\ failures \in 0..MaxFailures

-----------------------------------------------------------------------------
(* The page's events *)

Unsigned == [message |-> None, hmac |-> None]

(* The contents are in hex to be signed, and not in what is sent; here they *)
(* stay, and what is sent instead is in the call.                           *)
Sign(contents, salt, time) ==
  LET message == [contents |-> contents, id |-> credential.id, salt |-> bytesToHex(salt),
                  unixTime |-> time]
  IN  [message |-> message, hmac |-> getSignature(credential, message)]

NewCall(kind, about, signed) ==
  [kind |-> kind, about |-> about, message |-> signed.message, hmac |-> signed.hmac,
   status |-> "sent", late |-> FALSE, checkedWith |-> None, valid |-> FALSE, contents |-> None]

ajax(c, call) ==
  /\ calls[c] = None
  /\ calls' = [calls EXCEPT ![c] = call]

(* Mutant: the button stays enabled. *)
AlwaysEnabled == TRUE

(* generateCredentials disables #generateNew before it asks for one. *)
EnabledWhileAsking == FALSE

(* The page has been loaded and its script run: it asks for a credential,   *)
(* and is to watch the position when it has one.                            *)
Init ==
  /\ credential = None
  /\ enabled = EnabledWhileAsking
  /\ watching = FALSE
  /\ output = {}
  /\ \E c \in Call :
       calls = [d \in Call |-> IF d = c THEN NewCall("credential", TRUE, Unsigned) ELSE None]
  /\ Store!Init
  /\ issued = 0
  /\ recorded = {}
  /\ failures = 0
  /\ lost = FALSE

getCredential(c) ==
  IF credential = None
  THEN ajax(c, NewCall("credential", FALSE, Unsigned))
  ELSE \E s \in Salt, t \in Time :
         ajax(c, NewCall("credential", FALSE, Sign(trueByte, s, t)))

(* #generateNew is clicked; issued bounds how often. *)
Click(c) ==
  /\ enabled
  /\ issued < Len(ID)
  /\ enabled' = EnabledWhileAsking
  /\ getCredential(c)
  /\ UNCHANGED <<credential, watching, output, serverVars, failures, lost>>

(* Mutant: a location is posted without a credential, too. *)
OnPositionUnsigned(c, location) ==
  /\ watching
  /\ credential = None
  /\ ajax(c, NewCall("post", location, Unsigned))
  /\ UNCHANGED <<credential, enabled, watching, output, serverVars, failures, lost>>

(* A position comes in.  Without a credential postLocation throws. *)
OnPosition(c, location) ==
  /\ watching
  /\ credential # None
  /\ \E s \in Salt, t \in Time :
       ajax(c, NewCall("post", location, Sign(LocationToHex(location), s, t)))
  /\ UNCHANGED <<credential, enabled, watching, output, serverVars, failures, lost>>

Query(c, id) ==
  /\ ajax(c, NewCall("locations", id, Unsigned))
  /\ UNCHANGED <<credential, enabled, watching, output, serverVars, failures, lost>>

Return(c, kind) ==
  /\ calls[c] # None /\ calls[c].status = "answered" /\ calls[c].kind = kind
  /\ calls' = [calls EXCEPT ![c] = None]

(* Mutant: contents that are missing are taken for a credential, and the    *)
(* callback throws.                                                         *)
OnCredentialOrThrow(c) ==
  /\ Return(c, "credential")
  /\ credential' = calls[c].contents
  /\ enabled' = (enabled \/ calls[c].contents # None)
  /\ watching' = (watching \/ (calls[c].contents # None /\ calls[c].about))
  /\ UNCHANGED <<output, serverVars, failures, lost>>

(* The new credential is stored and shown, or {null, null} in its place. *)
OnCredential(c) ==
  /\ Return(c, "credential")
  /\ credential' = calls[c].contents
  /\ enabled' = TRUE
  /\ watching' = (watching \/ calls[c].about)
  /\ UNCHANGED <<output, serverVars, failures, lost>>

(* Mutant: the row is shown, whatever the answer. *)
OnPostedAnyway(c) ==
  /\ Return(c, "post")
  /\ output' = output \union
       {[how |-> "posted", of |-> calls[c].message.id, location |-> calls[c].about]}
  /\ UNCHANGED <<credential, enabled, watching, serverVars, failures, lost>>

(* A post that was not accepted throws. *)
OnPosted(c) ==
  /\ Return(c, "post")
  /\ output' = IF calls[c].contents = TRUE
               THEN output \union
                      {[how |-> "posted", of |-> calls[c].message.id, location |-> calls[c].about]}
               ELSE output
  /\ UNCHANGED <<credential, enabled, watching, serverVars, failures, lost>>

RowsOf(c) == {[how |-> "found", of |-> calls[c].about, location |-> l] : l \in calls[c].contents}

OnLocations(c) ==
  /\ Return(c, "locations")
  /\ output' = RowsOf(c)
  /\ UNCHANGED <<credential, enabled, watching, serverVars, failures, lost>>

(* Every callback throws; the one of a query has emptied the output before. *)
OnEmpty(c) ==
  /\ calls[c] # None /\ calls[c].status = "empty"
  /\ calls' = [calls EXCEPT ![c] = None]
  /\ output' = IF calls[c].kind = "locations" THEN {} ELSE output
  /\ lost' = (lost \/ calls[c].kind = "credential")
  /\ UNCHANGED <<credential, enabled, watching, serverVars, failures>>

(* console.error, and nothing else. *)
OnError(c) ==
  /\ calls[c] # None /\ calls[c].status = "failed"
  /\ calls' = [calls EXCEPT ![c] = None]
  /\ lost' = (lost \/ calls[c].kind = "credential")
  /\ UNCHANGED <<credential, enabled, watching, output, serverVars, failures>>

-----------------------------------------------------------------------------
(* The server, and the way there and back *)

IsAt(c, status, kind) == calls[c] # None /\ calls[c].status = status /\ calls[c].kind = kind

(* Contents as the server has them from the JSON. *)
ContentsArrived(call) ==
  IF call.kind = "post" THEN SerializeLocation(Arrived(call.about)) ELSE SerializeBool(TRUE)

(* The secret is derived from the ID, and the message serialized again. *)
IsSignedWith(call, k) ==
  call.hmac = HMAC(GenerateSecret(k, FromHexString(call.message.id)),
                   SerializeMessage(ContentsArrived(call), call.message))

(* A key that is being written cannot be read, and nothing is valid then.   *)
Check(c) ==
  /\ calls[c] # None /\ calls[c].status = "sent" /\ calls[c].message # None
  /\ \E k \in Keys \union {None}, late \in BOOLEAN :
       /\ Store!CanRead(k) \/ (k = None /\ writing # {})
       /\ calls' = [calls EXCEPT ![c].status = "checked", ![c].checkedWith = k, ![c].late = late,
                                ![c].valid = k # None /\ ~late /\ IsSignedWith(calls[c], k)]
  /\ UNCHANGED <<credential, enabled, watching, output, serverVars, failures, lost>>

(* The server is done with a call: what it found stays with it. *)
Close(c, status, contents) ==
  calls' = [calls EXCEPT ![c].status = status, ![c].contents = contents,
                         ![c].checkedWith = None, ![c].late = FALSE, ![c].valid = FALSE]

Answer(c, contents) == Close(c, "answered", contents)

(* Valid or not, a request for a credential gets a new one, of the key that *)
(* is in force by then.                                                     *)
ServeCredential(c) ==
  /\ IsAt(c, "checked", "credential") \/ (IsAt(c, "sent", "credential") /\ calls[c].message = None)
  /\ issued < Len(ID)
  /\ issued' = issued + 1
  /\ \E k \in Keys : Store!CanRead(k) /\ Answer(c, IssuedBy(k, issued'))
  /\ UNCHANGED <<credential, enabled, watching, output, keyVars, recorded, failures, lost>>

ServePost(c) ==
  /\ IsAt(c, "checked", "post")
  /\ recorded' = IF calls[c].valid
                 THEN recorded \union {[id |-> FromHexString(calls[c].message.id),
                                        location |-> Arrived(calls[c].about)]}
                 ELSE recorded
  /\ Answer(c, calls[c].valid)
  /\ UNCHANGED <<credential, enabled, watching, output, keyVars, issued, failures, lost>>

ServeLocations(c) ==
  /\ IsAt(c, "sent", "locations")
  /\ LET found == {l \in recorded : l.id = FromHexString(calls[c].about)}
     IN  Answer(c, {l.location : l \in found})
  /\ UNCHANGED <<credential, enabled, watching, output, serverVars, failures, lost>>

(* The server has to derive a secret, and cannot read its key. *)
ServeFails(c) ==
  /\ writing # {}
  /\ IsAt(c, "checked", "post") \/ IsAt(c, "checked", "credential") \/ IsAt(c, "sent", "credential")
  /\ Close(c, "failed", None)
  /\ UNCHANGED <<credential, enabled, watching, output, serverVars, failures, lost>>

Serve(c) ==
  Check(c) \/ ServeCredential(c) \/ ServePost(c) \/ ServeLocations(c) \/ ServeFails(c)

(* The call, or its answer, is lost; or the server answers with an error. *)
Fail(c) ==
  /\ failures < MaxFailures
  /\ calls[c] # None /\ calls[c].status \in {"sent", "checked", "answered"}
  /\ Close(c, "failed", None)
  /\ failures' = failures + 1
  /\ UNCHANGED <<credential, enabled, watching, output, serverVars, lost>>

(* Something between the two answers: it knows nothing of contents, or of   *)
(* JSON.                                                                    *)
AnswerForServer(c) ==
  /\ failures < MaxFailures
  /\ \/ /\ IsAt(c, "sent", "credential") \/ IsAt(c, "sent", "post")
        /\ Answer(c, None)
     \/ /\ calls[c] # None /\ calls[c].status = "sent"
        /\ Close(c, "empty", None)
  /\ failures' = failures + 1
  /\ UNCHANGED <<credential, enabled, watching, output, serverVars, lost>>

PostKey ==
  /\ Store!Next
  /\ UNCHANGED <<pageVars, issued, recorded, failures, lost>>

-----------------------------------------------------------------------------

Callback(c) ==
  OnCredential(c) \/ OnPosted(c) \/ OnLocations(c) \/ OnEmpty(c) \/ OnError(c)

Next ==
  \/ \E c \in Call :
       \/ Click(c)
       \/ \E l \in Location : OnPosition(c, l)
       \/ \E id \in Asked : Query(c, id)
       \/ Serve(c) \/ Fail(c) \/ AnswerForServer(c)
       \/ Callback(c)
  \/ PostKey

Spec == Init /\ [][Next]_vars

(* A call is answered or fails in the end (if nobody else does, the browser *)
(* gives up), and an answer's callback is run.                              *)
Proceed(c) == Serve(c) \/ Fail(c) \/ AnswerForServer(c) \/ Callback(c)

Fairness == \A c \in Call : WF_vars(Proceed(c))

FairSpec == Spec /\ Fairness

-----------------------------------------------------------------------------

(* When a credential was issued: the place of its ID. *)
Number(c) == CHOOSE n \in DOMAIN ID : ToHexString(ID[n]) = c.id

(* Answers may overtake one another, but no older credential ever replaces  *)
(* a newer one, which the page may have posted with (main.js 12 and 16: the *)
(* button is disabled while a call is under way).                           *)
NewerCredentials ==
  [][credential # None /\ credential' # None /\ credential' # credential
     => Number(credential) < Number(credential')]_vars

(* What the page shows is stored, as it arrived and under the ID that it is *)
(* shown for; and it shows the answer to one query at a time (main.js       *)
(* 30-36, logger.js 210).                                                   *)
ShownIsRecorded ==
  /\ \A row \in output :
       [id |-> FromHexString(row.of), location |-> Arrived(row.location)] \in recorded
  /\ \A r, s \in output : r.how = "found" /\ s.how = "found" => r.of = s.of

IsUnaltered(call) == call.kind = "post" => Arrived(call.about) = call.about

(* The server finds what the page signed valid, unless it came late or has  *)
(* a number that JSON alters: both sides, each in its own way, serialize a  *)
(* message to the same bytes (logger.js 83-93 and 190-200,                  *)
(* MessageSerializer.cs 29-32, CompositionRoot.cs 142-143).  For a          *)
(* credential of another key than it is checked with, because the key was   *)
(* set, replaced or emptied in between, nothing is promised.                *)
NoFalseRefusal ==
  \A c \in Call :
    /\ calls[c] # None /\ calls[c].status = "checked"
    /\ calls[c].hmac.keyedWith.keyedWith = calls[c].checkedWith
    /\ ~calls[c].late /\ IsUnaltered(calls[c])
    => calls[c].valid

(* Whatever the answers are, the page gets to watch the position, and its   *)
(* button is enabled again, unless a call for a credential failed or was    *)
(* answered with nothing (main.js 12-18, logger.js 168).                    *)
StuckOnlyByFailure == []<>(lost \/ (enabled /\ watching))

-----------------------------------------------------------------------------

(* The inductive invariant.  A credential is of some key, and known by one  *)
(* of the IDs that were drawn ...                                           *)
Known == {IssuedBy(k, n) : k \in Keys, n \in 1..issued}

(* ... and whatever is signed was signed with one. *)
IsSigned(call, contents, credentials) ==
  /\ call.message.contents = contents
  /\ \E c \in credentials : c.id = call.message.id /\ call.hmac = getSignature(c, call.message)

ContentsToSign(call) ==
  IF call.kind = "post" THEN LocationToHex(call.about) ELSE trueByte

CallFor(c, kind) == calls[c] # None /\ calls[c].kind = kind

Answered(c, kind) == CallFor(c, kind) /\ calls[c].status = "answered"

(* No credential is asked for while another is under way. *)
OneCredentialAtATime ==
  /\ \A c \in Call : CallFor(c, "credential") => ~enabled
  /\ \A c, d \in Call : CallFor(c, "credential") /\ CallFor(d, "credential") => c = d

CredentialsAreKnown ==
  /\ credential # None => credential \in Known
  /\ \A c \in Call : Answered(c, "credential") /\ calls[c].contents # None =>
       /\ calls[c].contents \in Known
       /\ credential # None => Number(credential) < Number(calls[c].contents)

CallsAreSigned ==
  \A c \in Call : calls[c] # None /\ calls[c].message # None =>
    IsSigned(calls[c], ContentsToSign(calls[c]), Known)

(* What an answer tells the page is stored. *)
AnswersAreRecorded ==
  \A c \in Call :
    /\ Answered(c, "post") /\ calls[c].contents = TRUE =>
         [id |-> FromHexString(calls[c].message.id), location |-> Arrived(calls[c].about)]
           \in recorded
    /\ Answered(c, "locations") =>
         \A l \in calls[c].contents :
           [id |-> FromHexString(calls[c].about), location |-> l] \in recorded

IInv ==
  /\ TypeOK
  /\ OneCredentialAtATime
  /\ CredentialsAreKnown
  /\ CallsAreSigned
  /\ AnswersAreRecorded
  /\ ShownIsRecorded
  /\ NoFalseRefusal

=============================================================================
