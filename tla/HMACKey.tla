-------------------------------- MODULE HMACKey --------------------------------
(***************************************************************************)
(* The server's HMAC key: Common.Security.HMACKey kept in one file by      *)
(* Common.LocalStorage.PhysicalStorage (CompositionRoot registers it bare, *)
(* without ConcurrentStorage), the two operations of HMACKeyController on  *)
(* it, and the key reads of every other request.                           *)
(*                                                                         *)
(* Each await is a point where other requests run.  File.Open follows the  *)
(* FileShare contract: a writer (FileShare.None) and a reader              *)
(* (FileShare.Read) exclude each other and fail, they do not wait.         *)
(* FileMode.Create empties the file; what WriteAsync wrote reaches it when *)
(* the stream is disposed.  The process may crash at any time; the file    *)
(* stays as it is.                                                         *)
(*                                                                         *)
(* A request's identifier is free again once it was answered, so there is  *)
(* no bound on how many requests follow one another.                       *)
(***************************************************************************)
EXTENDS FiniteSets

CONSTANTS
  Request,  \* the requests that may be in progress at a time
  LongKey,  \* keys of at least KeySize bytes
  ShortKey, \* non-empty keys that are shorter
  Empty,    \* no bytes: DefaultKey, and the contents of an emptied file
  None      \* a null key; no file; no answer

ASSUME KeysAssumption ==
  /\ LongKey \intersect ShortKey = {}
  /\ {Empty, None} \intersect (LongKey \union ShortKey) = {}
  /\ Empty # None

VARIABLES
  file,        \* what is in the key's file, None while there is no file
  writer,      \* the requests that have the file open for writing
  readers,     \* the requests that have it open for reading
  pc,
  newKey,      \* newKey[q]: the key request q posted
  reply,       \* reply[q]: what q was last answered
  overlapped,  \* history: two posts were both past the "already set" check
  torn         \* history: a crash or a failed write left the file emptied

vars == <<file, writer, readers, pc, newKey, reply, overlapped, torn>>

PC == {"idle", "isSet", "open", "write", "exists", "openRead", "read"}

Error == {"noKey", "alreadySet", "tooShort", "sharing", "io"}

Reply ==
  [tag : {"none", "ok"} \union Error]
    \union [tag : {"isSet"}, value : BOOLEAN]
    \union [tag : {"key"}, value : LongKey \union {Empty}]

NoReply == [tag |-> "none"]

TypeOK ==
  /\ file \in LongKey \union {Empty, None}
  /\ writer \in SUBSET Request
  /\ readers \in SUBSET Request
  /\ pc \in [Request -> PC]
  /\ newKey \in [Request -> LongKey \union ShortKey \union {None}]
  /\ reply \in [Request -> Reply]
  /\ overlapped \in BOOLEAN
  /\ torn \in BOOLEAN

Init ==
  /\ file = None
  /\ writer = {}
  /\ readers = {}
  /\ pc = [q \in Request |-> "idle"]
  /\ newKey = [q \in Request |-> None]
  /\ reply = [q \in Request |-> NoReply]
  /\ overlapped = FALSE
  /\ torn = FALSE

Goto(q, from, to) ==
  /\ pc[q] = from
  /\ pc' = [pc EXCEPT ![q] = to]

Answer(q, r) == reply' = [reply EXCEPT ![q] = r]

Fail(q, from, error) ==
  /\ Goto(q, from, "idle")
  /\ Answer(q, [tag |-> error])
  /\ UNCHANGED <<file, writer, readers, newKey, overlapped, torn>>

-----------------------------------------------------------------------------
(* POST /api/hmackey: HMACKey.SetAsync *)

PostKey(q, k) ==
  /\ Goto(q, "idle", "isSet")
  /\ newKey' = [newKey EXCEPT ![q] = k]
  /\ Answer(q, NoReply)
  /\ UNCHANGED <<file, writer, readers, overlapped, torn>>

(* Null is what FromHexStringAsync makes of no key and of one that is not hex. *)
PostNull(q) == Fail(q, "idle", "noKey")

(* Mutants of ExistsAsync: it looks in the wrong place; it ignores an empty file. *)
ExistsNowhere == FALSE
ExistsInFull  == file \in LongKey

Exists == file # None

AlreadySet(q) ==
  /\ Exists
  /\ Fail(q, "isSet", "alreadySet")

IsShort(q) == newKey[q] \in ShortKey

TooShort(q) ==
  /\ ~Exists
  /\ IsShort(q)
  /\ Fail(q, "isSet", "tooShort")

(* The posts that will write the file, whatever happened since their check. *)
Posting == {q \in Request : pc[q] \in {"open", "write"}}

PassChecks(q) ==
  /\ Goto(q, "isSet", "open")
  /\ ~Exists
  /\ ~IsShort(q)
  /\ overlapped' = (overlapped \/ Posting # {})
  /\ UNCHANGED <<file, writer, readers, newKey, reply, torn>>

(* Mutant: FileShare.ReadWrite. *)
CanAlwaysOpen == TRUE

CanOpenToWrite == writer = {} /\ readers = {}
CanOpenToRead  == writer = {}

OpenToWrite(q) ==
  /\ Goto(q, "open", "write")
  /\ CanOpenToWrite
  /\ file' = Empty
  /\ writer' = writer \union {q}
  /\ UNCHANGED <<readers, newKey, reply, overlapped, torn>>

WriteSharingViolation(q) ==
  /\ ~CanOpenToWrite
  /\ Fail(q, "open", "sharing")

(* Mutant: the stream is closed without its buffer. *)
CloseUnwritten(q) ==
  /\ Goto(q, "write", "idle")
  /\ writer' = writer \ {q}
  /\ Answer(q, [tag |-> "ok"])
  /\ UNCHANGED <<file, readers, newKey, overlapped, torn>>

WriteAndClose(q) ==
  /\ Goto(q, "write", "idle")
  /\ file' = newKey[q]
  /\ writer' = writer \ {q}
  /\ Answer(q, [tag |-> "ok"])
  /\ UNCHANGED <<readers, newKey, overlapped, torn>>

(* The write fails, on a full disk for one; the stream is closed all the same. *)
WriteFails(q) ==
  /\ Goto(q, "write", "idle")
  /\ writer' = writer \ {q}
  /\ Answer(q, [tag |-> "io"])
  /\ torn' = TRUE
  /\ UNCHANGED <<file, readers, newKey, overlapped>>

-----------------------------------------------------------------------------
(* GET /api/hmackey: HMACKey.IsSetAsync *)

GetIsSet(q) ==
  /\ pc[q] = "idle"
  /\ Answer(q, [tag |-> "isSet", value |-> Exists])
  /\ UNCHANGED <<file, writer, readers, pc, newKey, overlapped, torn>>

-----------------------------------------------------------------------------
(* HMACKey.GetCurrentAsync *)

GetCurrent(q) ==
  /\ Goto(q, "idle", "exists")
  /\ Answer(q, NoReply)
  /\ UNCHANGED <<file, writer, readers, newKey, overlapped, torn>>

(* GetAsync gives null when there is no file, which stands for DefaultKey. *)
UseDefaultKey(q) ==
  /\ Goto(q, "exists", "idle")
  /\ ~Exists
  /\ Answer(q, [tag |-> "key", value |-> Empty])
  /\ UNCHANGED <<file, writer, readers, newKey, overlapped, torn>>

FileExists(q) ==
  /\ Goto(q, "exists", "openRead")
  /\ Exists
  /\ UNCHANGED <<file, writer, readers, newKey, reply, overlapped, torn>>

OpenToRead(q) ==
  /\ Goto(q, "openRead", "read")
  /\ CanOpenToRead
  /\ readers' = readers \union {q}
  /\ UNCHANGED <<file, writer, newKey, reply, overlapped, torn>>

ReadSharingViolation(q) ==
  /\ ~CanOpenToRead
  /\ Fail(q, "openRead", "sharing")

ReadAndClose(q) ==
  /\ Goto(q, "read", "idle")
  /\ readers' = readers \ {q}
  /\ Answer(q, [tag |-> "key", value |-> file])
  /\ UNCHANGED <<file, writer, newKey, overlapped, torn>>

-----------------------------------------------------------------------------

(* The process ends with whatever it was doing, and is started again. *)
Crash ==
  /\ writer' = {}
  /\ readers' = {}
  /\ pc' = [q \in Request |-> "idle"]
  /\ newKey' = [q \in Request |-> None]
  /\ reply' = [q \in Request |-> NoReply]
  /\ torn' = (torn \/ writer # {})
  /\ UNCHANGED <<file, overlapped>>

Next ==
  \/ \E q \in Request :
       \/ \E k \in LongKey \union ShortKey : PostKey(q, k)
       \/ PostNull(q) \/ AlreadySet(q) \/ TooShort(q) \/ PassChecks(q)
       \/ OpenToWrite(q) \/ WriteSharingViolation(q) \/ WriteAndClose(q)
       \/ WriteFails(q)
       \/ GetIsSet(q)
       \/ GetCurrent(q) \/ UseDefaultKey(q) \/ FileExists(q)
       \/ OpenToRead(q) \/ ReadSharingViolation(q) \/ ReadAndClose(q)
  \/ Crash

Spec == Init /\ [][Next]_vars

-----------------------------------------------------------------------------

(* A key that was stored is never replaced or lost, by a crash neither      *)
(* ("if it hasn't already been set", HMACKeyController.cs 37).              *)
KeyIsWriteOnce == [][(file \in LongKey) => (file' = file)]_vars

(* It holds as long as no two posts have passed the check at one time.      *)
WriteOnceUnlessOverlapped ==
  [][(file \in LongKey /\ ~overlapped) => (file' = file)]_vars

(* No request works with a key that was never posted in full: it gets a     *)
(* stored key, or the default one from before any was stored - unless a     *)
(* crash or a failed write left an emptied file (PhysicalStorage.cs 35, 46). *)
ReadsAreWhole ==
  \A q \in Request : pc[q] = "read" => file \in LongKey \/ torn

(* When no post is under way, the file is there exactly when a key of full  *)
(* length is in force: what IsSetAsync says is what requests work with...   *)
SetMeansKeyed == Posting = {} /\ Exists => file \in LongKey

(* ... unless a post was torn. *)
SetMeansKeyedUnlessTorn == SetMeansKeyed \/ torn

(* From then on every post is refused: the key stays empty for good.        *)
TornStaysEmpty ==
  [][(torn /\ file = Empty /\ Posting = {}) => (file' = Empty /\ Posting' = {})]_vars

-----------------------------------------------------------------------------
(* What the rest of the server may rely on *)

Store == INSTANCE KeyStore
           WITH Post <- Request, Key <- LongKey, writing <- writer,
                pending <- {q \in Request : pc[q] = "open"}

(* Whatever its streams do, the key is a KeyStore, and to read it is one    *)
(* step: the key that a request gets was in force when the request got it,  *)
(* although it looked for the file before (PhysicalStorage.cs 33-40).       *)
ImplementsKeyStore ==
  /\ Store!Spec
  /\ [][\A q \in Request : reply'[q].tag = "key" /\ reply'[q] # reply[q]
                            => Store!CanRead(reply'[q].value)]_vars

-----------------------------------------------------------------------------

(* The handles are those of the requests between opening and closing, and   *)
(* exclude each other as FileShare says.                                    *)
HandlesExclude ==
  /\ writer = {q \in Request : pc[q] = "write"}
  /\ readers = {q \in Request : pc[q] = "read"}
  /\ \A p, q \in writer : p = q
  /\ writer # {} => readers = {}

PostsAreLong ==
  \A q \in Request :
    /\ pc[q] = "isSet" => newKey[q] # None
    /\ pc[q] \in {"open", "write"} \/ reply[q].tag = "ok" => newKey[q] \in LongKey

(* The file is empty while it is being written, or because it was torn. *)
EmptyIsInProgress ==
  /\ writer # {} => file = Empty
  /\ file = Empty => writer # {} \/ torn
  /\ torn => file # None

FileIsThereToRead == \A q \in Request : pc[q] \in {"openRead", "read"} => file # None

(* Without overlapping, only one request posts, and no key is in force yet. *)
PostsAreAlone ==
  overlapped \/ /\ \A p, q \in Posting : p = q
                /\ Posting # {} => file \notin LongKey

IInv ==
  /\ TypeOK
  /\ HandlesExclude
  /\ PostsAreLong
  /\ EmptyIsInProgress
  /\ FileIsThereToRead
  /\ PostsAreAlone

=============================================================================
