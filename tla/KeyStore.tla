-------------------------------- MODULE KeyStore --------------------------------
(***************************************************************************)
(* What the rest of the server sees of its HMAC key: the key's file and    *)
(* the posts that have found it missing.  HMACKey implements it, with the  *)
(* file's streams and their sharing; RequestPipeline and WebClient use it. *)
(*                                                                         *)
(* It is not a variable that is set once.  A post looks for the file,      *)
(* empties it and writes it in three steps, so that of several posts that  *)
(* have looked each replaces the key of the one before; and one that fails *)
(* after the second step leaves the file empty, which is the same as no    *)
(* key to whoever reads it and a key to whoever looks for one.             *)
(***************************************************************************)
CONSTANTS
  Post,   \* the posts that may be under way at a time
  Key,    \* the keys of full length
  Empty,  \* no bytes: DefaultKey, and the contents of an emptied file
  None    \* no file

VARIABLES
  file,       \* what is in the key's file, None while there is none
  pending,    \* the posts that have found none and not opened it yet
  writing,    \* the posts that have it open
  overlapped  \* history: a post found none while another was pending or writing

storeVars == <<file, pending, writing, overlapped>>

TypeOK ==
  /\ file \in Key \union {Empty, None}
  /\ pending \in SUBSET Post
  /\ writing \in SUBSET Post
  /\ overlapped \in BOOLEAN

Init ==
  /\ file = None
  /\ pending = {}
  /\ writing = {}
  /\ overlapped = FALSE

Posting == pending \union writing

(* Mutant: the file is looked for in the wrong place. *)
IsNeverSet == FALSE

IsSet == file # None

PassChecks(p) ==
  /\ ~IsSet
  /\ p \notin Posting
  /\ pending' = pending \union {p}
  /\ overlapped' = (overlapped \/ Posting # {})
  /\ UNCHANGED <<file, writing>>

(* One post at a time has the file open, and empties it. *)
Open(p) ==
  /\ p \in pending /\ writing = {}
  /\ file' = Empty
  /\ pending' = pending \ {p}
  /\ writing' = {p}
  /\ UNCHANGED overlapped

(* Another post, or a read, has it open. *)
OpenFails(p) ==
  /\ p \in pending
  /\ pending' = pending \ {p}
  /\ UNCHANGED <<file, writing, overlapped>>

Write(p) ==
  /\ p \in writing
  /\ file' \in Key
  /\ writing' = writing \ {p}
  /\ UNCHANGED <<pending, overlapped>>

WriteFails(p) ==
  /\ p \in writing
  /\ writing' = writing \ {p}
  /\ UNCHANGED <<file, pending, overlapped>>

(* The process ends, with the posts that were under way. *)
Crash ==
  /\ pending' = {}
  /\ writing' = {}
  /\ UNCHANGED <<file, overlapped>>

Step ==
  \E p \in Post : PassChecks(p) \/ Open(p) \/ OpenFails(p) \/ Write(p) \/ WriteFails(p)

Next == Step \/ Crash

Spec == Init /\ [][Next]_storeVars

(* What a read gives that does not fail; it cannot open the file while a    *)
(* post has it open.                                                        *)
CanRead(k) == writing = {} /\ k = IF file = None THEN Empty ELSE file

(* Without overlapping, only one post is under way, and no key is in force  *)
(* yet: none is ever replaced.                                              *)
PostsAreAlone ==
  /\ pending \intersect writing = {}
  /\ \A p, q \in writing : p = q
  /\ writing # {} => file = Empty
  /\ overlapped \/ /\ \A p, q \in Posting : p = q
                   /\ Posting # {} => file \notin Key

=============================================================================
