--------------------------- MODULE ConcurrentStorage ---------------------------
(***************************************************************************)
(* Common.LocalStorage.ConcurrentStorage over a PhysicalStorage: what a    *)
(* lock per key makes of a file per sanitized key.                         *)
(*                                                                         *)
(* A call runs on a thread of its own, under the lock of its key.  The     *)
(* lock is what Locker is: KeyLocks, one holder at a time until calls that *)
(* leave a key have raced, who may lock again (in GetOrAddAsync, the calls *)
(* of Exists, Get and Set).  The holder waits for each of the storage's    *)
(* tasks, so a task is a step of its call.  Files are opened as in         *)
(* HMACKey: who meets another's stream that does not share the file fails, *)
(* and a write empties the file first.                                     *)
(*                                                                         *)
(* Null keys are left out: nothing is locked, found or stored for them.    *)
(***************************************************************************)
EXTENDS PathSanitizer, FiniteSets

CONSTANTS
  Thread,  \* the calls that may be in progress at a time
  Name,    \* the keys they are made with, some of Path
  Value,   \* the contents that are stored
  Empty,   \* the contents of an emptied file
  None     \* null; no file

ASSUME ValuesAssumption == {Empty, None} \intersect Value = {} /\ Empty # None

ASSUME NameAssumption == Name \subseteq Path /\ None \notin Name

VARIABLES
  file,    \* from a file's name to its contents, None while there is no file
  pc,
  call,    \* call[t]: the operation, its key, and the contents to store
  answer,  \* answer[t]: how the last call ended
  stored,  \* history: stored[n] is what was ever stored under n in full
  torn,    \* history: the files that a failed write left emptied
  raced    \* history: see KeyLocks

vars == <<file, pc, call, answer, stored, torn, raced>>

(* To the file system, names that differ in case only are one file's. *)
FileOf == [n \in Name |-> Folded(SanitizeAsync(n))]

File == {FileOf[n] : n \in Name}

Operation == {"exists", "get", "set", "getOrAdd"}

PC == {"idle", "lock", "exists", "add", "getExists", "openRead", "read", "open", "write", "leave"}

Holding == PC \ {"idle", "lock", "leave"}

Error == {"sharing", "io", "addThrew", "ringGone"}

Answer == [tag : {"none", "ok"} \union Error]
            \union [tag : {"exists"}, value : BOOLEAN]
            \union [tag : {"got"}, value : Value \union {Empty, None}]

NoAnswer == [tag |-> "none"]

Request == [operation : Operation, key : Name, contents : Value \union {None}]

NoCall == [operation |-> None, key |-> None, contents |-> None]

TypeOK ==
  /\ file \in [File -> Value \union {Empty, None}]
  /\ pc \in [Thread -> PC]
  /\ call \in [Thread -> Request \union {NoCall}]
  /\ \A t \in Thread : pc[t] # "idle" => call[t] \in Request
  /\ answer \in [Thread -> Answer]
  /\ stored \in [Name -> SUBSET Value]
  /\ torn \in SUBSET File
  /\ raced \in BOOLEAN

Init ==
  /\ file = [f \in File |-> None]
  /\ pc = [t \in Thread |-> "idle"]
  /\ call = [t \in Thread |-> NoCall]
  /\ answer = [t \in Thread |-> NoAnswer]
  /\ stored = [n \in Name |-> {}]
  /\ torn = {}
  /\ raced = FALSE

Lock == INSTANCE KeyLocks
          WITH Call <- Thread, Key <- Name,
               holds <- [t \in Thread |-> IF pc[t] \in Holding THEN call[t].key ELSE None],
               leaves <- [t \in Thread |-> IF pc[t] = "leave" THEN call[t].key ELSE None],
               gone <- {t \in Thread : answer[t].tag = "ringGone"}

Goto(t, from, to) ==
  /\ pc[t] = from
  /\ pc' = [pc EXCEPT ![t] = to]

(* The action ends, and its lock is released. *)
Return(t, from, a) ==
  /\ Goto(t, from, "leave")
  /\ answer' = [answer EXCEPT ![t] = a]
  /\ UNCHANGED <<call, raced>>

FileNow(t) == FileOf[call[t].key]

Users(t, steps) == {u \in Thread \ {t} : pc[u] \in steps /\ FileNow(u) = FileNow(t)}

-----------------------------------------------------------------------------

Call(t, operation, n, v) ==
  /\ Goto(t, "idle", "lock")
  /\ call' = [call EXCEPT ![t] = [operation |-> operation, key |-> n, contents |-> v]]
  /\ answer' = [answer EXCEPT ![t] = NoAnswer]
  /\ UNCHANGED <<file, stored, torn, raced>>

(* Where a call begins once it has the lock. *)
FirstStep == [exists |-> "exists", get |-> "getExists", set |-> "open", getOrAdd |-> "exists"]

(* Mutant: GetOrAddAsync leaves the locking to the calls it makes. *)
LockUnlessGetOrAdd(t) ==
  /\ Goto(t, "lock", FirstStep[call[t].operation])
  /\ UNCHANGED <<file, call, answer, stored, torn, raced>>
  /\ call[t].operation = "getOrAdd" \/ Lock!Enter(t, call[t].key)

DoLocked(t) ==
  /\ Goto(t, "lock", FirstStep[call[t].operation])
  /\ UNCHANGED <<file, call, answer, stored, torn>>
  /\ Lock!Enter(t, call[t].key)

Leave(t) ==
  /\ Goto(t, "leave", "idle")
  /\ call' = [call EXCEPT ![t] = NoCall]
  /\ UNCHANGED <<file, answer, stored, torn>>
  /\ Lock!Depart(t)

(* What the locker throws takes the place of what the call returned or threw. *)
LeaveRingGone(t) ==
  /\ raced
  /\ Goto(t, "leave", "idle")
  /\ call' = [call EXCEPT ![t] = NoCall]
  /\ answer' = [answer EXCEPT ![t] = [tag |-> "ringGone"]]
  /\ UNCHANGED <<file, stored, torn>>
  /\ Lock!Depart(t)

(* A call that is leaving takes out the last hat while another leaves, too. *)
Race(t) ==
  /\ pc[t] = "leave"
  /\ UNCHANGED <<file, pc, call, answer, stored, torn>>
  /\ Lock!Race(call[t].key)

(* In a get-or-add, the calls it makes may throw it.  If Exists does, that  *)
(* is all; if Get or Set does, it is as if the call threw it on leaving.    *)
ExistsRingGone(t) ==
  /\ raced /\ call[t].operation = "getOrAdd"
  /\ pc[t] \in {"add", "getExists"}
  /\ Return(t, pc[t], [tag |-> "ringGone"])
  /\ UNCHANGED <<file, stored, torn>>

Exists(t) == file[FileNow(t)] # None

ExistsAsync(t) ==
  /\ pc[t] = "exists" /\ call[t].operation = "exists"
  /\ Return(t, "exists", [tag |-> "exists", value |-> Exists(t)])
  /\ UNCHANGED <<file, stored, torn>>

(* Mutant: it adds in any case. *)
AlwaysAdd(t) ==
  /\ Goto(t, "exists", "add")
  /\ call[t].operation = "getOrAdd"
  /\ UNCHANGED <<file, call, answer, stored, torn, raced>>

GetOrAdd(t) ==
  /\ pc[t] = "exists" /\ call[t].operation = "getOrAdd"
  /\ Goto(t, "exists", IF Exists(t) THEN "getExists" ELSE "add")
  /\ UNCHANGED <<file, call, answer, stored, torn, raced>>

Add(t) ==
  /\ Goto(t, "add", "open")
  /\ \E v \in Value \union {None} : call' = [call EXCEPT ![t].contents = v]
  /\ UNCHANGED <<file, answer, stored, torn, raced>>

AddThrows(t) ==
  /\ Return(t, "add", [tag |-> "addThrew"])
  /\ UNCHANGED <<file, stored, torn>>

(* A set returns nothing, a get-or-add what it added. *)
Stored(t) ==
  IF call[t].operation = "set" THEN [tag |-> "ok"]
  ELSE [tag |-> "got", value |-> call[t].contents]

(* Null contents are not stored. *)
SetNull(t) ==
  /\ pc[t] = "open" /\ call[t].contents = None
  /\ Return(t, "open", Stored(t))
  /\ UNCHANGED <<file, stored, torn>>

Fail(t, from, error) ==
  /\ Return(t, from, [tag |-> error])
  /\ UNCHANGED <<file, stored, torn>>

(* Mutant: null contents are stored. *)
OpenForAnything(t) ==
  /\ Goto(t, "open", "write")
  /\ Users(t, {"read", "write"}) = {}
  /\ file' = [file EXCEPT ![FileNow(t)] = Empty]
  /\ UNCHANGED <<call, answer, stored, torn, raced>>

OpenToWrite(t) ==
  /\ Goto(t, "open", "write")
  /\ call[t].contents # None
  /\ Users(t, {"read", "write"}) = {}
  /\ file' = [file EXCEPT ![FileNow(t)] = Empty]
  /\ UNCHANGED <<call, answer, stored, torn, raced>>

WriteSharingViolation(t) ==
  /\ pc[t] = "open" /\ call[t].contents # None
  /\ Users(t, {"read", "write"}) # {}
  /\ Fail(t, "open", "sharing")

(* Mutant: the stream is closed without its buffer. *)
CloseUnwritten(t) ==
  /\ pc[t] = "write"
  /\ Return(t, "write", Stored(t))
  /\ stored' = [stored EXCEPT ![call[t].key] = @ \union {call[t].contents}]
  /\ UNCHANGED <<file, torn>>

WriteAndClose(t) ==
  /\ pc[t] = "write"
  /\ Return(t, "write", Stored(t))
  /\ file' = [file EXCEPT ![FileNow(t)] = call[t].contents]
  /\ stored' = [stored EXCEPT ![call[t].key] = @ \union {call[t].contents}]
  /\ UNCHANGED torn

WriteFails(t) ==
  /\ Return(t, "write", [tag |-> "io"])
  /\ torn' = torn \union {FileNow(t)}
  /\ UNCHANGED <<file, stored>>

GetNull(t) ==
  /\ pc[t] = "getExists" /\ ~Exists(t)
  /\ Return(t, "getExists", [tag |-> "got", value |-> None])
  /\ UNCHANGED <<file, stored, torn>>

GetExisting(t) ==
  /\ Goto(t, "getExists", "openRead")
  /\ Exists(t)
  /\ UNCHANGED <<file, call, answer, stored, torn, raced>>

OpenToRead(t) ==
  /\ Goto(t, "openRead", "read")
  /\ Users(t, {"write"}) = {}
  /\ UNCHANGED <<file, call, answer, stored, torn, raced>>

ReadSharingViolation(t) ==
  /\ pc[t] = "openRead" /\ Users(t, {"write"}) # {}
  /\ Fail(t, "openRead", "sharing")

ReadAndClose(t) ==
  /\ pc[t] = "read"
  /\ Return(t, "read", [tag |-> "got", value |-> file[FileNow(t)]])
  /\ UNCHANGED <<file, stored, torn>>

Step(t) ==
  \/ ExistsAsync(t) \/ ExistsRingGone(t)
  \/ GetOrAdd(t) \/ Add(t) \/ AddThrows(t)
  \/ SetNull(t) \/ OpenToWrite(t) \/ WriteSharingViolation(t) \/ WriteAndClose(t) \/ WriteFails(t)
  \/ GetNull(t) \/ GetExisting(t) \/ OpenToRead(t) \/ ReadSharingViolation(t) \/ ReadAndClose(t)

Next == \E t \in Thread :
  \/ \E n \in Name : \/ \E o \in Operation \ {"set"} : Call(t, o, n, None)
                     \/ \E v \in Value \union {None} : Call(t, "set", n, v)
  \/ DoLocked(t)
  \/ Step(t)
  \/ Leave(t) \/ LeaveRingGone(t) \/ Race(t)

Spec == Init /\ [][Next]_vars

-----------------------------------------------------------------------------

(* Names that stand for the file of another name, too. *)
SharesFile(n) == \E m \in Name \ {n} : FileOf[m] = FileOf[n]

(* One call at a time holds a key's lock, unless the lock was lost. *)
OneHolds ==
  raced \/ \A t, u \in Thread :
             pc[t] \in Holding /\ pc[u] \in Holding /\ call[t].key = call[u].key => t = u

(* A file's stream for writing is shared with no other, lock or no lock. *)
WritersAreAlone == \A t \in Thread : pc[t] = "write" => Users(t, {"read", "write"}) = {}

(* What a call is about to write is not null, and it was asked to.  *)
WritersHaveContents ==
  \A t \in Thread :
    /\ pc[t] = "write" => call[t].contents # None
    /\ pc[t] = "add" => call[t].operation = "getOrAdd"

(* From its look to its write, a get-or-add's file stays away. *)
AddsToNothing ==
  raced \/ \A t \in Thread :
             /\ pc[t] = "add" \/ (pc[t] = "open" /\ call[t].operation = "getOrAdd")
             /\ ~SharesFile(call[t].key)
             => file[FileNow(t)] = None

(* A file has what was stored in it, or is being written, or was torn. *)
ContentsAreStored ==
  \A n \in Name :
    ~SharesFile(n) =>
      \/ file[FileOf[n]] \in stored[n] \union {None}
      \/ /\ file[FileOf[n]] = Empty
         /\ \/ FileOf[n] \in torn
            \/ \E t \in Thread : pc[t] = "write" /\ call[t].key = n

(* The inductive invariant of ConcurrentStorageProofs. *)
IInv ==
  /\ TypeOK
  /\ OneHolds
  /\ WritersAreAlone
  /\ WritersHaveContents
  /\ AddsToNothing
  /\ ContentsAreStored

(* No file is made whose name the file system would refuse, and none is     *)
(* that of two keys, but for those PathsAreApart excepts                    *)
(* (FileSystemPathSanitizer.cs 28-41).                                      *)
FileNames ==
  /\ \A n \in Name : file[FileOf[n]] # None => IsSafe(SanitizeAsync(n))
  /\ PathsAreApart

(* Wrapped, the storage is as safe for threads as PhysicalStorage.cs 9 says *)
(* (its locks are of keys, and not of files): no call is about to open a    *)
(* file that another has open, unless two keys have one file or the lock    *)
(* was lost.                                                                *)
ThreadSafe ==
  raced \/ \A t \in Thread :
             pc[t] \in {"openRead", "open"} /\ Users(t, {"read", "write"}) # {}
             => SharesFile(call[t].key)

(* A get-or-add never replaces what is there, however many there are at a   *)
(* time (ConcurrentStorage.cs 31 and 43-50), until the lock is lost.        *)
GetOrAddKeeps ==
  [][\A t \in Thread :
       /\ pc[t] = "open" /\ pc'[t] = "write" /\ call[t].operation = "getOrAdd"
       /\ ~raced /\ ~SharesFile(call[t].key)
       => file[FileNow(t)] = None]_vars

(* What a call gets was stored under its key, in full; nothing of another   *)
(* key, and nothing halfway stored, unless a write failed.  The lock has no *)
(* part in it: the streams' sharing keeps readers out of a file that is     *)
(* written (PhysicalStorage.cs 35 and 46).                                  *)
GetsWhatWasStored ==
  [][\A t \in Thread :
       /\ pc[t] # "leave" /\ pc'[t] = "leave" /\ answer'[t].tag = "got"
       /\ ~SharesFile(call[t].key)
       => \/ answer'[t].value \in stored'[call[t].key] \union {None}
          \/ answer'[t].value = Empty /\ FileNow(t) \in torn]_vars

=============================================================================
