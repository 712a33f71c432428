------------------------ MODULE ConcurrentStorageProofs ------------------------
(***************************************************************************)
(* Proofs about ConcurrentStorage, for any number of threads, any keys and *)
(* contents.  What the locks are good for is proved whatever the sanitizer *)
(* makes of the keys; what it does make of them follows below.             *)
(***************************************************************************)
EXTENDS ConcurrentStorage, Induction, SequenceTheorems, FiniteSetTheorems, TLAPS

(* A key has a file. *)
LEMMA FileIsFile == \A n \in Name : FileOf[n] \in File
  BY DEF File

(* Keys that share no file and have one are one. *)
LEMMA Apart ==
  \A m, n \in Name : FileOf[m] = FileOf[n] /\ ~SharesFile(n) => m = n
  BY DEF SharesFile

LEMMA InitInv == Init => IInv
<1> SUFFICES ASSUME Init PROVE IInv
  OBVIOUS
<1> USE ValuesAssumption, FileIsFile DEF Init
<1>1. TypeOK
  BY DEF TypeOK, PC, Answer, NoAnswer
<1>2. OneHolds /\ WritersAreAlone /\ WritersHaveContents /\ AddsToNothing
  BY DEF OneHolds, WritersAreAlone, WritersHaveContents, AddsToNothing, Holding
<1>3. ContentsAreStored
  BY DEF ContentsAreStored
<1> QED
  BY <1>1, <1>2, <1>3 DEF IInv

LEMMA CallInv ==
  ASSUME IInv, NEW t \in Thread, NEW operation \in Operation, NEW n \in Name,
         NEW v \in Value \union {None}, Call(t, operation, n, v)
  PROVE  IInv'
<1> USE ValuesAssumption, FileIsFile, Apart DEF IInv, Call, Goto, NoAnswer
<1> USE DEF TypeOK, PC, Request, NoCall, Operation
<1>1. TypeOK'
  BY DEF Answer, Error
<1>2. OneHolds'
  BY DEF OneHolds, Holding
<1>3. WritersHaveContents'
  BY DEF WritersHaveContents
<1>4. AddsToNothing'
  BY DEF AddsToNothing, OneHolds, Holding, FileNow
<1>5. ContentsAreStored'
  BY DEF ContentsAreStored, WritersAreAlone, Users, FileNow
<1>6. WritersAreAlone'
  BY DEF WritersAreAlone, Users, FileNow
<1> QED
  BY <1>1, <1>2, <1>3, <1>4, <1>5, <1>6

LEMMA DoLockedInv ==
  ASSUME IInv, NEW t \in Thread, DoLocked(t)
  PROVE  IInv'
<1> USE ValuesAssumption, FileIsFile, Apart DEF IInv, DoLocked, Goto, FirstStep,
      Lock!Enter, Lock!IsFree
<1> USE DEF TypeOK, PC, Request, NoCall, Operation
<1>1. TypeOK'
  BY DEF Answer, Error
<1>2. OneHolds'
  BY DEF OneHolds, Holding
<1>3. WritersHaveContents'
  BY DEF WritersHaveContents
<1>4. AddsToNothing'
  BY DEF AddsToNothing, OneHolds, Holding, FileNow
<1>5. ContentsAreStored'
  BY DEF ContentsAreStored, WritersAreAlone, Users, FileNow
<1>6. WritersAreAlone'
  BY DEF WritersAreAlone, Users, FileNow
<1> QED
  BY <1>1, <1>2, <1>3, <1>4, <1>5, <1>6

LEMMA LeaveInv ==
  ASSUME IInv, NEW t \in Thread, Leave(t)
  PROVE  IInv'
<1> USE ValuesAssumption, FileIsFile, Apart DEF IInv, Leave, Goto, Lock!Depart
<1> USE DEF TypeOK, PC, Request, NoCall, Operation
<1>1. TypeOK'
  BY DEF Answer, Error
<1>2. OneHolds'
  BY DEF OneHolds, Holding
<1>3. WritersHaveContents'
  BY DEF WritersHaveContents
<1>4. AddsToNothing'
  BY DEF AddsToNothing, OneHolds, Holding, FileNow
<1>5. ContentsAreStored'
  BY DEF ContentsAreStored, WritersAreAlone, Users, FileNow
<1>6. WritersAreAlone'
  BY DEF WritersAreAlone, Users, FileNow
<1> QED
  BY <1>1, <1>2, <1>3, <1>4, <1>5, <1>6

LEMMA LeaveRingGoneInv ==
  ASSUME IInv, NEW t \in Thread, LeaveRingGone(t)
  PROVE  IInv'
<1> USE ValuesAssumption, FileIsFile, Apart DEF IInv, LeaveRingGone, Goto, Lock!Depart
<1> USE DEF TypeOK, PC, Request, NoCall, Operation
<1>1. TypeOK'
  BY DEF Answer, Error
<1>2. OneHolds'
  BY DEF OneHolds, Holding
<1>3. WritersHaveContents'
  BY DEF WritersHaveContents
<1>4. AddsToNothing'
  BY DEF AddsToNothing, OneHolds, Holding, FileNow
<1>5. ContentsAreStored'
  BY DEF ContentsAreStored, WritersAreAlone, Users, FileNow
<1>6. WritersAreAlone'
  BY DEF WritersAreAlone, Users, FileNow
<1> QED
  BY <1>1, <1>2, <1>3, <1>4, <1>5, <1>6

LEMMA RaceInv ==
  ASSUME IInv, NEW t \in Thread, Race(t)
  PROVE  IInv'
<1> USE ValuesAssumption, FileIsFile, Apart DEF IInv, Race, Lock!Race
<1> USE DEF TypeOK, PC, Request, NoCall, Operation
<1>1. TypeOK'
  BY DEF Answer, Error
<1>2. OneHolds'
  BY DEF OneHolds, Holding
<1>3. WritersHaveContents'
  BY DEF WritersHaveContents
<1>4. AddsToNothing'
  BY DEF AddsToNothing, OneHolds, Holding, FileNow
<1>5. ContentsAreStored'
  BY DEF ContentsAreStored, WritersAreAlone, Users, FileNow
<1>6. WritersAreAlone'
  BY DEF WritersAreAlone, Users, FileNow
<1> QED
  BY <1>1, <1>2, <1>3, <1>4, <1>5, <1>6

LEMMA ExistsRingGoneInv ==
  ASSUME IInv, NEW t \in Thread, ExistsRingGone(t)
  PROVE  IInv'
<1> USE ValuesAssumption, FileIsFile, Apart DEF IInv, ExistsRingGone, Goto, Return
<1> USE DEF TypeOK, PC, Request, NoCall, Operation
<1>1. TypeOK'
  BY DEF Answer, Error
<1>2. OneHolds'
  BY DEF OneHolds, Holding
<1>3. WritersHaveContents'
  BY DEF WritersHaveContents
<1>4. AddsToNothing'
  BY DEF AddsToNothing, OneHolds, Holding, FileNow
<1>5. ContentsAreStored'
  BY DEF ContentsAreStored, WritersAreAlone, Users, FileNow
<1>6. WritersAreAlone'
  BY DEF WritersAreAlone, Users, FileNow
<1> QED
  BY <1>1, <1>2, <1>3, <1>4, <1>5, <1>6

LEMMA ExistsAsyncInv ==
  ASSUME IInv, NEW t \in Thread, ExistsAsync(t)
  PROVE  IInv'
<1> USE ValuesAssumption, FileIsFile, Apart DEF IInv, ExistsAsync, Goto, Return, Exists
<1> USE DEF TypeOK, PC, Request, NoCall, Operation
<1>1. TypeOK'
  BY DEF Answer, Error
<1>2. OneHolds'
  BY DEF OneHolds, Holding
<1>3. WritersHaveContents'
  BY DEF WritersHaveContents
<1>4. AddsToNothing'
  BY DEF AddsToNothing, OneHolds, Holding, FileNow
<1>5. ContentsAreStored'
  BY DEF ContentsAreStored, WritersAreAlone, Users, FileNow
<1>6. WritersAreAlone'
  BY DEF WritersAreAlone, Users, FileNow
<1> QED
  BY <1>1, <1>2, <1>3, <1>4, <1>5, <1>6

LEMMA GetOrAddInv ==
  ASSUME IInv, NEW t \in Thread, GetOrAdd(t)
  PROVE  IInv'
<1> USE ValuesAssumption, FileIsFile, Apart DEF IInv, GetOrAdd, Goto, Exists
<1> USE DEF TypeOK, PC, Request, NoCall, Operation
<1>1. TypeOK'
  BY DEF Answer, Error
<1>2. OneHolds'
  BY DEF OneHolds, Holding
<1>3. WritersHaveContents'
  BY DEF WritersHaveContents
<1>4. AddsToNothing'
  BY DEF AddsToNothing, OneHolds, Holding, FileNow
<1>5. ContentsAreStored'
  BY DEF ContentsAreStored, WritersAreAlone, Users, FileNow
<1>6. WritersAreAlone'
  BY DEF WritersAreAlone, Users, FileNow
<1> QED
  BY <1>1, <1>2, <1>3, <1>4, <1>5, <1>6

LEMMA AddInv ==
  ASSUME IInv, NEW t \in Thread, Add(t)
  PROVE  IInv'
<1> USE ValuesAssumption, FileIsFile, Apart DEF IInv, Add, Goto
<1> USE DEF TypeOK, PC, Request, NoCall, Operation
<1>1. TypeOK'
  BY DEF Answer, Error
<1>2. OneHolds'
  BY DEF OneHolds, Holding
<1>3. WritersHaveContents'
  BY DEF WritersHaveContents
<1>4. AddsToNothing'
  BY DEF AddsToNothing, OneHolds, Holding, FileNow
<1>5. ContentsAreStored'
  BY DEF ContentsAreStored, WritersAreAlone, Users, FileNow
<1>6. WritersAreAlone'
  BY DEF WritersAreAlone, Users, FileNow
<1> QED
  BY <1>1, <1>2, <1>3, <1>4, <1>5, <1>6

LEMMA AddThrowsInv ==
  ASSUME IInv, NEW t \in Thread, AddThrows(t)
  PROVE  IInv'
<1> USE ValuesAssumption, FileIsFile, Apart DEF IInv, AddThrows, Goto, Return
<1> USE DEF TypeOK, PC, Request, NoCall, Operation
<1>1. TypeOK'
  BY DEF Answer, Error
<1>2. OneHolds'
  BY DEF OneHolds, Holding
<1>3. WritersHaveContents'
  BY DEF WritersHaveContents
<1>4. AddsToNothing'
  BY DEF AddsToNothing, OneHolds, Holding, FileNow
<1>5. ContentsAreStored'
  BY DEF ContentsAreStored, WritersAreAlone, Users, FileNow
<1>6. WritersAreAlone'
  BY DEF WritersAreAlone, Users, FileNow
<1> QED
  BY <1>1, <1>2, <1>3, <1>4, <1>5, <1>6

LEMMA SetNullInv ==
  ASSUME IInv, NEW t \in Thread, SetNull(t)
  PROVE  IInv'
<1> USE ValuesAssumption, FileIsFile, Apart DEF IInv, SetNull, Goto, Return, Stored
<1> USE DEF TypeOK, PC, Request, NoCall, Operation
<1>1. TypeOK'
  BY DEF Answer, Error
<1>2. OneHolds'
  BY DEF OneHolds, Holding
<1>3. WritersHaveContents'
  BY DEF WritersHaveContents
<1>4. AddsToNothing'
  BY DEF AddsToNothing, OneHolds, Holding, FileNow
<1>5. ContentsAreStored'
  BY DEF ContentsAreStored, WritersAreAlone, Users, FileNow
<1>6. WritersAreAlone'
  BY DEF WritersAreAlone, Users, FileNow
<1> QED
  BY <1>1, <1>2, <1>3, <1>4, <1>5, <1>6

LEMMA OpenToWriteInv ==
  ASSUME IInv, NEW t \in Thread, OpenToWrite(t)
  PROVE  IInv'
<1> USE ValuesAssumption, FileIsFile, Apart DEF IInv, OpenToWrite, Goto
<1> USE DEF TypeOK, PC, Request, NoCall, Operation
<1>1. TypeOK'
  BY DEF Answer, Error
<1>2. OneHolds'
  BY DEF OneHolds, Holding
<1>3. WritersHaveContents'
  BY DEF WritersHaveContents
<1>4. AddsToNothing'
  BY DEF AddsToNothing, OneHolds, Holding, FileNow
<1>5. ContentsAreStored'
  BY DEF ContentsAreStored, WritersAreAlone, Users, FileNow
<1>6. WritersAreAlone'
  BY DEF WritersAreAlone, Users, FileNow
<1> QED
  BY <1>1, <1>2, <1>3, <1>4, <1>5, <1>6

LEMMA WriteSharingViolationInv ==
  ASSUME IInv, NEW t \in Thread, WriteSharingViolation(t)
  PROVE  IInv'
<1> USE ValuesAssumption, FileIsFile, Apart DEF IInv, WriteSharingViolation, Goto, Fail, Return
<1> USE DEF TypeOK, PC, Request, NoCall, Operation
<1>1. TypeOK'
  BY DEF Answer, Error
<1>2. OneHolds'
  BY DEF OneHolds, Holding
<1>3. WritersHaveContents'
  BY DEF WritersHaveContents
<1>4. AddsToNothing'
  BY DEF AddsToNothing, OneHolds, Holding, FileNow
<1>5. ContentsAreStored'
  BY DEF ContentsAreStored, WritersAreAlone, Users, FileNow
<1>6. WritersAreAlone'
  BY DEF WritersAreAlone, Users, FileNow
<1> QED
  BY <1>1, <1>2, <1>3, <1>4, <1>5, <1>6

LEMMA WriteAndCloseInv ==
  ASSUME IInv, NEW t \in Thread, WriteAndClose(t)
  PROVE  IInv'
<1> USE ValuesAssumption, FileIsFile, Apart DEF IInv, WriteAndClose, Goto, Return, Stored
<1> USE DEF TypeOK, PC, Request, NoCall, Operation
<1>1. TypeOK'
  BY DEF Answer, Error, FileNow, WritersHaveContents
<1>2. OneHolds'
  BY DEF OneHolds, Holding
<1>3. WritersHaveContents'
  BY DEF WritersHaveContents
<1>4. AddsToNothing'
  BY DEF AddsToNothing, OneHolds, Holding, FileNow
<1>5. ContentsAreStored'
  BY DEF ContentsAreStored, WritersAreAlone, Users, FileNow
<1>6. WritersAreAlone'
  BY DEF WritersAreAlone, Users, FileNow
<1> QED
  BY <1>1, <1>2, <1>3, <1>4, <1>5, <1>6

LEMMA WriteFailsInv ==
  ASSUME IInv, NEW t \in Thread, WriteFails(t)
  PROVE  IInv'
<1> USE ValuesAssumption, FileIsFile, Apart DEF IInv, WriteFails, Goto, Return
<1> USE DEF TypeOK, PC, Request, NoCall, Operation
<1>1. TypeOK'
  BY DEF Answer, Error, FileNow
<1>2. OneHolds'
  BY DEF OneHolds, Holding
<1>3. WritersHaveContents'
  BY DEF WritersHaveContents
<1>4. AddsToNothing'
  BY DEF AddsToNothing, OneHolds, Holding, FileNow
<1>5. ContentsAreStored'
  BY DEF ContentsAreStored, WritersAreAlone, Users, FileNow
<1>6. WritersAreAlone'
  BY DEF WritersAreAlone, Users, FileNow
<1> QED
  BY <1>1, <1>2, <1>3, <1>4, <1>5, <1>6

LEMMA GetNullInv ==
  ASSUME IInv, NEW t \in Thread, GetNull(t)
  PROVE  IInv'
<1> USE ValuesAssumption, FileIsFile, Apart DEF IInv, GetNull, Goto, Return
<1> USE DEF TypeOK, PC, Request, NoCall, Operation
<1>1. TypeOK'
  BY DEF Answer, Error
<1>2. OneHolds'
  BY DEF OneHolds, Holding
<1>3. WritersHaveContents'
  BY DEF WritersHaveContents
<1>4. AddsToNothing'
  BY DEF AddsToNothing, OneHolds, Holding, FileNow
<1>5. ContentsAreStored'
  BY DEF ContentsAreStored, WritersAreAlone, Users, FileNow
<1>6. WritersAreAlone'
  BY DEF WritersAreAlone, Users, FileNow
<1> QED
  BY <1>1, <1>2, <1>3, <1>4, <1>5, <1>6

LEMMA GetExistingInv ==
  ASSUME IInv, NEW t \in Thread, GetExisting(t)
  PROVE  IInv'
<1> USE ValuesAssumption, FileIsFile, Apart DEF IInv, GetExisting, Goto
<1> USE DEF TypeOK, PC, Request, NoCall, Operation
<1>1. TypeOK'
  BY DEF Answer, Error
<1>2. OneHolds'
  BY DEF OneHolds, Holding
<1>3. WritersHaveContents'
  BY DEF WritersHaveContents
<1>4. AddsToNothing'
  BY DEF AddsToNothing, OneHolds, Holding, FileNow
<1>5. ContentsAreStored'
  BY DEF ContentsAreStored, WritersAreAlone, Users, FileNow
<1>6. WritersAreAlone'
  BY DEF WritersAreAlone, Users, FileNow
<1> QED
  BY <1>1, <1>2, <1>3, <1>4, <1>5, <1>6

LEMMA OpenToReadInv ==
  ASSUME IInv, NEW t \in Thread, OpenToRead(t)
  PROVE  IInv'
<1> USE ValuesAssumption, FileIsFile, Apart DEF IInv, OpenToRead, Goto
<1> USE DEF TypeOK, PC, Request, NoCall, Operation
<1>1. TypeOK'
  BY DEF Answer, Error
<1>2. OneHolds'
  BY DEF OneHolds, Holding
<1>3. WritersHaveContents'
  BY DEF WritersHaveContents
<1>4. AddsToNothing'
  BY DEF AddsToNothing, OneHolds, Holding, FileNow
<1>5. ContentsAreStored'
  BY DEF ContentsAreStored, WritersAreAlone, Users, FileNow
<1>6. WritersAreAlone'
  BY DEF WritersAreAlone, Users, FileNow
<1> QED
  BY <1>1, <1>2, <1>3, <1>4, <1>5, <1>6

LEMMA ReadSharingViolationInv ==
  ASSUME IInv, NEW t \in Thread, ReadSharingViolation(t)
  PROVE  IInv'
<1> USE ValuesAssumption, FileIsFile, Apart DEF IInv, ReadSharingViolation, Goto, Fail, Return
<1> USE DEF TypeOK, PC, Request, NoCall, Operation
<1>1. TypeOK'
  BY DEF Answer, Error
<1>2. OneHolds'
  BY DEF OneHolds, Holding
<1>3. WritersHaveContents'
  BY DEF WritersHaveContents
<1>4. AddsToNothing'
  BY DEF AddsToNothing, OneHolds, Holding, FileNow
<1>5. ContentsAreStored'
  BY DEF ContentsAreStored, WritersAreAlone, Users, FileNow
<1>6. WritersAreAlone'
  BY DEF WritersAreAlone, Users, FileNow
<1> QED
  BY <1>1, <1>2, <1>3, <1>4, <1>5, <1>6

LEMMA ReadAndCloseInv ==
  ASSUME IInv, NEW t \in Thread, ReadAndClose(t)
  PROVE  IInv'
<1> USE ValuesAssumption, FileIsFile, Apart DEF IInv, ReadAndClose, Goto, Return
<1> USE DEF TypeOK, PC, Request, NoCall, Operation
<1>1. TypeOK'
  BY DEF Answer, Error, FileNow
<1>2. OneHolds'
  BY DEF OneHolds, Holding
<1>3. WritersHaveContents'
  BY DEF WritersHaveContents
<1>4. AddsToNothing'
  BY DEF AddsToNothing, OneHolds, Holding, FileNow
<1>5. ContentsAreStored'
  BY DEF ContentsAreStored, WritersAreAlone, Users, FileNow
<1>6. WritersAreAlone'
  BY DEF WritersAreAlone, Users, FileNow
<1> QED
  BY <1>1, <1>2, <1>3, <1>4, <1>5, <1>6

(* The lock is exclusive until it is lost, no file has what was not stored  *)
(* under its key or is being written, and an adder's file stays away        *)
(* (ConcurrentStorage.cs 24-73, Locker.cs 82-109).                          *)
THEOREM Inductive == Spec => []IInv
<1>1. IInv /\ [Next]_vars => IInv'
  <2> SUFFICES ASSUME IInv, [Next]_vars PROVE IInv'
    OBVIOUS
  <2>1. ASSUME NEW t \in Thread, NEW n \in Name, NEW o \in Operation \ {"set"}, Call(t, o, n, None)
        PROVE  IInv'
    BY <2>1, CallInv
  <2>2. ASSUME NEW t \in Thread, NEW n \in Name, NEW v \in Value \union {None},
               Call(t, "set", n, v)
        PROVE  IInv'
    <3>1. "set" \in Operation
      BY DEF Operation
    <3> QED
      BY <2>2, <3>1, CallInv
  <2>3. ASSUME NEW t \in Thread, DoLocked(t)
        PROVE  IInv'
    BY <2>3, DoLockedInv
  <2>4. ASSUME NEW t \in Thread, Step(t)
        PROVE  IInv'
    <3>1. CASE ExistsAsync(t) \/ ExistsRingGone(t) \/ GetOrAdd(t) \/ Add(t) \/ AddThrows(t)
      BY <3>1, ExistsAsyncInv, ExistsRingGoneInv, GetOrAddInv, AddInv, AddThrowsInv
    <3>2. CASE SetNull(t) \/ OpenToWrite(t) \/ WriteSharingViolation(t)
                 \/ WriteAndClose(t) \/ WriteFails(t)
      BY <3>2, SetNullInv, OpenToWriteInv, WriteSharingViolationInv, WriteAndCloseInv,
         WriteFailsInv
    <3>3. CASE GetNull(t) \/ GetExisting(t) \/ OpenToRead(t)
                 \/ ReadSharingViolation(t) \/ ReadAndClose(t)
      BY <3>3, GetNullInv, GetExistingInv, OpenToReadInv, ReadSharingViolationInv,
         ReadAndCloseInv
    <3> QED
      BY <2>4, <3>1, <3>2, <3>3 DEF Step
  <2>5. CASE UNCHANGED vars
    BY <2>5 DEF vars, IInv, TypeOK, OneHolds, WritersAreAlone, WritersHaveContents,
       AddsToNothing, ContentsAreStored, FileNow, Users
  <2>6. ASSUME NEW t \in Thread, Leave(t) \/ LeaveRingGone(t) \/ Race(t)
        PROVE  IInv'
    BY <2>6, LeaveInv, LeaveRingGoneInv, RaceInv
  <2> QED
    BY <2>1, <2>2, <2>3, <2>4, <2>5, <2>6 DEF Next
<1> QED
  BY InitInv, <1>1, PTL DEF Spec

-----------------------------------------------------------------------------

(* The locks keep every two calls out of each other's file, unless their    *)
(* keys' names stand for the same file or calls that left a key have raced  *)
(* (ConcurrentStorage.cs 56-73, PhysicalStorage.cs 9).                      *)
THEOREM IsThreadSafe == Spec => []ThreadSafe
<1>1. ASSUME IInv PROVE ThreadSafe
  <2> SUFFICES ASSUME ~raced, NEW t \in Thread, pc[t] \in {"openRead", "open"},
                      NEW u \in Users(t, {"read", "write"})
               PROVE  SharesFile(call[t].key)
    BY DEF ThreadSafe
  <2>1. /\ u \in Thread /\ u # t /\ pc[u] \in {"read", "write"}
        /\ FileOf[call[u].key] = FileOf[call[t].key]
    BY DEF Users, FileNow
  <2>2. call[t].key \in Name /\ call[u].key \in Name
    BY <1>1, <2>1 DEF IInv, TypeOK, Request
  <2>3. call[t].key # call[u].key
    BY <1>1, <2>1 DEF IInv, OneHolds, Holding, PC
  <2> QED
    BY <2>1, <2>2, <2>3 DEF SharesFile
<1> QED
  BY <1>1, Inductive, PTL

(* A get-or-add writes a file only where there was none, until the lock is  *)
(* lost (ConcurrentStorage.cs 31, 41-51).                                   *)
THEOREM GetOrAddIsSafe == Spec => GetOrAddKeeps
<1>1. ASSUME IInv, NEW t \in Thread, pc[t] = "open", call[t].operation = "getOrAdd",
             ~raced, ~SharesFile(call[t].key)
      PROVE  file[FileNow(t)] = None
  BY <1>1 DEF IInv, AddsToNothing
<1>2. IInv => \A t \in Thread :
        /\ pc[t] = "open" /\ pc'[t] = "write" /\ call[t].operation = "getOrAdd"
        /\ ~raced /\ ~SharesFile(call[t].key)
        => file[FileNow(t)] = None
  BY <1>1
<1> QED
  BY <1>2, Inductive, PTL DEF GetOrAddKeeps

(* What a call gets was stored under its key, in full and not by halves,    *)
(* but for what a failed write left (PhysicalStorage.cs 30-58).             *)
THEOREM GetsOnlyWhatWasStored == Spec => GetsWhatWasStored
<1>1. ASSUME IInv, [Next]_vars, NEW t \in Thread,
             pc[t] # "leave", pc'[t] = "leave", answer'[t].tag = "got", ~SharesFile(call[t].key)
      PROVE  \/ answer'[t].value \in stored'[call[t].key] \union {None}
             \/ answer'[t].value = Empty /\ FileNow(t) \in torn
  <2> USE <1>1
  <2>1. t \in Thread /\ TypeOK
    BY DEF IInv
  <2>2. Step(t)
    <3>1. Next
      BY DEF vars
    <3>2. \A s \in Thread, o \in Operation, n \in Name, v \in Value \union {None} :
            Call(s, o, n, v) => pc' = [pc EXCEPT ![s] = "lock"]
      BY DEF Call, Goto
    <3>3. \A s \in Thread : DoLocked(s) => pc'[t] # "leave" \/ pc'[t] = pc[t]
      BY <2>1 DEF DoLocked, Goto, FirstStep, TypeOK, Request, Operation
    <3>4. \A s \in Thread : Step(s) => \E to \in PC : pc' = [pc EXCEPT ![s] = to]
      BY DEF Step, ExistsAsync, ExistsRingGone, GetOrAdd, Add, AddThrows, SetNull, OpenToWrite,
         WriteSharingViolation, WriteAndClose, WriteFails, GetNull, GetExisting, OpenToRead,
         ReadSharingViolation, ReadAndClose, Fail, Return, Goto, PC
    <3>5. "set" \in Operation /\ None \in Value \union {None}
      BY DEF Operation
    <3>6. \A s \in Thread : Leave(s) \/ LeaveRingGone(s) => pc' = [pc EXCEPT ![s] = "idle"]
      BY DEF Leave, LeaveRingGone, Goto
    <3>7. \A s \in Thread : Race(s) => pc' = pc
      BY DEF Race
    <3> QED
      BY <2>1, <3>1, <3>2, <3>3, <3>4, <3>5, <3>6, <3>7 DEF Next, TypeOK
  <2>7. call[t].key \in Name
    <3>1. pc[t] # "idle"
      BY <2>1, <2>2 DEF Step, ExistsAsync, ExistsRingGone, GetOrAdd, Add, AddThrows, SetNull,
         OpenToWrite, WriteSharingViolation, WriteAndClose, WriteFails, GetNull, GetExisting,
         OpenToRead, ReadSharingViolation, ReadAndClose, Fail, Return, Goto
    <3> QED
      BY <2>1, <3>1 DEF TypeOK, Request
  <2>3. CASE SetNull(t) \/ GetNull(t)
    BY <2>1, <2>3 DEF SetNull, GetNull, Return, Stored, TypeOK
  <2>4. CASE WriteAndClose(t)
    BY <2>1, <2>4, <2>7 DEF WriteAndClose, Return, Stored, TypeOK
  <2>5. CASE ReadAndClose(t)
    <3>1. answer'[t].value = file[FileOf[call[t].key]] /\ stored' = stored /\ pc[t] = "read"
      BY <2>1, <2>5 DEF ReadAndClose, Return, Goto, TypeOK, FileNow
    <3>2. ~ \E u \in Thread : pc[u] = "write" /\ call[u].key = call[t].key
      BY <3>1 DEF IInv, WritersAreAlone, Users, FileNow
    <3> QED
      BY <2>1, <2>7, <3>1, <3>2 DEF IInv, ContentsAreStored, FileNow
  <2>6. CASE ExistsAsync(t) \/ ExistsRingGone(t) \/ GetOrAdd(t) \/ Add(t) \/ AddThrows(t)
               \/ OpenToWrite(t) \/ WriteSharingViolation(t) \/ WriteFails(t)
               \/ GetExisting(t) \/ OpenToRead(t) \/ ReadSharingViolation(t)
    BY <2>1, <2>6 DEF ExistsAsync, ExistsRingGone, GetOrAdd, Add, AddThrows, OpenToWrite,
       WriteSharingViolation, WriteFails, GetExisting, OpenToRead, ReadSharingViolation,
       Fail, Return, Goto, TypeOK
  <2> QED
    BY <2>2, <2>3, <2>4, <2>5, <2>6 DEF Step
<1>2. IInv /\ [Next]_vars => [\A t \in Thread :
        /\ pc[t] # "leave" /\ pc'[t] = "leave" /\ answer'[t].tag = "got"
        /\ ~SharesFile(call[t].key)
        => \/ answer'[t].value \in stored'[call[t].key] \union {None}
           \/ answer'[t].value = Empty /\ FileNow(t) \in torn]_vars
  BY <1>1
<1> QED
  BY <1>2, Inductive, PTL DEF Spec, GetsWhatWasStored

-----------------------------------------------------------------------------

(* The characters that no file name may have. *)
Invalid == ToSet(InvalidCharacters)

(* The characters that are replaced. *)
Replaced == {EscapeCharacter} \union Invalid

(* None of them is the escape character, nor a hex digit. *)
LEMMA Characters ==
  /\ EscapeCharacter \in Character /\ EscapeCharacter \notin Invalid
  /\ Invalid \subseteq Character /\ Replaced \subseteq Character
  /\ \A c \in Invalid : /\ Code[c] \in Seq(Character) /\ Len(Code[c]) = 2
                        /\ Code[c][1] \in Character \ Replaced
                        /\ Code[c][2] \in Character \ Replaced
<1>1. Invalid \subseteq Character \ {EscapeCharacter}
  <2>1. \A i \in DOMAIN InvalidCharacters : InvalidCharacters[i] \in Character \ {EscapeCharacter}
    BY SanitizerAssumption
  <2> QED
    BY <2>1 DEF Invalid, ToSet
<1>2. ASSUME NEW c \in Invalid
      PROVE  /\ Code[c] \in Seq(Character) /\ Len(Code[c]) = 2
             /\ Code[c][1] \in Character \ Replaced
             /\ Code[c][2] \in Character \ Replaced
  <2>1. Code[c] \in Seq(Character \ Replaced) /\ Len(Code[c]) = 2
    BY SanitizerAssumption DEF Invalid, Replaced
  <2>2. \A i \in 1..2 : Code[c][i] \in Character \ Replaced
    BY <2>1
  <2>3. Code[c] \in Seq(Character)
    <3>1. Character \ Replaced \subseteq Character
      OBVIOUS
    <3> QED
      BY <2>1, <3>1, SeqMonotonic
  <2> QED
    BY <2>1, <2>2, <2>3
<1> QED
  BY <1>1, <1>2, SanitizerAssumption DEF Replaced

(* What a character is escaped to: itself, or three characters. *)
LEMMA EscapeIs ==
  ASSUME NEW x \in Character
  PROVE  /\ x \notin Invalid => Escape(x) = <<x>>
         /\ x \in Invalid => Escape(x) = <<EscapeCharacter, Code[x][1], Code[x][2]>>
         /\ Escape(x) \in Seq(Character \ Invalid)
         /\ Escape(x) \in Seq(Character)
<1>1. CASE x \notin Invalid
  BY <1>1 DEF Escape, Invalid
<1>2. CASE x \in Invalid
  <2> DEFINE a == Code[x][1]
             b == Code[x][2]
             e == EscapeCharacter
  <2>1. /\ Code[x] \in Seq(Character) /\ Len(Code[x]) = 2
        /\ a \in Character \ Invalid /\ b \in Character \ Invalid /\ e \in Character \ Invalid
    BY <1>2, Characters DEF Replaced
  <2>2. <<e>> \o Code[x] = <<e, a, b>>
    <3> DEFINE s == <<e>>
               t == Code[x]
    <3>1. s \in Seq(Character) /\ t \in Seq(Character) /\ Len(s) = 1 /\ Len(t) = 2
          /\ s[1] = e /\ t[1] = a /\ t[2] = b
      BY <2>1
    <3> HIDE DEF s, t
    <3>2. /\ s \o t \in Seq(Character) /\ Len(s \o t) = Len(s) + Len(t)
          /\ \A i \in 1..(Len(s) + Len(t)) :
               (s \o t)[i] = IF i <= Len(s) THEN s[i] ELSE t[i - Len(s)]
      BY <3>1, ConcatProperties
    <3>3. Len(s \o t) = 3
      BY <3>1, <3>2
    <3>4. (s \o t)[1] = e /\ (s \o t)[2] = a /\ (s \o t)[3] = b
      BY <3>1, <3>2
    <3>5. <<e, a, b>> \in Seq(Character) /\ Len(<<e, a, b>>) = 3
      BY <2>1
    <3>6. s \o t = <<e, a, b>>
      <4> DEFINE r == <<e, a, b>>
      <4>1. r[1] = e /\ r[2] = a /\ r[3] = b
        OBVIOUS
      <4> HIDE DEF r, e, a, b
      <4>2. \A i \in 1..Len(s \o t) : (s \o t)[i] = r[i]
        BY <3>3, <3>4, <4>1
      <4>3. r \in Seq(Character) /\ Len(r) = 3
        BY <3>5 DEF r
      <4>4. s \o t = r
        BY <3>2, <3>3, <4>2, <4>3, SeqEqual
      <4> QED
        BY <4>4 DEF r
    <3> QED
      BY <3>6 DEF s, t
  <2>3. Escape(x) = <<e>> \o Code[x]
    BY <1>2 DEF Escape, Invalid
  <2>4. <<e, a, b>> \in Seq(Character \ Invalid) /\ <<e, a, b>> \in Seq(Character)
    BY <2>1
  <2> QED
    BY <1>2, <2>2, <2>3, <2>4
<1> QED
  BY <1>1, <1>2

(* What a character is after those of s have been replaced. *)
After(s) == [x \in Character |-> IF x \in s THEN Escape(x) ELSE <<x>>]

(* It is a sequence of characters. *)
LEMMA AfterType ==
  ASSUME NEW s
  PROVE  After(s) \in [Character -> Seq(Character)]
<1>1. ASSUME NEW x \in Character
      PROVE  (IF x \in s THEN Escape(x) ELSE <<x>>) \in Seq(Character)
  BY EscapeIs
<1> QED
  BY <1>1 DEF After

(* Replacing another character does not touch what replaced the others, so  *)
(* that it makes no difference in which order they come.                    *)
LEMMA ReplaceOneMore ==
  ASSUME NEW s, NEW c \in Replaced, NEW p \in Seq(Character)
  PROVE  Replace(Subst(After(s), p), c, Escape(c)) = Subst(After(s \union {c}), p)
<1> DEFINE G == [x \in Character |-> IF x = c THEN Escape(c) ELSE <<x>>]
           q == Subst(After(s), p)
<1>0. c \in Character
  BY Characters
<1>1. G \in [Character -> Seq(Character)]
  <2>1. ASSUME NEW x \in Character PROVE (IF x = c THEN Escape(c) ELSE <<x>>) \in Seq(Character)
    BY <1>0, EscapeIs
  <2> QED
    BY <2>1
<1>2. q \in Seq(Character)
  BY AfterType, SubstType
<1>3. Replace(q, c, Escape(c)) = Subst(G, q)
  <2> HIDE DEF q
  <2>1. \A i \in DOMAIN q : q[i] \in Character
    BY <1>2
  <2>2. [i \in DOMAIN q |-> IF q[i] = c THEN Escape(c) ELSE <<q[i]>>] = [i \in DOMAIN q |-> G[q[i]]]
    BY <2>1
  <2> QED
    BY <2>2 DEF Replace, Subst
<1>4. ASSUME NEW x \in Character PROVE Subst(G, After(s)[x]) = After(s \union {c})[x]
  <2>1. /\ After(s)[x] = IF x \in s THEN Escape(x) ELSE <<x>>
        /\ After(s \union {c})[x] = IF x \in s \/ x = c THEN Escape(x) ELSE <<x>>
        /\ G[x] = IF x = c THEN Escape(c) ELSE <<x>>
    BY DEF After
  <2>2. CASE x \in s /\ x \in Invalid
    <3> DEFINE r == Escape(x)
    <3>1. r \in Seq(Character) /\ \A i \in 1..Len(r) : r[i] \in Character \ Invalid
      BY EscapeIs
    <3>2. \A i \in 1..Len(r) : r[i] = c => c \notin Invalid
      BY <3>1
    <3>3. \A y \in Character \ Invalid : G[y] = <<y>>
      <4>1. ASSUME NEW y \in Character \ Invalid, y = c PROVE Escape(c) = <<y>>
        BY <4>1, EscapeIs
      <4> QED
        BY <4>1
    <3> HIDE DEF r, G
    <3>4. \A i \in 1..Len(r) : G[r[i]] = <<r[i]>>
      BY <3>1, <3>3
    <3>5. Subst(G, r) = r
      BY <1>1, <3>1, <3>4, SubstSame
    <3> QED
      BY <2>1, <2>2, <3>5 DEF r
  <2>3. CASE ~(x \in s /\ x \in Invalid)
    <3>1. After(s)[x] = <<x>>
      BY <2>1, <2>3, EscapeIs
    <3>2. Subst(G, <<x>>) = G[x]
      <4> HIDE DEF G
      <4> QED
        BY <1>1, SubstOne
    <3>3. G[x] = After(s \union {c})[x]
      BY <2>1, <2>3, EscapeIs
    <3> QED
      BY <3>1, <3>2, <3>3
  <2> QED
    BY <2>2, <2>3
<1> HIDE DEF G
<1>5. Subst(G, Subst(After(s), p)) = Subst(After(s \union {c}), p)
  <2>1. After(s) \in [Character -> Seq(Character)]
    BY AfterType
  <2>2. After(s \union {c}) \in [Character -> Seq(Character)]
    BY AfterType
  <2>3. \A x \in Character : After(s \union {c})[x] = Subst(G, After(s)[x])
    BY <1>4
  <2>4. ASSUME NEW F \in [Character -> Seq(Character)], NEW K \in [Character -> Seq(Character)],
               NEW H \in [Character -> Seq(Character)], \A x \in Character : H[x] = Subst(K, F[x])
        PROVE  Subst(K, Subst(F, p)) = Subst(H, p)
    BY <2>4, SubstSubst, ZenonT(60)
  <2> QED
    BY <1>1, <2>1, <2>2, <2>3, <2>4
<1> QED
  BY <1>3, <1>5

(* What they are in the end. *)
Escapes == [x \in Character |-> Escape(x)]

(* Escaping goes character by character. *)
LEMMA EscapedIs ==
  ASSUME NEW p \in Seq(Character)
  PROVE  Escaped(p) = Subst(Escapes, p)
<1> DEFINE seq == <<EscapeCharacter>> \o InvalidCharacters
           n == Len(seq)
           D == 1..n
           pick(S) == Max(S)
           Is(g) == g = [S \in SUBSET D |->
                           IF S = {} THEN p
                           ELSE Replace(g[S \ {pick(S)}], seq[pick(S)], Escape(seq[pick(S)]))]
           iter == CHOOSE g : Is(g)
           got(S) == {seq[j] : j \in S}
           m == [S \in SUBSET D |-> Subst(After(got(S)), p)]
<1>1. /\ seq \in Seq(Character) /\ DOMAIN seq = D /\ n \in Nat
      /\ \A j \in D : seq[j] \in Replaced
      /\ got(D) = Replaced
  <2>1. /\ <<EscapeCharacter>> \in Seq(Character) /\ Len(<<EscapeCharacter>>) = 1
        /\ InvalidCharacters \in Seq(Character)
        /\ Len(InvalidCharacters) \in Nat /\ DOMAIN InvalidCharacters = 1..Len(InvalidCharacters)
        /\ <<EscapeCharacter>>[1] = EscapeCharacter
    <3>1. Character \ {EscapeCharacter} \subseteq Character
      OBVIOUS
    <3>2. InvalidCharacters \in Seq(Character)
      BY <3>1, SanitizerAssumption, SeqMonotonic
    <3> QED
      BY <3>2, Characters, LenProperties
  <2>2. /\ seq \in Seq(Character) /\ n = 1 + Len(InvalidCharacters)
        /\ \A j \in 1..n : seq[j] = IF j <= 1 THEN EscapeCharacter ELSE InvalidCharacters[j - 1]
    <3> DEFINE s == <<EscapeCharacter>>
    <3>1. s \in Seq(Character) /\ Len(s) = 1 /\ s[1] = EscapeCharacter
      BY <2>1
    <3> HIDE DEF s
    <3>2. /\ s \o InvalidCharacters \in Seq(Character)
          /\ Len(s \o InvalidCharacters) = Len(s) + Len(InvalidCharacters)
          /\ \A i \in 1..(Len(s) + Len(InvalidCharacters)) :
               (s \o InvalidCharacters)[i] =
                 IF i <= Len(s) THEN s[i] ELSE InvalidCharacters[i - Len(s)]
      BY <2>1, <3>1, ConcatProperties
    <3>3. \A j \in 1..(1 + Len(InvalidCharacters)) :
            (s \o InvalidCharacters)[j] = IF j <= 1 THEN EscapeCharacter ELSE InvalidCharacters[j - 1]
      BY <2>1, <3>1, <3>2
    <3>4. Len(s \o InvalidCharacters) = 1 + Len(InvalidCharacters)
      BY <3>1, <3>2
    <3> QED
      BY <3>2, <3>3, <3>4 DEF s
  <2> HIDE DEF seq
  <2>3. ASSUME NEW j \in D PROVE seq[j] \in Replaced
    <3>1. CASE j <= 1
      BY <3>1, <2>2 DEF Replaced
    <3>2. CASE ~(j <= 1)
      <4>1. j - 1 \in 1..Len(InvalidCharacters)
        BY <2>1, <2>2, <3>2
      <4> QED
        BY <2>1, <2>2, <3>2, <4>1 DEF Replaced, Invalid, ToSet
    <3> QED
      BY <3>1, <3>2
  <2>4. ASSUME NEW c \in Replaced PROVE c \in got(D)
    <3>1. CASE c = EscapeCharacter
      <4>1. 1 \in D /\ seq[1] = c
        BY <2>1, <2>2, <3>1
      <4> QED
        BY <4>1
    <3>2. CASE c # EscapeCharacter
      <4>1. PICK i \in 1..Len(InvalidCharacters) : InvalidCharacters[i] = c
        BY <2>1, <3>2 DEF Replaced, Invalid, ToSet
      <4>2. i + 1 \in D /\ seq[i + 1] = c
        <5>1. i + 1 \in 1..n /\ ~(i + 1 <= 1) /\ (i + 1) - 1 = i
          BY <2>1, <2>2
        <5> QED
          BY <4>1, <5>1, <2>2
      <4> QED
        BY <4>2
    <3> QED
      BY <3>1, <3>2
  <2>5. n \in Nat /\ DOMAIN seq = D
    BY <2>2, LenProperties
  <2> QED
    BY <2>2, <2>3, <2>4, <2>5
<1>2. Escaped(p) = iter[D]
  BY <1>1 DEF Escaped, FoldLeft, MapThenFoldSet
<1> HIDE DEF seq
<1>3. ASSUME NEW S \in SUBSET D, S # {}
      PROVE  pick(S) \in S
  BY <1>1, <1>3, MaxIsIn
<1> HIDE DEF pick
<1>4. ASSUME NEW S \in SUBSET D, NEW j \in S
      PROVE  m[S] = Replace(m[S \ {j}], seq[j], Escape(seq[j]))
  <2>1. got(S) = got(S \ {j}) \union {seq[j]}
    OBVIOUS
  <2>2. S \ {j} \in SUBSET D /\ seq[j] \in Replaced
    BY <1>1
  <2> HIDE DEF got
  <2>3. Replace(Subst(After(got(S \ {j})), p), seq[j], Escape(seq[j]))
          = Subst(After(got(S \ {j}) \union {seq[j]}), p)
    BY <2>2, ReplaceOneMore
  <2> QED
    BY <2>1, <2>2, <2>3
<1>5. m[{}] = p
  <2>1. got({}) = {}
    OBVIOUS
  <2>2. Subst(After({}), p) = p
    <3>1. \A i \in 1..Len(p) : After({})[p[i]] = <<p[i]>>
      BY ElementOfSeq DEF After
    <3> QED
      BY <3>1, AfterType, SubstSame
  <2> QED
    BY <2>1, <2>2
<1> HIDE DEF got
<1>6. Is(m)
  <2>1. ASSUME NEW S \in SUBSET D
        PROVE  m[S] = IF S = {} THEN p
                      ELSE Replace(m[S \ {pick(S)}], seq[pick(S)], Escape(seq[pick(S)]))
    <3> HIDE DEF m
    <3> QED
      BY <1>3, <1>4, <1>5
  <2> QED
    BY <2>1
<1>7. Is(iter)
  <2> HIDE DEF Is, m
  <2> QED
    BY <1>6
<1> HIDE DEF iter, m
<1> DEFINE T == {k \in Nat : \A S \in SUBSET D : Cardinality(S) = k => iter[S] = m[S]}
<1>8. IsFiniteSet(D)
  BY <1>1, FS_Interval
<1> HIDE DEF D
<1>9. 0 \in T
  <2>1. ASSUME NEW S \in SUBSET D, Cardinality(S) = 0 PROVE iter[S] = m[S]
    <3>1. S = {}
      BY <1>8, <2>1, FS_Subset, FS_EmptySet
    <3> QED
      BY <3>1, <1>5, <1>7
  <2> QED
    BY <2>1
<1>10. ASSUME NEW k \in Nat, k \in T PROVE k + 1 \in T
  <2>1. ASSUME NEW S \in SUBSET D, Cardinality(S) = k + 1 PROVE iter[S] = m[S]
    <3> DEFINE x == pick(S)
    <3>1. S # {} /\ IsFiniteSet(S)
      BY <1>8, <2>1, FS_Subset, FS_EmptySet
    <3>2. x \in S
      BY <3>1, <1>3
    <3>4. iter[S] = Replace(iter[S \ {x}], seq[x], Escape(seq[x]))
      BY <1>7, <3>1
    <3> HIDE DEF x
    <3>3. S \ {x} \in SUBSET D /\ Cardinality(S \ {x}) = k
      <4>1. Cardinality(S \ {x}) = Cardinality(S) - 1
        BY <3>1, <3>2, FS_RemoveElement
      <4> QED
        BY <2>1, <4>1
    <3>5. iter[S \ {x}] = m[S \ {x}]
      BY <1>10, <3>3
    <3>6. m[S] = Replace(m[S \ {x}], seq[x], Escape(seq[x]))
      BY <1>4, <3>2
    <3> QED
      BY <3>4, <3>5, <3>6
  <2> QED
    BY <2>1
<1>11. Nat \subseteq T
  <2> HIDE DEF T
  <2> QED
    BY <1>9, <1>10, SetInduction
<1>12. iter[D] = m[D]
  BY <1>8, <1>11, FS_CardinalityType
<1>13. m[D] = Subst(After(Replaced), p)
  BY <1>1 DEF m
<1>14. After(Replaced) = Escapes
  BY EscapeIs DEF After, Escapes, Replaced
<1> QED
  BY <1>2, <1>12, <1>13, <1>14

(* The characters that a file name may have. *)
Fine == Character \ Invalid

(* Those of the keys whose names are their own. *)
Plain == Character \ {EscapeCharacter}

(* Escapes has no invalid characters. *)
LEMMA EscapesType ==
  /\ Escapes \in [Character -> Seq(Character)]
  /\ Escapes \in [Character -> Seq(Fine)]
<1>1. \A x \in Character : Escape(x) \in Seq(Character) /\ Escape(x) \in Seq(Fine)
  BY EscapeIs DEF Fine
<1> QED
  BY <1>1 DEF Escapes

(* What is escaped has no invalid character in it. *)
LEMMA EscapedType ==
  ASSUME NEW p \in Seq(Character)
  PROVE  Escaped(p) \in Seq(Fine) /\ Escaped(p) \in Seq(Character)
<1>1. Subst(Escapes, p) \in Seq(Fine)
  BY EscapesType, SubstType
<1>2. Subst(Escapes, p) \in Seq(Character)
  BY EscapesType, SubstType
<1> QED
  BY <1>1, <1>2, EscapedIs

(* A cut name is as long as a name may be, and has two escape characters.   *)
LEMMA CutIs ==
  ASSUME NEW p \in Path, IsLong(p)
  PROVE  LET k == MaxLength - HashLength - 2
         IN  /\ SanitizeAsync(p) \in Seq(Fine) /\ Len(SanitizeAsync(p)) = MaxLength
             /\ k + 1 \in 1..MaxLength /\ k + 2 \in 1..MaxLength
             /\ SanitizeAsync(p)[k + 1] = EscapeCharacter
             /\ SanitizeAsync(p)[k + 2] = EscapeCharacter
<1> DEFINE k == MaxLength - HashLength - 2
           e == Escaped(p)
           a == SubSeq(e, 1, k)
           b == <<EscapeCharacter, EscapeCharacter>>
           h == PartialHash(e)
<1>1. k \in Nat /\ HashLength \in Nat /\ MaxLength \in Nat /\ k + 2 + HashLength = MaxLength
  BY SanitizerAssumption
<1>2. e \in Seq(Fine) /\ Len(e) > MaxLength /\ Len(e) \in Nat
  <2>1. p \in Seq(Character)
    BY SanitizerAssumption
  <2> QED
    BY <2>1, EscapedType, LenProperties DEF IsLong
<1>3. h \in Seq(Fine) /\ Len(h) = HashLength
  BY HashAssumption DEF Fine, Invalid
<1>4. b \in Seq(Fine) /\ Len(b) = 2 /\ b[1] = EscapeCharacter /\ b[2] = EscapeCharacter
  BY Characters DEF Fine
<1>5. SanitizeAsync(p) = (a \o b) \o h
  BY <1>2 DEF SanitizeAsync, Shorten
<1> HIDE DEF e, b, h, k
<1>6. a \in Seq(Fine) /\ Len(a) = k
  <2>1. \A i \in 1..k : i \in 1..Len(e) /\ e[i] \in Fine
    BY <1>1, <1>2, ElementOfSeq
  <2> QED
    BY <1>1, <1>2, <2>1, SubSeqProperties
<1> HIDE DEF a
<1>7. /\ a \o b \in Seq(Fine) /\ Len(a \o b) = k + 2
      /\ (a \o b)[k + 1] = EscapeCharacter /\ (a \o b)[k + 2] = EscapeCharacter
  <2>1. /\ a \o b \in Seq(Fine) /\ Len(a \o b) = Len(a) + Len(b)
        /\ \A i \in 1..(Len(a) + Len(b)) : (a \o b)[i] = IF i <= Len(a) THEN a[i] ELSE b[i - Len(a)]
    BY <1>4, <1>6, ConcatProperties
  <2>2. /\ k + 1 \in 1..(k + 2) /\ k + 2 \in 1..(k + 2) /\ ~(k + 1 <= k) /\ ~(k + 2 <= k)
        /\ (k + 1) - k = 1 /\ (k + 2) - k = 2
    BY <1>1
  <2> QED
    BY <1>4, <1>6, <2>1, <2>2
<1> DEFINE c == a \o b
<1> HIDE DEF c
<1>8. /\ c \o h \in Seq(Fine) /\ Len(c \o h) = MaxLength
      /\ (c \o h)[k + 1] = EscapeCharacter /\ (c \o h)[k + 2] = EscapeCharacter
  <2>0. c \in Seq(Fine) /\ Len(c) = k + 2 /\ c[k + 1] = EscapeCharacter /\ c[k + 2] = EscapeCharacter
    BY <1>7 DEF c
  <2>1. /\ c \o h \in Seq(Fine) /\ Len(c \o h) = Len(c) + Len(h)
        /\ \A i \in 1..(Len(c) + Len(h)) : (c \o h)[i] = IF i <= Len(c) THEN c[i] ELSE h[i - Len(c)]
    BY <1>3, <2>0, ConcatProperties
  <2>2. /\ k + 1 \in 1..((k + 2) + HashLength) /\ k + 2 \in 1..((k + 2) + HashLength)
        /\ k + 1 <= k + 2 /\ k + 2 <= k + 2
    BY <1>1
  <2> QED
    BY <1>1, <1>3, <2>0, <2>1, <2>2
<1>9. k + 1 \in 1..MaxLength /\ k + 2 \in 1..MaxLength
  BY <1>1
<1> QED
  BY <1>5, <1>8, <1>9 DEF c, k

(* The file system takes the names of the files. *)
LEMMA NamesAreSafe ==
  ASSUME NEW p \in Path
  PROVE  IsSafe(SanitizeAsync(p))
<1> DEFINE s == SanitizeAsync(p)
<1>1. s \in Seq(Fine) /\ Len(s) <= MaxLength
  <2>1. CASE IsLong(p)
    <3>1. MaxLength \in Nat
      BY SanitizerAssumption
    <3> QED
      BY <2>1, <3>1, CutIs
  <2>2. CASE ~IsLong(p)
    <3>1. Escaped(p) \in Seq(Fine)
      BY SanitizerAssumption, EscapedType
    <3>2. s = Escaped(p) /\ ~(Len(Escaped(p)) > MaxLength)
      BY <2>2 DEF IsLong, SanitizeAsync, Shorten
    <3>3. MaxLength \in Nat /\ Len(Escaped(p)) \in Nat
      BY <3>1, SanitizerAssumption, LenProperties
    <3> QED
      BY <3>1, <3>2, <3>3
  <2> QED
    BY <2>1, <2>2
<1> HIDE DEF s
<1>2. \A i \in DOMAIN s : s[i] \in Fine
  BY <1>1
<1>3. ToSet(s) \intersect ToSet(InvalidCharacters) = {}
  BY <1>2 DEF ToSet, Fine, Invalid
<1> QED
  BY <1>1, <1>3 DEF IsSafe, s

(* No escape character comes last or before another. *)
IsSpread(s) ==
  \A i \in 1..Len(s) : s[i] = EscapeCharacter => i < Len(s) /\ s[i + 1] # EscapeCharacter

(* This goes for two such sequences in a row. *)
LEMMA SpreadConcat ==
  ASSUME NEW s \in Seq(Character), NEW r \in Seq(Character), IsSpread(s), IsSpread(r)
  PROVE  IsSpread(s \o r)
<1>1. /\ s \o r \in Seq(Character) /\ Len(s \o r) = Len(s) + Len(r)
      /\ \A i \in 1..(Len(s) + Len(r)) : (s \o r)[i] = IF i <= Len(s) THEN s[i] ELSE r[i - Len(s)]
  BY ConcatProperties
<1>2. Len(s) \in Nat /\ Len(r) \in Nat
  BY LenProperties
<1> DEFINE q == s \o r
<1> HIDE DEF q
<1>3. ASSUME NEW i \in 1..Len(q), q[i] = EscapeCharacter
      PROVE  i < Len(q) /\ q[i + 1] # EscapeCharacter
  <2>1. Len(q) = Len(s) + Len(r)
        /\ \A j \in 1..(Len(s) + Len(r)) : q[j] = IF j <= Len(s) THEN s[j] ELSE r[j - Len(s)]
    BY <1>1 DEF q
  <2>2. CASE i <= Len(s)
    <3>1. i \in 1..Len(s) /\ s[i] = EscapeCharacter
      BY <1>2, <1>3, <2>1, <2>2
    <3>2. i < Len(s) /\ s[i + 1] # EscapeCharacter
      BY <3>1 DEF IsSpread
    <3>3. i + 1 \in 1..(Len(s) + Len(r)) /\ i + 1 <= Len(s)
      BY <1>2, <3>1, <3>2
    <3> QED
      BY <1>2, <2>1, <3>2, <3>3
  <2>3. CASE ~(i <= Len(s))
    <3> DEFINE j == i - Len(s)
    <3>1. j \in 1..Len(r) /\ r[j] = EscapeCharacter
      BY <1>2, <1>3, <2>1, <2>3
    <3>2. j < Len(r) /\ r[j + 1] # EscapeCharacter
      BY <3>1 DEF IsSpread
    <3>3. i + 1 \in 1..(Len(s) + Len(r)) /\ ~(i + 1 <= Len(s)) /\ (i + 1) - Len(s) = j + 1
      BY <1>2, <2>1, <2>3, <3>1, <3>2
    <3> HIDE DEF j
    <3> QED
      BY <1>2, <2>1, <3>2, <3>3
  <2> QED
    BY <2>2, <2>3
<1> QED
  BY <1>3 DEF IsSpread, q

(* Of a name without escape characters, each stands before two digits. *)
LEMMA EscapesAreSpread ==
  ASSUME NEW p \in Seq(Plain)
  PROVE  IsSpread(Escaped(p))
<1> DEFINE T == {r \in Seq(Plain) : IsSpread(Subst(Escapes, r))}
<1>0. Plain \subseteq Character /\ Seq(Plain) \subseteq Seq(Character)
  BY SeqMonotonic DEF Plain
<1>1. <<>> \in T
  BY SubstEmpty, EmptySeq DEF IsSpread
<1>2. ASSUME NEW r \in Seq(Plain), r \in T, NEW x \in Plain PROVE Append(r, x) \in T
  <2>1. x \in Character /\ r \in Seq(Character)
    BY <1>0
  <2>2. Subst(Escapes, Append(r, x)) = Subst(Escapes, r) \o Escapes[x]
    BY <2>1, EscapesType, SubstAppend
  <2>3. Subst(Escapes, r) \in Seq(Character) /\ Escapes[x] \in Seq(Character)
    BY <2>1, EscapesType, SubstType
  <2>4. IsSpread(Escapes[x])
    <3>1. Escapes[x] = Escape(x)
      BY <2>1 DEF Escapes
    <3>2. CASE x \notin Invalid
      <4>1. Escape(x) = <<x>> /\ x # EscapeCharacter
        BY <2>1, <3>2, EscapeIs DEF Plain
      <4> QED
        BY <3>1, <4>1 DEF IsSpread
    <3>3. CASE x \in Invalid
      <4> DEFINE a == Code[x][1]
                 b == Code[x][2]
      <4>1. a # EscapeCharacter /\ b # EscapeCharacter
        BY <3>3, Characters DEF Replaced
      <4>2. Escape(x) = <<EscapeCharacter, a, b>>
        BY <2>1, <3>3, EscapeIs
      <4> HIDE DEF a, b
      <4> QED
        BY <3>1, <4>1, <4>2 DEF IsSpread
    <3> QED
      BY <3>2, <3>3
  <2>5. IsSpread(Subst(Escapes, r))
    BY <1>2
  <2>6. IsSpread(Subst(Escapes, r) \o Escapes[x])
    BY <2>3, <2>4, <2>5, SpreadConcat
  <2>7. Append(r, x) \in Seq(Plain)
    OBVIOUS
  <2> QED
    BY <2>2, <2>6, <2>7
<1>3. Seq(Plain) \subseteq T
  <2> HIDE DEF T
  <2> QED
    BY <1>1, <1>2, SeqInduction
<1> QED
  BY <1>0, <1>3, EscapedIs

(* Folding a sequence keeps its length, and folds its characters. *)
LEMMA FoldedIs ==
  ASSUME NEW s \in Seq(Character)
  PROVE  /\ Folded(s) \in Seq(Character) /\ Len(Folded(s)) = Len(s)
         /\ \A i \in 1..Len(s) : Folded(s)[i] = Fold[s[i]]
<1>1. DOMAIN s = 1..Len(s) /\ Len(s) \in Nat /\ \A i \in 1..Len(s) : s[i] \in Character
  BY LenProperties, ElementOfSeq
<1>2. \A i \in 1..Len(s) : Fold[s[i]] \in Character
  BY <1>1, FoldAssumption
<1>3. Folded(s) \in [1..Len(s) -> Character]
  BY <1>1, <1>2 DEF Folded
<1>4. Folded(s) \in Seq(Character) /\ Len(Folded(s)) = Len(s)
  BY <1>1, <1>3
<1> QED
  BY <1>1, <1>4 DEF Folded

(* A sequence in parts is folded in parts. *)
LEMMA FoldedConcat ==
  ASSUME NEW s \in Seq(Character), NEW r \in Seq(Character)
  PROVE  Folded(s \o r) = Folded(s) \o Folded(r)
<1> DEFINE a == Folded(s \o r)
           b == Folded(s) \o Folded(r)
<1>1. /\ s \o r \in Seq(Character) /\ Len(s \o r) = Len(s) + Len(r)
      /\ \A i \in 1..(Len(s) + Len(r)) : (s \o r)[i] = IF i <= Len(s) THEN s[i] ELSE r[i - Len(s)]
  BY ConcatProperties
<1>2. a \in Seq(Character) /\ Len(a) = Len(s) + Len(r)
      /\ \A i \in 1..(Len(s) + Len(r)) : a[i] = Fold[(s \o r)[i]]
  BY <1>1, FoldedIs
<1>3. /\ Folded(s) \in Seq(Character) /\ Len(Folded(s)) = Len(s)
      /\ Folded(r) \in Seq(Character) /\ Len(Folded(r)) = Len(r)
  BY FoldedIs
<1>4. b \in Seq(Character) /\ Len(b) = Len(s) + Len(r)
      /\ \A i \in 1..(Len(s) + Len(r)) :
           b[i] = IF i <= Len(s) THEN Folded(s)[i] ELSE Folded(r)[i - Len(s)]
  <2> DEFINE f == Folded(s)
             g == Folded(r)
  <2> HIDE DEF f, g
  <2>1. f \in Seq(Character) /\ Len(f) = Len(s) /\ g \in Seq(Character) /\ Len(g) = Len(r)
    BY <1>3 DEF f, g
  <2>2. /\ f \o g \in Seq(Character) /\ Len(f \o g) = Len(s) + Len(r)
        /\ \A i \in 1..(Len(s) + Len(r)) :
             (f \o g)[i] = IF i <= Len(s) THEN f[i] ELSE g[i - Len(s)]
    <3>1. /\ f \o g \in Seq(Character) /\ Len(f \o g) = Len(f) + Len(g)
          /\ \A i \in 1..(Len(f) + Len(g)) :
               (f \o g)[i] = IF i <= Len(f) THEN f[i] ELSE g[i - Len(f)]
      BY <2>1, ConcatProperties
    <3> QED
      BY <2>1, <3>1
  <2> QED
    BY <2>2 DEF f, g
<1> HIDE DEF a, b
<1>5. ASSUME NEW i \in 1..(Len(s) + Len(r)) PROVE a[i] = b[i]
  <2>1. Len(s) \in Nat /\ Len(r) \in Nat
    BY LenProperties
  <2>2. CASE i <= Len(s)
    <3>1. i \in 1..Len(s)
      BY <2>1, <2>2
    <3> QED
      <4>1. a[i] = Fold[(s \o r)[i]] /\ (s \o r)[i] = s[i]
        BY <1>1, <1>2, <2>2
      <4>2. b[i] = Folded(s)[i]
        BY <1>4, <2>2
      <4>3. Folded(s)[i] = Fold[s[i]]
        BY <3>1, FoldedIs
      <4> QED
        BY <4>1, <4>2, <4>3
  <2>3. CASE ~(i <= Len(s))
    <3>1. i - Len(s) \in 1..Len(r)
      BY <2>1, <2>3
    <3> QED
      <4>1. a[i] = Fold[(s \o r)[i]] /\ (s \o r)[i] = r[i - Len(s)]
        BY <1>1, <1>2, <2>3
      <4>2. b[i] = Folded(r)[i - Len(s)]
        BY <1>4, <2>3
      <4>3. Folded(r)[i - Len(s)] = Fold[r[i - Len(s)]]
        BY <3>1, FoldedIs
      <4> QED
        BY <4>1, <4>2, <4>3
  <2> QED
    BY <2>2, <2>3
<1>6. a = b
  BY <1>2, <1>4, <1>5, SeqEqual
<1> QED
  BY <1>6 DEF a, b

(* Folding neither makes an escape character nor removes one. *)
LEMMA FoldedEscape ==
  ASSUME NEW x \in Character
  PROVE  /\ Fold[x] = EscapeCharacter <=> x = EscapeCharacter
         /\ x \in Replaced => Fold[x] = x
         /\ x \notin Replaced => Fold[x] \notin Replaced
  BY Characters, FoldAssumption DEF Replaced, Invalid

LEMMA FoldedIsSpread ==
  ASSUME NEW s \in Seq(Character)
  PROVE  IsSpread(Folded(s)) <=> IsSpread(s)
<1>1. Len(Folded(s)) = Len(s) /\ Len(s) \in Nat /\ \A i \in 1..Len(s) : s[i] \in Character
  BY FoldedIs, LenProperties, ElementOfSeq
<1>2. \A i \in 1..Len(s) : Folded(s)[i] = EscapeCharacter <=> s[i] = EscapeCharacter
  BY <1>1, FoldedIs, FoldedEscape
<1>3. \A i \in 1..Len(s) : i < Len(s) => i + 1 \in 1..Len(s)
  BY <1>1
<1> QED
  BY <1>1, <1>2, <1>3 DEF IsSpread

(* What a character is escaped to, folded: the character, or three. *)
FoldedEscapeOf(x) == Folded(Escape(x))

LEMMA FoldedEscapeIs ==
  ASSUME NEW x \in Plain
  PROVE  /\ FoldedEscapeOf(x) \in Seq(Character) /\ FoldedEscapeOf(x) # <<>>
         /\ x \notin Invalid => FoldedEscapeOf(x) = <<Fold[x]>>
         /\ x \in Invalid => /\ Len(FoldedEscapeOf(x)) = 3
                             /\ FoldedEscapeOf(x)[1] = EscapeCharacter
                             /\ FoldedEscapeOf(x)[2] = Folded(Code[x])[1]
                             /\ FoldedEscapeOf(x)[3] = Folded(Code[x])[2]
<1>1. x \in Character /\ Escape(x) \in Seq(Character)
  BY EscapeIs DEF Plain
<1>2. /\ FoldedEscapeOf(x) \in Seq(Character) /\ Len(FoldedEscapeOf(x)) = Len(Escape(x))
      /\ \A i \in 1..Len(Escape(x)) : FoldedEscapeOf(x)[i] = Fold[Escape(x)[i]]
  BY <1>1, FoldedIs DEF FoldedEscapeOf
<1>3. CASE x \notin Invalid
  <2>1. Escape(x) = <<x>> /\ Len(<<x>>) = 1 /\ <<x>>[1] = x
    BY <1>1, <1>3, EscapeIs
  <2>2. Len(FoldedEscapeOf(x)) = 1 /\ FoldedEscapeOf(x)[1] = Fold[x]
    BY <1>2, <2>1
  <2>3. <<Fold[x]>> \in Seq(Character) /\ Len(<<Fold[x]>>) = 1 /\ <<Fold[x]>>[1] = Fold[x]
    BY <1>1, FoldAssumption
  <2>4. \A i \in 1..1 : FoldedEscapeOf(x)[i] = <<Fold[x]>>[i]
    BY <2>2
  <2>5. FoldedEscapeOf(x) = <<Fold[x]>>
    BY <1>2, <2>2, <2>3, <2>4, SeqEqual
  <2> QED
    BY <1>2, <1>3, <2>3, <2>5
<1>4. CASE x \in Invalid
  <2>1. Escape(x) = <<EscapeCharacter, Code[x][1], Code[x][2]>>
    BY <1>1, <1>4, EscapeIs
  <2>2. /\ Len(Escape(x)) = 3 /\ Escape(x)[1] = EscapeCharacter
        /\ Escape(x)[2] = Code[x][1] /\ Escape(x)[3] = Code[x][2]
    BY <2>1
  <2>3. Code[x] \in Seq(Character) /\ Len(Code[x]) = 2
    BY <1>4, Characters
  <2>4. Folded(Code[x])[1] = Fold[Code[x][1]] /\ Folded(Code[x])[2] = Fold[Code[x][2]]
    BY <2>3, FoldedIs
  <2>5. Fold[EscapeCharacter] = EscapeCharacter
    BY Characters, FoldedEscape
  <2>6. 1 \in 1..3 /\ 2 \in 1..3 /\ 3 \in 1..3
    OBVIOUS
  <2>7. Len(FoldedEscapeOf(x)) = 3
    BY <1>2, <2>2
  <2>8. FoldedEscapeOf(x) # <<>>
    BY <2>7
  <2> QED
    BY <1>2, <1>4, <2>2, <2>4, <2>5, <2>6, <2>7, <2>8
<1> QED
  BY <1>3, <1>4

(* What a name's first character is escaped to tells which it is, up to     *)
(* case.                                                                    *)
LEMMA FirstIsTold ==
  ASSUME NEW x \in Plain, NEW y \in Plain, NEW u \in Seq(Character), NEW v \in Seq(Character),
         FoldedEscapeOf(x) \o u = FoldedEscapeOf(y) \o v
  PROVE  Fold[x] = Fold[y] /\ FoldedEscapeOf(x) = FoldedEscapeOf(y)
<1> DEFINE X == FoldedEscapeOf(x)
           Y == FoldedEscapeOf(y)
<1>1. x \in Character /\ y \in Character /\ x # EscapeCharacter /\ y # EscapeCharacter
  BY DEF Plain
<1>2. X \in Seq(Character) /\ Y \in Seq(Character)
  BY FoldedEscapeIs
<1>3. ASSUME NEW i \in Nat, i \in 1..Len(X), i \in 1..Len(Y) PROVE X[i] = Y[i]
  <2> HIDE DEF X, Y
  <2>1. (X \o u)[i] = X[i] /\ (Y \o v)[i] = Y[i]
    BY <1>2, <1>3, FirstOfConcat
  <2> QED
    BY <2>1 DEF X, Y
<1>4. ASSUME NEW z \in Plain, z \notin Invalid
      PROVE  /\ FoldedEscapeOf(z) = <<Fold[z]>> /\ Len(FoldedEscapeOf(z)) = 1
             /\ FoldedEscapeOf(z)[1] = Fold[z] /\ Fold[z] # EscapeCharacter
  <2>1. z \in Character /\ z # EscapeCharacter
    BY DEF Plain
  <2>2. FoldedEscapeOf(z) = <<Fold[z]>>
    BY <1>4, FoldedEscapeIs
  <2> QED
    BY <2>1, <2>2, FoldedEscape
<1>5. /\ x \in Invalid => Len(X) = 3 /\ X[1] = EscapeCharacter
      /\ y \in Invalid => Len(Y) = 3 /\ Y[1] = EscapeCharacter
  BY FoldedEscapeIs
<1>6. X[1] = Y[1]
  <2>1. 1 \in 1..Len(X) /\ 1 \in 1..Len(Y)
    BY <1>4, <1>5
  <2> QED
    BY <1>3, <2>1
<1>7. CASE x \notin Invalid
  <2>1. y \notin Invalid
    BY <1>4, <1>5, <1>6, <1>7
  <2> QED
    BY <1>4, <1>6, <1>7, <2>1
<1>8. CASE x \in Invalid
  <2>1. y \in Invalid
    BY <1>4, <1>5, <1>6, <1>8
  <2>2. X[2] = Y[2] /\ X[3] = Y[3]
    <3>1. Len(X) = 3 /\ Len(Y) = 3
      BY <1>5, <1>8, <2>1
    <3>2. 2 \in 1..3 /\ 3 \in 1..3
      OBVIOUS
    <3> QED
      BY <1>3, <3>1, <3>2
  <2>3. Folded(Code[x])[1] = Folded(Code[y])[1] /\ Folded(Code[x])[2] = Folded(Code[y])[2]
    BY <1>8, <2>1, <2>2, FoldedEscapeIs
  <2>4. Folded(Code[x]) = Folded(Code[y])
    <3>1. /\ Folded(Code[x]) \in Seq(Character) /\ Len(Folded(Code[x])) = 2
          /\ Folded(Code[y]) \in Seq(Character) /\ Len(Folded(Code[y])) = 2
      BY <1>8, <2>1, Characters, FoldedIs
    <3>2. \A i \in 1..2 : Folded(Code[x])[i] = Folded(Code[y])[i]
      BY <2>3
    <3> QED
      BY <3>1, <3>2, SeqEqual
  <2>5. x = y
    BY <1>8, <2>1, <2>4, FoldAssumption DEF Invalid
  <2> QED
    BY <2>5
<1> QED
  BY <1>7, <1>8

(* Names without escape characters that are escaped to one, up to case, are *)
(* one, up to case.                                                         *)
LEMMA EscapedTells ==
  ASSUME NEW p \in Seq(Plain), NEW q \in Seq(Plain), Folded(Escaped(p)) = Folded(Escaped(q))
  PROVE  Folded(p) = Folded(q)
<1> DEFINE E(r) == Folded(Subst(Escapes, r))
           T == {r \in Seq(Plain) : \A s \in Seq(Plain) : E(r) = E(s) => Folded(r) = Folded(s)}
<1>0. Plain \subseteq Character /\ Seq(Plain) \subseteq Seq(Character)
  BY SeqMonotonic DEF Plain
<1>1. ASSUME NEW x \in Plain, NEW r \in Seq(Plain)
      PROVE  /\ E(<<x>> \o r) = FoldedEscapeOf(x) \o E(r)
             /\ E(r) \in Seq(Character)
             /\ Folded(<<x>> \o r) = <<Fold[x]>> \o Folded(r)
             /\ E(<<x>> \o r) # <<>>
  <2>1. x \in Character /\ r \in Seq(Character) /\ <<x>> \in Seq(Character)
    BY <1>0
  <2>2. Subst(Escapes, <<x>> \o r) = Subst(Escapes, <<x>>) \o Subst(Escapes, r)
    BY <2>1, EscapesType, SubstDistributes
  <2>3. Subst(Escapes, <<x>>) = Escapes[x]
    BY <2>1, EscapesType, SubstOne
  <2>4. Escapes[x] = Escape(x) /\ Escape(x) \in Seq(Character)
    BY <2>1, EscapeIs DEF Escapes
  <2>5. Subst(Escapes, r) \in Seq(Character)
    BY <2>1, EscapesType, SubstType
  <2>6. E(<<x>> \o r) = FoldedEscapeOf(x) \o E(r)
    <3>1. Subst(Escapes, <<x>> \o r) = Escape(x) \o Subst(Escapes, r)
      BY <2>2, <2>3, <2>4
    <3>2. Folded(Escape(x) \o Subst(Escapes, r)) = Folded(Escape(x)) \o Folded(Subst(Escapes, r))
      BY <2>4, <2>5, FoldedConcat
    <3> QED
      BY <3>1, <3>2 DEF FoldedEscapeOf
  <2>7. E(r) \in Seq(Character)
    BY <2>5, FoldedIs
  <2>8. Folded(<<x>> \o r) = <<Fold[x]>> \o Folded(r)
    <3>1. Folded(<<x>>) = <<Fold[x]>>
      BY <2>1 DEF Folded
    <3> QED
      BY <2>1, <3>1, FoldedConcat
  <2>9. FoldedEscapeOf(x) \o E(r) # <<>>
    <3> HIDE DEF E
    <3>1. FoldedEscapeOf(x) \in Seq(Character) /\ FoldedEscapeOf(x) # <<>>
      BY FoldedEscapeIs
    <3> QED
      BY <2>7, <3>1, FirstOfConcat
  <2> QED
    BY <2>6, <2>7, <2>8, <2>9
<1>2. E(<<>>) = <<>>
  BY SubstEmpty DEF Folded
<1> HIDE DEF E
<1>3. <<>> \in T
  <2>1. ASSUME NEW s \in Seq(Plain), E(s) = <<>> PROVE s = <<>>
    <3> SUFFICES ASSUME s # <<>> PROVE FALSE
      OBVIOUS
    <3>1. PICK y \in Plain, r \in Seq(Plain) : s = <<y>> \o r
      BY HasFirst
    <3> QED
      BY <1>1, <2>1, <3>1
  <2> QED
    BY <1>2, <2>1, EmptySeq
<1>4. ASSUME NEW r \in Seq(Plain), r \in T, NEW x \in Plain PROVE <<x>> \o r \in T
  <2> DEFINE xr == <<x>> \o r
  <2>0. xr \in Seq(Plain)
    OBVIOUS
  <2>1. ASSUME NEW s \in Seq(Plain), E(xr) = E(s) PROVE Folded(xr) = Folded(s)
    <3>0. E(xr) # <<>> /\ E(xr) = FoldedEscapeOf(x) \o E(r)
      BY <1>1, <1>4
    <3>1. s # <<>>
      BY <1>2, <2>1, <3>0
    <3>2. PICK y \in Plain, z \in Seq(Plain) : s = <<y>> \o z
      BY <3>1, HasFirst
    <3>3. FoldedEscapeOf(x) \o E(r) = FoldedEscapeOf(y) \o E(z)
      <4>1. E(s) = FoldedEscapeOf(y) \o E(z)
        BY <1>1, <3>2
      <4> QED
        BY <2>1, <3>0, <4>1
    <3>4. Fold[x] = Fold[y] /\ FoldedEscapeOf(x) = FoldedEscapeOf(y)
      BY <1>1, <3>3, FirstIsTold
    <3>5. E(r) = E(z)
      <4>1. /\ FoldedEscapeOf(x) \in Seq(Character)
            /\ E(r) \in Seq(Character) /\ E(z) \in Seq(Character)
            /\ FoldedEscapeOf(x) \o E(r) = FoldedEscapeOf(x) \o E(z)
        BY <1>1, <3>3, <3>4, FoldedEscapeIs
      <4> QED
        BY <4>1, ConcatSimplifications
    <3>6. Folded(r) = Folded(z)
      BY <1>4, <3>5
    <3>7. Folded(xr) = <<Fold[x]>> \o Folded(r) /\ Folded(s) = <<Fold[y]>> \o Folded(z)
      BY <1>1, <3>2
    <3> QED
      BY <3>4, <3>6, <3>7
  <2> HIDE DEF xr
  <2>2. xr \in T
    BY <2>0, <2>1
  <2> QED
    BY <2>2 DEF xr
<1>5. Seq(Plain) \subseteq T
  <2> HIDE DEF T
  <2> QED
    BY <1>3, <1>4, FrontInduction
<1>6. E(p) = E(q)
  <2>1. Escaped(p) = Subst(Escapes, p) /\ Escaped(q) = Subst(Escapes, q)
    BY <1>0, EscapedIs
  <2> QED
    BY <2>1 DEF E
<1> QED
  BY <1>5, <1>6

(* The two escape characters tell a name that was cut from one that was     *)
(* not.                                                                     *)
LEMMA LongIsNotShort ==
  ASSUME NEW m \in Path, NEW n \in Path, IsLong(m), ~IsLong(n), ~HasEscape(n)
  PROVE  Folded(SanitizeAsync(m)) # Folded(SanitizeAsync(n))
<1> DEFINE s == SanitizeAsync(m)
           r == SanitizeAsync(n)
           k == MaxLength - HashLength - 2
<1>1. n \in Seq(Plain) /\ n \in Seq(Character)
  BY SanitizerAssumption DEF HasEscape, ToSet, Plain
<1>2. r = Escaped(n) /\ r \in Seq(Character)
  BY <1>1, EscapedType DEF SanitizeAsync, Shorten, IsLong
<1>3. IsSpread(r)
  BY <1>1, <1>2, EscapesAreSpread
<1>4. /\ s \in Seq(Fine) /\ Len(s) = MaxLength
      /\ k + 1 \in 1..MaxLength /\ k + 2 \in 1..MaxLength
      /\ s[k + 1] = EscapeCharacter /\ s[k + 2] = EscapeCharacter
  BY CutIs
<1>5. (k + 1) + 1 = k + 2
  BY SanitizerAssumption
<1>6. s \in Seq(Character)
  <2>1. Fine \subseteq Character
    BY DEF Fine
  <2> QED
    BY <1>4, <2>1, SeqMonotonic
<1> HIDE DEF s, r, k
<1>7. ~IsSpread(s)
  BY <1>4, <1>5 DEF IsSpread
<1>8. Folded(s) # Folded(r)
  BY <1>2, <1>3, <1>6, <1>7, FoldedIsSpread
<1> QED
  BY <1>8 DEF s, r

(* A file is that of one name only, but for the exceptions there are. *)
LEMMA PathsApart == PathsAreApart
<1> SUFFICES ASSUME NEW m \in Path, NEW n \in Path,
                    Folded(SanitizeAsync(m)) = Folded(SanitizeAsync(n)),
                    ~HasEscape(m), ~HasEscape(n)
             PROVE  Folded(m) = Folded(n) \/ (IsLong(m) /\ IsLong(n))
  BY DEF PathsAreApart
<1>1. m \in Seq(Plain) /\ n \in Seq(Plain)
  BY SanitizerAssumption DEF HasEscape, ToSet, Plain
<1>2. IsLong(m) <=> IsLong(n)
  BY LongIsNotShort
<1>3. CASE ~IsLong(m) /\ ~IsLong(n)
  <2>1. SanitizeAsync(m) = Escaped(m) /\ SanitizeAsync(n) = Escaped(n)
    BY <1>3 DEF SanitizeAsync, Shorten, IsLong
  <2> QED
    BY <1>1, <2>1, EscapedTells
<1> QED
  BY <1>2, <1>3

(* No file is made that the file system would refuse, and none is that of   *)
(* two keys, unless they differ in case only, one has an escape character   *)
(* in it or both are long, for any keys, invalid characters, codes, hash    *)
(* and case (FileSystemPathSanitizer.cs 35-69).                             *)
THEOREM FilesAreNamedApart == Spec => []FileNames
<1>1. ASSUME NEW n \in Name PROVE IsSafe(SanitizeAsync(n))
  BY NameAssumption, NamesAreSafe
<1>2. FileNames
  BY <1>1, PathsApart DEF FileNames
<1> QED
  BY <1>2, PTL

===============================================================================
