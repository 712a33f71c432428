----------------------------- MODULE HMACKeyProofs -----------------------------
(***************************************************************************)
(* Proofs about HMACKey, for any number of requests and any keys.          *)
(***************************************************************************)
EXTENDS HMACKey, TLAPS

LEMMA InitInv == Init => IInv
<1> SUFFICES ASSUME Init PROVE IInv
  OBVIOUS
<1> USE KeysAssumption DEF Init, NoReply
<1>1. TypeOK
  BY DEF TypeOK, PC, Reply
<1>2. HandlesExclude /\ PostsAreLong /\ EmptyIsInProgress /\ FileIsThereToRead
  BY DEF HandlesExclude, PostsAreLong, EmptyIsInProgress, FileIsThereToRead
<1>3. PostsAreAlone
  BY DEF PostsAreAlone, Posting
<1> QED
  BY <1>1, <1>2, <1>3 DEF IInv

LEMMA PostKeyInv ==
  ASSUME IInv, NEW q \in Request, NEW k \in LongKey \union ShortKey, PostKey(q, k)
  PROVE  IInv'
<1> USE KeysAssumption DEF IInv, PostKey, Goto, Answer, NoReply, Exists, CanOpenToWrite, CanOpenToRead, IsShort
<1> USE DEF TypeOK, PC
<1>1. TypeOK'
  BY DEF Reply, Error, EmptyIsInProgress, FileIsThereToRead, PostsAreLong, HandlesExclude
<1>2. HandlesExclude'
  BY DEF HandlesExclude
<1>3. PostsAreLong'
  BY DEF PostsAreLong
<1>4. EmptyIsInProgress'
  BY DEF EmptyIsInProgress, HandlesExclude, PostsAreLong
<1>5. FileIsThereToRead'
  BY DEF FileIsThereToRead, EmptyIsInProgress, PostsAreLong
<1>6. PostsAreAlone'
  BY DEF PostsAreAlone, Posting
<1> QED
  BY <1>1, <1>2, <1>3, <1>4, <1>5, <1>6

LEMMA PostNullInv ==
  ASSUME IInv, NEW q \in Request, PostNull(q)
  PROVE  IInv'
<1> USE KeysAssumption DEF IInv, PostNull, Goto, Fail, Answer, NoReply, Exists, CanOpenToWrite, CanOpenToRead, IsShort
<1> USE DEF TypeOK, PC
<1>1. TypeOK'
  BY DEF Reply, Error, EmptyIsInProgress, FileIsThereToRead, PostsAreLong, HandlesExclude
<1>2. HandlesExclude'
  BY DEF HandlesExclude
<1>3. PostsAreLong'
  BY DEF PostsAreLong
<1>4. EmptyIsInProgress'
  BY DEF EmptyIsInProgress, HandlesExclude, PostsAreLong
<1>5. FileIsThereToRead'
  BY DEF FileIsThereToRead, EmptyIsInProgress, PostsAreLong
<1>6. PostsAreAlone'
  BY DEF PostsAreAlone, Posting
<1> QED
  BY <1>1, <1>2, <1>3, <1>4, <1>5, <1>6

LEMMA AlreadySetInv ==
  ASSUME IInv, NEW q \in Request, AlreadySet(q)
  PROVE  IInv'
<1> USE KeysAssumption DEF IInv, AlreadySet, Goto, Fail, Answer, NoReply, Exists, CanOpenToWrite, CanOpenToRead, IsShort
<1> USE DEF TypeOK, PC
<1>1. TypeOK'
  BY DEF Reply, Error, EmptyIsInProgress, FileIsThereToRead, PostsAreLong, HandlesExclude
<1>2. HandlesExclude'
  BY DEF HandlesExclude
<1>3. PostsAreLong'
  BY DEF PostsAreLong
<1>4. EmptyIsInProgress'
  BY DEF EmptyIsInProgress, HandlesExclude, PostsAreLong
<1>5. FileIsThereToRead'
  BY DEF FileIsThereToRead, EmptyIsInProgress, PostsAreLong
<1>6. PostsAreAlone'
  BY DEF PostsAreAlone, Posting
<1> QED
  BY <1>1, <1>2, <1>3, <1>4, <1>5, <1>6

LEMMA TooShortInv ==
  ASSUME IInv, NEW q \in Request, TooShort(q)
  PROVE  IInv'
<1> USE KeysAssumption DEF IInv, TooShort, Goto, Fail, Answer, NoReply, Exists, CanOpenToWrite, CanOpenToRead, IsShort
<1> USE DEF TypeOK, PC
<1>1. TypeOK'
  BY DEF Reply, Error, EmptyIsInProgress, FileIsThereToRead, PostsAreLong, HandlesExclude
<1>2. HandlesExclude'
  BY DEF HandlesExclude
<1>3. PostsAreLong'
  BY DEF PostsAreLong
<1>4. EmptyIsInProgress'
  BY DEF EmptyIsInProgress, HandlesExclude, PostsAreLong
<1>5. FileIsThereToRead'
  BY DEF FileIsThereToRead, EmptyIsInProgress, PostsAreLong
<1>6. PostsAreAlone'
  BY DEF PostsAreAlone, Posting
<1> QED
  BY <1>1, <1>2, <1>3, <1>4, <1>5, <1>6

LEMMA PassChecksInv ==
  ASSUME IInv, NEW q \in Request, PassChecks(q)
  PROVE  IInv'
<1> USE KeysAssumption DEF IInv, PassChecks, Goto, Answer, NoReply, Exists, CanOpenToWrite, CanOpenToRead, IsShort
<1> USE DEF TypeOK, PC
<1>1. TypeOK'
  BY DEF Reply, Error, EmptyIsInProgress, FileIsThereToRead, PostsAreLong, HandlesExclude
<1>2. HandlesExclude'
  BY DEF HandlesExclude
<1>3. PostsAreLong'
  BY DEF PostsAreLong
<1>4. EmptyIsInProgress'
  BY DEF EmptyIsInProgress, HandlesExclude, PostsAreLong
<1>5. FileIsThereToRead'
  BY DEF FileIsThereToRead, EmptyIsInProgress, PostsAreLong
<1>6. PostsAreAlone'
  BY DEF PostsAreAlone, Posting
<1> QED
  BY <1>1, <1>2, <1>3, <1>4, <1>5, <1>6

LEMMA OpenToWriteInv ==
  ASSUME IInv, NEW q \in Request, OpenToWrite(q)
  PROVE  IInv'
<1> USE KeysAssumption DEF IInv, OpenToWrite, Goto, Answer, NoReply, Exists, CanOpenToWrite, CanOpenToRead, IsShort
<1> USE DEF TypeOK, PC
<1>1. TypeOK'
  BY DEF Reply, Error, EmptyIsInProgress, FileIsThereToRead, PostsAreLong, HandlesExclude
<1>2. HandlesExclude'
  BY DEF HandlesExclude
<1>3. PostsAreLong'
  BY DEF PostsAreLong
<1>4. EmptyIsInProgress'
  BY DEF EmptyIsInProgress, HandlesExclude, PostsAreLong
<1>5. FileIsThereToRead'
  BY DEF FileIsThereToRead, EmptyIsInProgress, PostsAreLong
<1>6. PostsAreAlone'
  BY DEF PostsAreAlone, Posting
<1> QED
  BY <1>1, <1>2, <1>3, <1>4, <1>5, <1>6

LEMMA WriteSharingViolationInv ==
  ASSUME IInv, NEW q \in Request, WriteSharingViolation(q)
  PROVE  IInv'
<1> USE KeysAssumption DEF IInv, WriteSharingViolation, Goto, Fail, Answer, NoReply, Exists, CanOpenToWrite, CanOpenToRead, IsShort
<1> USE DEF TypeOK, PC
<1>1. TypeOK'
  BY DEF Reply, Error, EmptyIsInProgress, FileIsThereToRead, PostsAreLong, HandlesExclude
<1>2. HandlesExclude'
  BY DEF HandlesExclude
<1>3. PostsAreLong'
  BY DEF PostsAreLong
<1>4. EmptyIsInProgress'
  BY DEF EmptyIsInProgress, HandlesExclude, PostsAreLong
<1>5. FileIsThereToRead'
  BY DEF FileIsThereToRead, EmptyIsInProgress, PostsAreLong
<1>6. PostsAreAlone'
  BY DEF PostsAreAlone, Posting
<1> QED
  BY <1>1, <1>2, <1>3, <1>4, <1>5, <1>6

LEMMA WriteAndCloseInv ==
  ASSUME IInv, NEW q \in Request, WriteAndClose(q)
  PROVE  IInv'
<1> USE KeysAssumption DEF IInv, WriteAndClose, Goto, Answer, NoReply, Exists, CanOpenToWrite, CanOpenToRead, IsShort
<1> USE DEF TypeOK, PC
<1>1. TypeOK'
  BY DEF Reply, Error, EmptyIsInProgress, FileIsThereToRead, PostsAreLong, HandlesExclude
<1>2. HandlesExclude'
  BY DEF HandlesExclude
<1>3. PostsAreLong'
  BY DEF PostsAreLong
<1>4. EmptyIsInProgress'
  BY DEF EmptyIsInProgress, HandlesExclude, PostsAreLong
<1>5. FileIsThereToRead'
  BY DEF FileIsThereToRead, EmptyIsInProgress, PostsAreLong
<1>6. PostsAreAlone'
  BY DEF PostsAreAlone, Posting
<1> QED
  BY <1>1, <1>2, <1>3, <1>4, <1>5, <1>6

LEMMA WriteFailsInv ==
  ASSUME IInv, NEW q \in Request, WriteFails(q)
  PROVE  IInv'
<1> USE KeysAssumption DEF IInv, WriteFails, Goto, Answer, NoReply, Exists, CanOpenToWrite, CanOpenToRead, IsShort
<1> USE DEF TypeOK, PC
<1>1. TypeOK'
  BY DEF Reply, Error, EmptyIsInProgress, FileIsThereToRead, PostsAreLong, HandlesExclude
<1>2. HandlesExclude'
  BY DEF HandlesExclude
<1>3. PostsAreLong'
  BY DEF PostsAreLong
<1>4. EmptyIsInProgress'
  BY DEF EmptyIsInProgress, HandlesExclude, PostsAreLong
<1>5. FileIsThereToRead'
  BY DEF FileIsThereToRead, EmptyIsInProgress, PostsAreLong
<1>6. PostsAreAlone'
  BY DEF PostsAreAlone, Posting
<1> QED
  BY <1>1, <1>2, <1>3, <1>4, <1>5, <1>6

LEMMA GetIsSetInv ==
  ASSUME IInv, NEW q \in Request, GetIsSet(q)
  PROVE  IInv'
<1> USE KeysAssumption DEF IInv, GetIsSet, Answer, NoReply, Exists, CanOpenToWrite, CanOpenToRead, IsShort
<1> USE DEF TypeOK, PC
<1>1. TypeOK'
  BY DEF Reply, Error, EmptyIsInProgress, FileIsThereToRead, PostsAreLong, HandlesExclude
<1>2. HandlesExclude'
  BY DEF HandlesExclude
<1>3. PostsAreLong'
  BY DEF PostsAreLong
<1>4. EmptyIsInProgress'
  BY DEF EmptyIsInProgress, HandlesExclude, PostsAreLong
<1>5. FileIsThereToRead'
  BY DEF FileIsThereToRead, EmptyIsInProgress, PostsAreLong
<1>6. PostsAreAlone'
  BY DEF PostsAreAlone, Posting
<1> QED
  BY <1>1, <1>2, <1>3, <1>4, <1>5, <1>6

LEMMA GetCurrentInv ==
  ASSUME IInv, NEW q \in Request, GetCurrent(q)
  PROVE  IInv'
<1> USE KeysAssumption DEF IInv, GetCurrent, Goto, Answer, NoReply, Exists, CanOpenToWrite, CanOpenToRead, IsShort
<1> USE DEF TypeOK, PC
<1>1. TypeOK'
  BY DEF Reply, Error, EmptyIsInProgress, FileIsThereToRead, PostsAreLong, HandlesExclude
<1>2. HandlesExclude'
  BY DEF HandlesExclude
<1>3. PostsAreLong'
  BY DEF PostsAreLong
<1>4. EmptyIsInProgress'
  BY DEF EmptyIsInProgress, HandlesExclude, PostsAreLong
<1>5. FileIsThereToRead'
  BY DEF FileIsThereToRead, EmptyIsInProgress, PostsAreLong
<1>6. PostsAreAlone'
  BY DEF PostsAreAlone, Posting
<1> QED
  BY <1>1, <1>2, <1>3, <1>4, <1>5, <1>6

LEMMA UseDefaultKeyInv ==
  ASSUME IInv, NEW q \in Request, UseDefaultKey(q)
  PROVE  IInv'
<1> USE KeysAssumption DEF IInv, UseDefaultKey, Goto, Answer, NoReply, Exists, CanOpenToWrite, CanOpenToRead, IsShort
<1> USE DEF TypeOK, PC
<1>1. TypeOK'
  BY DEF Reply, Error, EmptyIsInProgress, FileIsThereToRead, PostsAreLong, HandlesExclude
<1>2. HandlesExclude'
  BY DEF HandlesExclude
<1>3. PostsAreLong'
  BY DEF PostsAreLong
<1>4. EmptyIsInProgress'
  BY DEF EmptyIsInProgress, HandlesExclude, PostsAreLong
<1>5. FileIsThereToRead'
  BY DEF FileIsThereToRead, EmptyIsInProgress, PostsAreLong
<1>6. PostsAreAlone'
  BY DEF PostsAreAlone, Posting
<1> QED
  BY <1>1, <1>2, <1>3, <1>4, <1>5, <1>6

LEMMA FileExistsInv ==
  ASSUME IInv, NEW q \in Request, FileExists(q)
  PROVE  IInv'
<1> USE KeysAssumption DEF IInv, FileExists, Goto, Answer, NoReply, Exists, CanOpenToWrite, CanOpenToRead, IsShort
<1> USE DEF TypeOK, PC
<1>1. TypeOK'
  BY DEF Reply, Error, EmptyIsInProgress, FileIsThereToRead, PostsAreLong, HandlesExclude
<1>2. HandlesExclude'
  BY DEF HandlesExclude
<1>3. PostsAreLong'
  BY DEF PostsAreLong
<1>4. EmptyIsInProgress'
  BY DEF EmptyIsInProgress, HandlesExclude, PostsAreLong
<1>5. FileIsThereToRead'
  BY DEF FileIsThereToRead, EmptyIsInProgress, PostsAreLong
<1>6. PostsAreAlone'
  BY DEF PostsAreAlone, Posting
<1> QED
  BY <1>1, <1>2, <1>3, <1>4, <1>5, <1>6

LEMMA OpenToReadInv ==
  ASSUME IInv, NEW q \in Request, OpenToRead(q)
  PROVE  IInv'
<1> USE KeysAssumption DEF IInv, OpenToRead, Goto, Answer, NoReply, Exists, CanOpenToWrite, CanOpenToRead, IsShort
<1> USE DEF TypeOK, PC
<1>1. TypeOK'
  BY DEF Reply, Error, EmptyIsInProgress, FileIsThereToRead, PostsAreLong, HandlesExclude
<1>2. HandlesExclude'
  BY DEF HandlesExclude
<1>3. PostsAreLong'
  BY DEF PostsAreLong
<1>4. EmptyIsInProgress'
  BY DEF EmptyIsInProgress, HandlesExclude, PostsAreLong
<1>5. FileIsThereToRead'
  BY DEF FileIsThereToRead, EmptyIsInProgress, PostsAreLong
<1>6. PostsAreAlone'
  BY DEF PostsAreAlone, Posting
<1> QED
  BY <1>1, <1>2, <1>3, <1>4, <1>5, <1>6

LEMMA ReadSharingViolationInv ==
  ASSUME IInv, NEW q \in Request, ReadSharingViolation(q)
  PROVE  IInv'
<1> USE KeysAssumption DEF IInv, ReadSharingViolation, Goto, Fail, Answer, NoReply, Exists, CanOpenToWrite, CanOpenToRead, IsShort
<1> USE DEF TypeOK, PC
<1>1. TypeOK'
  BY DEF Reply, Error, EmptyIsInProgress, FileIsThereToRead, PostsAreLong, HandlesExclude
<1>2. HandlesExclude'
  BY DEF HandlesExclude
<1>3. PostsAreLong'
  BY DEF PostsAreLong
<1>4. EmptyIsInProgress'
  BY DEF EmptyIsInProgress, HandlesExclude, PostsAreLong
<1>5. FileIsThereToRead'
  BY DEF FileIsThereToRead, EmptyIsInProgress, PostsAreLong
<1>6. PostsAreAlone'
  BY DEF PostsAreAlone, Posting
<1> QED
  BY <1>1, <1>2, <1>3, <1>4, <1>5, <1>6

LEMMA ReadAndCloseInv ==
  ASSUME IInv, NEW q \in Request, ReadAndClose(q)
  PROVE  IInv'
<1> USE KeysAssumption DEF IInv, ReadAndClose, Goto, Answer, NoReply, Exists, CanOpenToWrite, CanOpenToRead, IsShort
<1> USE DEF TypeOK, PC
<1>1. TypeOK'
  BY DEF Reply, Error, EmptyIsInProgress, FileIsThereToRead, PostsAreLong, HandlesExclude
<1>2. HandlesExclude'
  BY DEF HandlesExclude
<1>3. PostsAreLong'
  BY DEF PostsAreLong
<1>4. EmptyIsInProgress'
  BY DEF EmptyIsInProgress, HandlesExclude, PostsAreLong
<1>5. FileIsThereToRead'
  BY DEF FileIsThereToRead, EmptyIsInProgress, PostsAreLong
<1>6. PostsAreAlone'
  BY DEF PostsAreAlone, Posting
<1> QED
  BY <1>1, <1>2, <1>3, <1>4, <1>5, <1>6

LEMMA CrashInv ==
  ASSUME IInv, Crash
  PROVE  IInv'
<1> USE KeysAssumption DEF IInv, Crash, NoReply, Exists, CanOpenToWrite, CanOpenToRead, IsShort
<1> USE DEF TypeOK, PC
<1>1. TypeOK'
  BY DEF Reply, Error, EmptyIsInProgress, FileIsThereToRead, PostsAreLong, HandlesExclude
<1>2. HandlesExclude'
  BY DEF HandlesExclude
<1>3. PostsAreLong'
  BY DEF PostsAreLong
<1>4. EmptyIsInProgress'
  BY DEF EmptyIsInProgress, HandlesExclude, PostsAreLong
<1>5. FileIsThereToRead'
  BY DEF FileIsThereToRead, EmptyIsInProgress, PostsAreLong
<1>6. PostsAreAlone'
  BY DEF PostsAreAlone, Posting
<1> QED
  BY <1>1, <1>2, <1>3, <1>4, <1>5, <1>6

(* Handles exclude, an empty file is in progress or torn, and posts that do *)
(* not overlap are alone (HMACKey.cs 27-42, PhysicalStorage.cs 22-58).      *)
THEOREM Inductive == Spec => []IInv
<1>1. IInv /\ [Next]_vars => IInv'
  <2> SUFFICES ASSUME IInv, [Next]_vars PROVE IInv'
    OBVIOUS
  <2>1. ASSUME NEW q \in Request, NEW k \in LongKey \union ShortKey, PostKey(q, k)
        PROVE  IInv'
    BY <2>1, PostKeyInv
  <2>2. ASSUME NEW q \in Request,
               \/ PostNull(q) \/ AlreadySet(q) \/ TooShort(q) \/ PassChecks(q)
               \/ OpenToWrite(q) \/ WriteSharingViolation(q) \/ WriteAndClose(q)
               \/ WriteFails(q)
        PROVE  IInv'
    BY <2>2, PostNullInv, AlreadySetInv, TooShortInv, PassChecksInv, OpenToWriteInv,
       WriteSharingViolationInv, WriteAndCloseInv, WriteFailsInv
  <2>3. ASSUME NEW q \in Request,
               \/ GetIsSet(q)
               \/ GetCurrent(q) \/ UseDefaultKey(q) \/ FileExists(q)
               \/ OpenToRead(q) \/ ReadSharingViolation(q) \/ ReadAndClose(q)
        PROVE  IInv'
    BY <2>3, GetIsSetInv, GetCurrentInv, UseDefaultKeyInv, FileExistsInv, OpenToReadInv,
       ReadSharingViolationInv, ReadAndCloseInv
  <2>4. CASE Crash
    BY <2>4, CrashInv
  <2>5. CASE UNCHANGED vars
    BY <2>5 DEF vars, IInv, TypeOK, HandlesExclude, PostsAreLong, EmptyIsInProgress,
       FileIsThereToRead, PostsAreAlone, Posting
  <2> QED
    BY <2>1, <2>2, <2>3, <2>4, <2>5 DEF Next
<1> QED
  BY InitInv, <1>1, PTL DEF Spec

-----------------------------------------------------------------------------

(* The key file never holds a key that is too short, and every variable     *)
(* keeps its type (HMACKey.cs 27-42, PhysicalStorage.cs 22-58).             *)
THEOREM TypeCorrect == Spec => []TypeOK
<1>1. IInv => TypeOK
  BY DEF IInv
<1> QED
  BY <1>1, Inductive, PTL

(* What a request reads as the key is a key that was stored in full, unless *)
(* a crash or a failed write tore one (PhysicalStorage.cs 35, 46).          *)
THEOREM WholeReads == Spec => []ReadsAreWhole
<1>1. IInv => ReadsAreWhole
  BY DEF IInv, TypeOK, ReadsAreWhole, HandlesExclude, EmptyIsInProgress, FileIsThereToRead
<1> QED
  BY <1>1, Inductive, PTL

(* What GET /api/hmackey says is what requests work with, when no post is   *)
(* under way and none was torn (HMACKey.cs 27, 29).                         *)
THEOREM SetIsKeyed == Spec => []SetMeansKeyedUnlessTorn
<1>1. IInv => SetMeansKeyedUnlessTorn
  BY DEF IInv, TypeOK, SetMeansKeyedUnlessTorn, SetMeansKeyed, HandlesExclude,
     EmptyIsInProgress, Posting, Exists
<1> QED
  BY <1>1, Inductive, PTL

(* Unless two posts overlapped, a key that was stored stays: no post, no    *)
(* failure and no crash replaces it (HMACKeyController.cs 37).              *)
THEOREM WriteOnce == Spec => WriteOnceUnlessOverlapped
<1>1. ASSUME IInv, [Next]_vars, file \in LongKey, ~overlapped
      PROVE  file' = file
  <2>1. Posting = {}
    BY <1>1 DEF IInv, PostsAreAlone
  <2>2. \A q \in Request : ~OpenToWrite(q) /\ ~WriteAndClose(q)
    BY <2>1 DEF Posting, OpenToWrite, WriteAndClose, Goto
  <2> QED
    BY <1>1, <2>2
    DEF Next, vars, PostKey, PostNull, AlreadySet, TooShort, PassChecks,
        WriteSharingViolation, WriteFails, GetIsSet, GetCurrent, UseDefaultKey,
        FileExists, OpenToRead, ReadSharingViolation, ReadAndClose, Crash, Fail
<1> QED
  BY <1>1, Inductive, PTL DEF Spec, WriteOnceUnlessOverlapped

(* A torn key is for good: as long as the empty file is there, no post that *)
(* starts then passes the check, and nothing but a post changes the file    *)
(* (HMACKey.cs 33, PhysicalStorage.cs 46).                                  *)
THEOREM TornForGood == Spec => TornStaysEmpty
<1>1. ASSUME IInv, [Next]_vars, file = Empty, Posting = {}
      PROVE  file' = Empty /\ Posting' = {}
  <2>1. \A q \in Request : pc[q] \notin {"open", "write"}
    BY <1>1 DEF Posting
  <2>2. Exists
    BY <1>1, KeysAssumption DEF Exists
  <2>3. \A q \in Request : ~PassChecks(q) /\ ~OpenToWrite(q) /\ ~WriteAndClose(q)
    BY <2>1, <2>2 DEF PassChecks, OpenToWrite, WriteAndClose, Goto
  <2>4. pc \in [Request -> PC]
    BY <1>1 DEF IInv, TypeOK
  <2>5. file' = file /\ \A q \in Request : pc'[q] \notin {"open", "write"}
    BY <1>1, <2>1, <2>3, <2>4
    DEF Next, vars, PostKey, PostNull, AlreadySet, TooShort,
        WriteSharingViolation, WriteFails, GetIsSet, GetCurrent, UseDefaultKey,
        FileExists, OpenToRead, ReadSharingViolation, ReadAndClose, Crash, Fail, Goto
  <2> QED
    BY <1>1, <2>5 DEF Posting
<1> QED
  BY <1>1, Inductive, PTL DEF Spec, TornStaysEmpty

-----------------------------------------------------------------------------
(* The key as the rest of the server sees it *)

LEMMA StepRefines ==
  ASSUME IInv, NEW q \in Request,
         \/ PostNull(q) \/ AlreadySet(q) \/ TooShort(q) \/ PassChecks(q)
         \/ OpenToWrite(q) \/ WriteSharingViolation(q) \/ WriteAndClose(q)
         \/ WriteFails(q)
  PROVE  [Store!Next]_(Store!storeVars)
<1> USE DEF IInv, TypeOK, Store!storeVars
<1>1. CASE PostNull(q) \/ AlreadySet(q) \/ TooShort(q)
  BY <1>1 DEF PostNull, AlreadySet, TooShort, Fail, Goto
<1>2. CASE PassChecks(q)
  <2>1. Store!Posting = Posting
    BY DEF Store!Posting, Posting, HandlesExclude
  <2>2. q \notin Posting
    BY <1>2 DEF PassChecks, Goto, Posting
  <2>3. Store!PassChecks(q)
    BY <1>2, <2>1, <2>2 DEF PassChecks, Goto, Exists, Store!PassChecks, Store!IsSet
  <2> QED
    BY <2>3 DEF Store!Next, Store!Step
<1>3. CASE OpenToWrite(q)
  <2>1. Store!Open(q)
    BY <1>3 DEF OpenToWrite, CanOpenToWrite, Goto, Store!Open
  <2> QED
    BY <2>1 DEF Store!Next, Store!Step
<1>4. CASE WriteSharingViolation(q)
  <2>1. Store!OpenFails(q)
    BY <1>4 DEF WriteSharingViolation, Fail, Goto, Store!OpenFails
  <2> QED
    BY <2>1 DEF Store!Next, Store!Step
<1>5. CASE WriteAndClose(q)
  <2>1. Store!Write(q)
    BY <1>5 DEF WriteAndClose, Goto, HandlesExclude, PostsAreLong, Store!Write
  <2> QED
    BY <2>1 DEF Store!Next, Store!Step
<1>6. CASE WriteFails(q)
  <2>1. Store!WriteFails(q)
    BY <1>6 DEF WriteFails, Goto, HandlesExclude, Store!WriteFails
  <2> QED
    BY <2>1 DEF Store!Next, Store!Step
<1> QED
  BY <1>1, <1>2, <1>3, <1>4, <1>5, <1>6

LEMMA ReadRefines ==
  ASSUME IInv, NEW q \in Request,
         \/ \E k \in LongKey \union ShortKey : PostKey(q, k)
         \/ GetIsSet(q)
         \/ GetCurrent(q) \/ UseDefaultKey(q) \/ FileExists(q)
         \/ OpenToRead(q) \/ ReadSharingViolation(q) \/ ReadAndClose(q)
  PROVE  UNCHANGED Store!storeVars
BY DEF IInv, TypeOK, Store!storeVars, PostKey, GetIsSet, GetCurrent, UseDefaultKey, FileExists,
   OpenToRead, ReadSharingViolation, ReadAndClose, Fail, Goto

(* A request is answered with a key by two actions, neither while a post    *)
(* has the file open.                                                       *)
LEMMA KeysAreRead ==
  ASSUME IInv, [Next]_vars, NEW q \in Request, reply'[q].tag = "key", reply'[q] # reply[q]
  PROVE  Store!CanRead(reply'[q].value)
<1> USE KeysAssumption DEF IInv, TypeOK
<1>1. \/ UseDefaultKey(q) /\ reply'[q] = [tag |-> "key", value |-> Empty]
      \/ ReadAndClose(q) /\ reply'[q] = [tag |-> "key", value |-> file]
  <2>1. CASE \E p \in Request : UseDefaultKey(p) \/ ReadAndClose(p)
    BY <2>1 DEF UseDefaultKey, ReadAndClose, Answer
  <2>2. CASE ~ \E p \in Request : UseDefaultKey(p) \/ ReadAndClose(p)
    BY <2>2
    DEF Next, vars, PostKey, PostNull, AlreadySet, TooShort, PassChecks, OpenToWrite,
        WriteSharingViolation, WriteAndClose, WriteFails, GetIsSet, GetCurrent, FileExists,
        OpenToRead, ReadSharingViolation, Crash, Fail, Answer, Error, NoReply
  <2> QED
    BY <2>1, <2>2
<1>2. CASE UseDefaultKey(q)
  BY <1>1, <1>2 DEF UseDefaultKey, ReadAndClose, Goto, Exists, EmptyIsInProgress, Store!CanRead
<1>3. CASE ReadAndClose(q)
  BY <1>1, <1>3 DEF UseDefaultKey, ReadAndClose, Goto, HandlesExclude, FileIsThereToRead, Store!CanRead
<1> QED
  BY <1>1, <1>2, <1>3

(* The key is a KeyStore, whatever requests, failures and crashes do to its *)
(* file, and to read it is one step (HMACKey.cs 10-42, PhysicalStorage.cs   *)
(* 22-58): what RequestPipeline and WebClient take the key to be.           *)
THEOREM KeyStoreRefinement == Spec => ImplementsKeyStore
<1>1. Init => Store!Init
  BY DEF Init, Store!Init
<1>2. IInv /\ [Next]_vars => [Store!Next]_(Store!storeVars)
  <2> SUFFICES ASSUME IInv, [Next]_vars PROVE [Store!Next]_(Store!storeVars)
    OBVIOUS
  <2>1. CASE Crash
    <3>1. Store!Crash
      BY <2>1 DEF Crash, Store!Crash
    <3> QED
      BY <3>1 DEF Store!Next
  <2>2. CASE UNCHANGED vars
    BY <2>2 DEF vars, Store!storeVars
  <2> QED
    BY <2>1, <2>2, StepRefines, ReadRefines DEF Next
<1>3. IInv /\ [Next]_vars
      => \A q \in Request : reply'[q].tag = "key" /\ reply'[q] # reply[q]
                           => Store!CanRead(reply'[q].value)
  BY KeysAreRead
<1> QED
  BY <1>1, <1>2, <1>3, Inductive, PTL DEF Spec, ImplementsKeyStore, Store!Spec

=============================================================================
