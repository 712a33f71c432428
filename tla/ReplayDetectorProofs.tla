------------------------ MODULE ReplayDetectorProofs ------------------------
(***************************************************************************)
(* Proofs about ReplayDetector, for any number of calls, any things and    *)
(* any window.                                                             *)
(*                                                                         *)
(* IInv is inductive: one lemma per operation says that it is preserved.   *)
(***************************************************************************)
EXTENDS ReplayDetector, FiniteSetTheorems, TLAPS

LEMMA InitInv == Init => IInv
<1> SUFFICES ASSUME Init PROVE IInv
  OBVIOUS
<1> USE DEF Init, Counting, Holding, Expired
<1>1. TypeOK
  BY WindowAssumption DEF TypeOK, PC, Answer
<1>2. CountIsExact
  <2>1. \A w \in Wrapper : Counted(w) = {}
    BY DEF Counted
  <2> QED
    BY <2>1, FS_EmptySet DEF CountIsExact
<1>3. WellPlaced /\ LockIsHeld /\ WrappersAreDistinct
  BY NoneAssumption DEF WellPlaced, LockIsHeld, WrappersAreDistinct
<1>4. CountedIsOfficial /\ RemovedIsUncounted /\ TimersRunForWindow
  BY DEF CountedIsOfficial, RemovedIsUncounted, TimersRunForWindow
<1> QED
  BY <1>1, <1>2, <1>3, <1>4 DEF IInv

LEMMA CountedIsFinite == \A w : IsFiniteSet(Counted(w))
BY CallAssumption, FS_Subset DEF Counted

LEMMA IsNewInv ==
  ASSUME IInv, NEW c \in Call, NEW x \in Thing, IsNew(c, x)
  PROVE  IInv'
<1> USE CallAssumption, WindowAssumption, NoneAssumption DEF IInv, IsNew, Goto
<1> USE DEF TypeOK, PC, Answer, Release, TimerPeriod, IsThrough, IsOfficial
<1>1. TypeOK'
  BY DEF WellPlaced
<1>2. WellPlaced'
  BY DEF WellPlaced, Counting, Expired
<1>3. LockIsHeld'
  BY DEF LockIsHeld, WellPlaced, Holding
<1>4. WrappersAreDistinct'
  BY DEF WrappersAreDistinct, WellPlaced
<1>5. \A w \in Wrapper : Counted(w)' = Counted(w)
  BY DEF Counted, Counting, WellPlaced
<1>6. CountIsExact'
  BY <1>5 DEF CountIsExact, WellPlaced
<1>7. CountedIsOfficial'
  BY DEF CountedIsOfficial, IsOfficial, Counting, WellPlaced
<1>8. RemovedIsUncounted'
  BY <1>5 DEF RemovedIsUncounted, WellPlaced
<1>9. TimersRunForWindow'
  BY DEF TimersRunForWindow, WellPlaced, Expired, Counting
<1> QED
  BY <1>1, <1>2, <1>3, <1>4, <1>6, <1>7, <1>8, <1>9

LEMMA GetExistingInv ==
  ASSUME IInv, NEW c \in Call, GetExisting(c)
  PROVE  IInv'
<1> USE CallAssumption, WindowAssumption, NoneAssumption DEF IInv, GetExisting, Goto
<1> USE DEF TypeOK, PC, Answer, Release, TimerPeriod, IsThrough, IsOfficial
<1>1. TypeOK'
  BY DEF WellPlaced
<1>2. WellPlaced'
  BY DEF WellPlaced, Counting, Expired
<1>3. LockIsHeld'
  BY DEF LockIsHeld, WellPlaced, Holding
<1>4. WrappersAreDistinct'
  BY DEF WrappersAreDistinct, WellPlaced
<1>5. \A w \in Wrapper : Counted(w)' = Counted(w)
  BY DEF Counted, Counting, WellPlaced
<1>6. CountIsExact'
  BY <1>5 DEF CountIsExact, WellPlaced
<1>7. CountedIsOfficial'
  BY DEF CountedIsOfficial, IsOfficial, Counting, WellPlaced
<1>8. RemovedIsUncounted'
  BY <1>5 DEF RemovedIsUncounted, WellPlaced
<1>9. TimersRunForWindow'
  BY DEF TimersRunForWindow, WellPlaced, Expired, Counting
<1> QED
  BY <1>1, <1>2, <1>3, <1>4, <1>6, <1>7, <1>8, <1>9

LEMMA AddNewInv ==
  ASSUME IInv, NEW c \in Call, AddNew(c)
  PROVE  IInv'
<1> USE CallAssumption, WindowAssumption, NoneAssumption DEF IInv, AddNew, Goto
<1> USE DEF TypeOK, PC, Answer, Release, TimerPeriod, IsThrough, IsOfficial
<1>1. TypeOK'
  BY DEF WellPlaced, Fresh
<1>2. WellPlaced'
  BY DEF WellPlaced, Counting, Expired, Fresh
<1>3. LockIsHeld'
  BY DEF LockIsHeld, WellPlaced, Holding, Fresh
<1>4. WrappersAreDistinct'
  BY DEF WrappersAreDistinct, WellPlaced, Fresh
<1>5. \A w \in Wrapper : Counted(w)' = Counted(w)
  BY DEF Counted, Counting, WellPlaced, Fresh
<1>6. CountIsExact'
  <2>1. PICK w \in Fresh : value' = [value EXCEPT ![w] = 0]
    OBVIOUS
  <2>2. w \in Wrapper /\ Counted(w) = {}
    BY <2>1 DEF Fresh, Counted
  <2> QED
    BY <1>5, <2>1, <2>2, FS_EmptySet DEF CountIsExact
<1>7. CountedIsOfficial'
  BY DEF CountedIsOfficial, IsOfficial, Counting, WellPlaced, Fresh
<1>8. RemovedIsUncounted'
  BY <1>5 DEF RemovedIsUncounted, WellPlaced, Fresh
<1>9. TimersRunForWindow'
  BY DEF TimersRunForWindow, WellPlaced, Expired, Counting, Fresh
<1> QED
  BY <1>1, <1>2, <1>3, <1>4, <1>6, <1>7, <1>8, <1>9

LEMMA LockInv ==
  ASSUME IInv, NEW c \in Call, Lock(c)
  PROVE  IInv'
<1> USE CallAssumption, WindowAssumption, NoneAssumption DEF IInv, Lock, Goto
<1> USE DEF TypeOK, PC, Answer, Release, TimerPeriod, IsThrough, IsOfficial
<1>1. TypeOK'
  BY DEF WellPlaced
<1>2. WellPlaced'
  BY DEF WellPlaced, Counting, Expired
<1>3. LockIsHeld'
  BY DEF LockIsHeld, WellPlaced, Holding
<1>4. WrappersAreDistinct'
  BY DEF WrappersAreDistinct, WellPlaced
<1>5. \A w \in Wrapper : Counted(w)' = Counted(w)
  BY DEF Counted, Counting, WellPlaced
<1>6. CountIsExact'
  BY <1>5 DEF CountIsExact, WellPlaced
<1>7. CountedIsOfficial'
  BY DEF CountedIsOfficial, IsOfficial, Counting, WellPlaced
<1>8. RemovedIsUncounted'
  BY <1>5 DEF RemovedIsUncounted, WellPlaced
<1>9. TimersRunForWindow'
  BY DEF TimersRunForWindow, WellPlaced, Expired, Counting
<1> QED
  BY <1>1, <1>2, <1>3, <1>4, <1>6, <1>7, <1>8, <1>9

LEMMA CheckPassesInv ==
  ASSUME IInv, NEW c \in Call, CheckPasses(c)
  PROVE  IInv'
<1> USE CallAssumption, WindowAssumption, NoneAssumption DEF IInv, CheckPasses, Goto
<1> USE DEF TypeOK, PC, Answer, Release, TimerPeriod, IsThrough, IsOfficial
<1>1. TypeOK'
  BY DEF WellPlaced
<1>2. WellPlaced'
  BY DEF WellPlaced, Counting, Expired
<1>3. LockIsHeld'
  BY DEF LockIsHeld, WellPlaced, Holding
<1>4. WrappersAreDistinct'
  BY DEF WrappersAreDistinct, WellPlaced
<1>5. \A w \in Wrapper : Counted(w)' = Counted(w)
  BY DEF Counted, Counting, WellPlaced
<1>6. CountIsExact'
  BY <1>5 DEF CountIsExact, WellPlaced
<1>7. CountedIsOfficial'
  BY DEF CountedIsOfficial, IsOfficial, Counting, WellPlaced
<1>8. RemovedIsUncounted'
  BY <1>5 DEF RemovedIsUncounted, WellPlaced
<1>9. TimersRunForWindow'
  BY DEF TimersRunForWindow, WellPlaced, Expired, Counting
<1> QED
  BY <1>1, <1>2, <1>3, <1>4, <1>6, <1>7, <1>8, <1>9

LEMMA TryAgainInv ==
  ASSUME IInv, NEW c \in Call, TryAgain(c)
  PROVE  IInv'
<1> USE CallAssumption, WindowAssumption, NoneAssumption DEF IInv, TryAgain, Goto
<1> USE DEF TypeOK, PC, Answer, Release, TimerPeriod, IsThrough, IsOfficial
<1>1. TypeOK'
  BY DEF WellPlaced
<1>2. WellPlaced'
  BY DEF WellPlaced, Counting, Expired
<1>3. LockIsHeld'
  BY DEF LockIsHeld, WellPlaced, Holding
<1>4. WrappersAreDistinct'
  BY DEF WrappersAreDistinct, WellPlaced
<1>5. \A w \in Wrapper : Counted(w)' = Counted(w)
  BY DEF Counted, Counting, WellPlaced
<1>6. CountIsExact'
  BY <1>5 DEF CountIsExact, WellPlaced
<1>7. CountedIsOfficial'
  BY DEF CountedIsOfficial, IsOfficial, Counting, WellPlaced
<1>8. RemovedIsUncounted'
  BY <1>5 DEF RemovedIsUncounted, WellPlaced
<1>9. TimersRunForWindow'
  BY DEF TimersRunForWindow, WellPlaced, Expired, Counting
<1> QED
  BY <1>1, <1>2, <1>3, <1>4, <1>6, <1>7, <1>8, <1>9

LEMMA IncrementInv ==
  ASSUME IInv, NEW c \in Call, Increment(c)
  PROVE  IInv'
<1> USE CallAssumption, WindowAssumption, NoneAssumption DEF IInv, Increment, Goto
<1> USE DEF TypeOK, PC, Answer, Release, TimerPeriod, IsThrough, IsOfficial
<1>1. TypeOK'
  BY DEF WellPlaced
<1>2. WellPlaced'
  BY DEF WellPlaced, Counting, Expired
<1>3. LockIsHeld'
  BY DEF LockIsHeld, WellPlaced, Holding
<1>4. WrappersAreDistinct'
  BY DEF WrappersAreDistinct, WellPlaced
<1>5. \A w \in Wrapper : Counted(w)' = IF w = wrap[c] THEN Counted(w) \union {c} ELSE Counted(w)
  BY DEF Counted, Counting, WellPlaced
<1>6. CountIsExact'
  <2>1. wrap[c] \in Wrapper /\ c \notin Counted(wrap[c])
    BY DEF WellPlaced, Counted, Counting
  <2>2. Cardinality(Counted(wrap[c]) \union {c}) = Cardinality(Counted(wrap[c])) + 1
    BY <2>1, CountedIsFinite, FS_AddElement
  <2> QED
    BY <1>5, <2>1, <2>2 DEF CountIsExact
<1>7. CountedIsOfficial'
  BY DEF CountedIsOfficial, IsOfficial, Counting, WellPlaced
<1>8. RemovedIsUncounted'
  BY <1>5 DEF RemovedIsUncounted, WellPlaced, LockIsHeld, Holding
<1>9. TimersRunForWindow'
  BY DEF TimersRunForWindow, WellPlaced, Expired, Counting
<1> QED
  BY <1>1, <1>2, <1>3, <1>4, <1>6, <1>7, <1>8, <1>9

LEMMA SubscribeInv ==
  ASSUME IInv, NEW c \in Call, Subscribe(c)
  PROVE  IInv'
<1> USE CallAssumption, WindowAssumption, NoneAssumption DEF IInv, Subscribe, Goto
<1> USE DEF TypeOK, PC, Answer, Release, TimerPeriod, IsThrough, IsOfficial
<1>1. TypeOK'
  BY DEF WellPlaced
<1>2. WellPlaced'
  BY DEF WellPlaced, Counting, Expired
<1>3. LockIsHeld'
  BY DEF LockIsHeld, WellPlaced, Holding
<1>4. WrappersAreDistinct'
  BY DEF WrappersAreDistinct, WellPlaced
<1>5. \A w \in Wrapper : Counted(w)' = Counted(w)
  BY DEF Counted, Counting, WellPlaced
<1>6. CountIsExact'
  BY <1>5 DEF CountIsExact, WellPlaced
<1>7. CountedIsOfficial'
  BY DEF CountedIsOfficial, IsOfficial, Counting, WellPlaced
<1>8. RemovedIsUncounted'
  BY <1>5 DEF RemovedIsUncounted, WellPlaced
<1>9. TimersRunForWindow'
  BY DEF TimersRunForWindow, WellPlaced, Expired, Counting
<1> QED
  BY <1>1, <1>2, <1>3, <1>4, <1>6, <1>7, <1>8, <1>9

LEMMA UnlockInv ==
  ASSUME IInv, NEW c \in Call, Unlock(c)
  PROVE  IInv'
<1> USE CallAssumption, WindowAssumption, NoneAssumption DEF IInv, Unlock, Goto
<1> USE DEF TypeOK, PC, Answer, Release, TimerPeriod, IsThrough, IsOfficial
<1>1. TypeOK'
  BY DEF WellPlaced
<1>2. WellPlaced'
  BY DEF WellPlaced, Counting, Expired
<1>3. LockIsHeld'
  BY DEF LockIsHeld, WellPlaced, Holding
<1>4. WrappersAreDistinct'
  BY DEF WrappersAreDistinct, WellPlaced
<1>5. \A w \in Wrapper : Counted(w)' = Counted(w)
  BY DEF Counted, Counting, WellPlaced
<1>6. CountIsExact'
  BY <1>5 DEF CountIsExact, WellPlaced
<1>7. CountedIsOfficial'
  BY DEF CountedIsOfficial, IsOfficial, Counting, WellPlaced
<1>8. RemovedIsUncounted'
  BY <1>5 DEF RemovedIsUncounted, WellPlaced
<1>9. TimersRunForWindow'
  BY DEF TimersRunForWindow, WellPlaced, Expired, Counting
<1> QED
  BY <1>1, <1>2, <1>3, <1>4, <1>6, <1>7, <1>8, <1>9

LEMMA ExpireInv ==
  ASSUME IInv, NEW c \in Call, Expire(c)
  PROVE  IInv'
<1> USE CallAssumption, WindowAssumption, NoneAssumption DEF IInv, Expire, Goto
<1> USE DEF TypeOK, PC, Answer, Release, TimerPeriod, IsThrough, IsOfficial
<1>1. TypeOK'
  BY DEF WellPlaced
<1>2. WellPlaced'
  BY DEF WellPlaced, Counting, Expired
<1>3. LockIsHeld'
  BY DEF LockIsHeld, WellPlaced, Holding
<1>4. WrappersAreDistinct'
  BY DEF WrappersAreDistinct, WellPlaced
<1>5. \A w \in Wrapper : Counted(w)' = Counted(w)
  BY DEF Counted, Counting, WellPlaced
<1>6. CountIsExact'
  BY <1>5 DEF CountIsExact, WellPlaced
<1>7. CountedIsOfficial'
  BY DEF CountedIsOfficial, IsOfficial, Counting, WellPlaced
<1>8. RemovedIsUncounted'
  BY <1>5 DEF RemovedIsUncounted, WellPlaced
<1>9. TimersRunForWindow'
  <2>1. age[c] = Window
    BY DEF TimersRunForWindow
  <2> QED
    BY <2>1 DEF TimersRunForWindow, Expired
<1> QED
  BY <1>1, <1>2, <1>3, <1>4, <1>6, <1>7, <1>8, <1>9

LEMMA DecrementAndLeaveInv ==
  ASSUME IInv, NEW c \in Call, DecrementAndLeave(c)
  PROVE  IInv'
<1> USE CallAssumption, WindowAssumption, NoneAssumption DEF IInv, DecrementAndLeave, Goto
<1> USE DEF TypeOK, PC, Answer, Release, TimerPeriod, IsThrough, IsOfficial
<1>1. TypeOK'
  BY DEF WellPlaced
<1>2. WellPlaced'
  BY DEF WellPlaced, Counting, Expired
<1>3. LockIsHeld'
  BY DEF LockIsHeld, WellPlaced, Holding
<1>4. WrappersAreDistinct'
  BY DEF WrappersAreDistinct, WellPlaced
<1>5. \A w \in Wrapper : Counted(w)' = IF w = wrap[c] THEN Counted(w) \ {c} ELSE Counted(w)
  BY DEF Counted, Counting, WellPlaced
<1>6. CountIsExact'
  <2>1. wrap[c] \in Wrapper /\ c \in Counted(wrap[c])
    BY DEF WellPlaced, Counted, Counting
  <2>2. Cardinality(Counted(wrap[c]) \ {c}) = Cardinality(Counted(wrap[c])) - 1
    BY <2>1, CountedIsFinite, FS_RemoveElement
  <2> QED
    BY <1>5, <2>1, <2>2 DEF CountIsExact
<1>7. CountedIsOfficial'
  BY DEF CountedIsOfficial, IsOfficial, Counting, WellPlaced
<1>8. RemovedIsUncounted'
  BY <1>5 DEF RemovedIsUncounted, WellPlaced
<1>9. TimersRunForWindow'
  BY DEF TimersRunForWindow, WellPlaced, Expired, Counting
<1> QED
  BY <1>1, <1>2, <1>3, <1>4, <1>6, <1>7, <1>8, <1>9

LEMMA DecrementToZeroInv ==
  ASSUME IInv, NEW c \in Call, DecrementToZero(c)
  PROVE  IInv'
<1> USE CallAssumption, WindowAssumption, NoneAssumption DEF IInv, DecrementToZero, Goto
<1> USE DEF TypeOK, PC, Answer, Release, TimerPeriod, IsThrough, IsOfficial
<1>1. TypeOK'
  BY DEF WellPlaced
<1>2. WellPlaced'
  BY DEF WellPlaced, Counting, Expired
<1>3. LockIsHeld'
  BY DEF LockIsHeld, WellPlaced, Holding
<1>4. WrappersAreDistinct'
  BY DEF WrappersAreDistinct, WellPlaced
<1>5. \A w \in Wrapper : Counted(w)' = IF w = wrap[c] THEN Counted(w) \ {c} ELSE Counted(w)
  BY DEF Counted, Counting, WellPlaced
<1>6. CountIsExact'
  <2>1. wrap[c] \in Wrapper /\ c \in Counted(wrap[c])
    BY DEF WellPlaced, Counted, Counting
  <2>2. Cardinality(Counted(wrap[c]) \ {c}) = Cardinality(Counted(wrap[c])) - 1
    BY <2>1, CountedIsFinite, FS_RemoveElement
  <2> QED
    BY <1>5, <2>1, <2>2 DEF CountIsExact
<1>7. CountedIsOfficial'
  BY DEF CountedIsOfficial, IsOfficial, Counting, WellPlaced
<1>8. RemovedIsUncounted'
  <2>1. wrap[c] \in Wrapper /\ wrap' = wrap
    BY DEF WellPlaced
  <2>2. Cardinality(Counted(wrap[c])') <= 0
    BY <1>6, <2>1 DEF CountIsExact
  <2>3. IsFiniteSet(Counted(wrap[c])')
    BY <1>5, <2>1, CountedIsFinite, FS_Subset
  <2>4. Counted(wrap[c])' = {}
    BY <2>2, <2>3, FS_EmptySet, FS_CardinalityType
  <2>5. ASSUME NEW d \in Call, d # c, pc[d] = "remove"
        PROVE  Counted(wrap[d])' = {}
    BY <1>5, <2>5 DEF RemovedIsUncounted, WellPlaced
  <2> QED
    BY <2>1, <2>4, <2>5 DEF RemovedIsUncounted
<1>9. TimersRunForWindow'
  BY DEF TimersRunForWindow, WellPlaced, Expired, Counting
<1> QED
  BY <1>1, <1>2, <1>3, <1>4, <1>6, <1>7, <1>8, <1>9

LEMMA TryRemoveInv ==
  ASSUME IInv, NEW c \in Call, TryRemove(c)
  PROVE  IInv'
<1> USE CallAssumption, WindowAssumption, NoneAssumption DEF IInv, TryRemove, Goto
<1> USE DEF TypeOK, PC, Answer, Release, TimerPeriod, IsThrough, IsOfficial
<1>1. TypeOK'
  BY DEF WellPlaced
<1>2. WellPlaced'
  BY DEF WellPlaced, Counting, Expired
<1>3. LockIsHeld'
  BY DEF LockIsHeld, WellPlaced, Holding
<1>4. WrappersAreDistinct'
  BY DEF WrappersAreDistinct, WellPlaced
<1>5. \A w \in Wrapper : Counted(w)' = Counted(w)
  BY DEF Counted, Counting, WellPlaced
<1>6. CountIsExact'
  BY <1>5 DEF CountIsExact, WellPlaced
<1>7. CountedIsOfficial'
  <2>1. ASSUME NEW d \in Call, d # c, pc[d] \in Counting \union {"increment", "remove"}
        PROVE  thing[d] # thing[c]
    <3> SUFFICES ASSUME thing[d] = thing[c] PROVE FALSE
      OBVIOUS
    <3>1. wrap[d] = wrap[c] /\ wrap[c] \in Wrapper
      BY <2>1 DEF CountedIsOfficial, IsOfficial, WellPlaced
    <3>2. pc[d] \notin Holding
      BY <2>1, <3>1 DEF LockIsHeld, Holding
    <3>3. d \in Counted(wrap[c])
      BY <2>1, <3>1, <3>2 DEF Counted, Counting, Holding
    <3> QED
      BY <3>3 DEF RemovedIsUncounted
  <2> QED
    BY <2>1 DEF CountedIsOfficial, IsOfficial, Counting, WellPlaced
<1>8. RemovedIsUncounted'
  BY <1>5 DEF RemovedIsUncounted, WellPlaced
<1>9. TimersRunForWindow'
  BY DEF TimersRunForWindow, WellPlaced, Expired, Counting
<1> QED
  BY <1>1, <1>2, <1>3, <1>4, <1>6, <1>7, <1>8, <1>9

LEMMA TickInv ==
  ASSUME IInv, Tick
  PROVE  IInv'
<1> USE CallAssumption, WindowAssumption, NoneAssumption DEF IInv, Tick
<1> USE DEF TypeOK, PC, Answer, Release, TimerPeriod, IsThrough, IsOfficial
<1>1. TypeOK'
  BY DEF WellPlaced
<1>2. WellPlaced'
  BY DEF WellPlaced, Counting, Expired
<1>3. LockIsHeld'
  BY DEF LockIsHeld, WellPlaced, Holding
<1>4. WrappersAreDistinct'
  BY DEF WrappersAreDistinct, WellPlaced
<1>5. \A w \in Wrapper : Counted(w)' = Counted(w)
  BY DEF Counted, Counting, WellPlaced
<1>6. CountIsExact'
  BY <1>5 DEF CountIsExact, WellPlaced
<1>7. CountedIsOfficial'
  BY DEF CountedIsOfficial, IsOfficial, Counting, WellPlaced
<1>8. RemovedIsUncounted'
  BY <1>5 DEF RemovedIsUncounted, WellPlaced
<1>9. TimersRunForWindow'
  BY DEF TimersRunForWindow, WellPlaced, Expired, Counting
<1> QED
  BY <1>1, <1>2, <1>3, <1>4, <1>6, <1>7, <1>8, <1>9

(* Counts are exact, who counts does so on the dictionary's wrapper, and    *)
(* timers run for the whole window (ReplayDetector.cs 43-91).               *)
THEOREM Inductive == Spec => []IInv
<1>1. IInv /\ [Next]_vars => IInv'
  <2> SUFFICES ASSUME IInv, [Next]_vars PROVE IInv'
    OBVIOUS
  <2>1. ASSUME NEW c \in Call, NEW x \in Thing, IsNew(c, x) PROVE IInv'
    BY <2>1, IsNewInv
  <2>2. ASSUME NEW c \in Call, Caller(c) PROVE IInv'
    BY <2>2, GetExistingInv, AddNewInv, LockInv, CheckPassesInv, TryAgainInv,
       IncrementInv, SubscribeInv, UnlockInv DEF Caller
  <2>3. ASSUME NEW c \in Call, Callback(c) PROVE IInv'
    BY <2>3, ExpireInv, DecrementAndLeaveInv, DecrementToZeroInv, TryRemoveInv DEF Callback
  <2>4. CASE Tick
    BY <2>4, TickInv
  <2>5. CASE UNCHANGED vars
    BY <2>5 DEF vars, IInv, TypeOK, WellPlaced, LockIsHeld, WrappersAreDistinct,
       CountIsExact, Counted, CountedIsOfficial, IsOfficial, RemovedIsUncounted,
       TimersRunForWindow
  <2> QED
    BY <2>1, <2>2, <2>3, <2>4, <2>5 DEF Next
<1> QED
  BY InitInv, <1>1, PTL DEF Spec

-----------------------------------------------------------------------------

(* Every variable keeps its type under every step of IsNew and of the timer *)
(* callback (ReplayDetector.cs 43-91).                                      *)
THEOREM TypeCorrect == Spec => []TypeOK
<1>1. IInv => TypeOK
  BY DEF IInv
<1> QED
  BY <1>1, Inductive, PTL

(* A call that will take the entry of x out, or leave it to another. *)
Owes(c, x) == thing[c] = x /\ wrap[c] = counts[x] /\ pc[c] # "done"

(* The dictionary does not leak: an entry is there only for a call that has *)
(* its wrapper and will remove it, or leave it to another that is counted   *)
(* (ReplayDetector.cs 75-79).                                               *)
THEOREM NoLeak == Spec => []EntriesAreOwed
<1>1. Init => EntriesAreOwed
  BY DEF Init, EntriesAreOwed
<1>2. IInv /\ EntriesAreOwed /\ [Next]_vars => EntriesAreOwed'
  <2> SUFFICES ASSUME IInv, EntriesAreOwed, [Next]_vars, NEW x \in Thing, counts'[x] # None
               PROVE  \E d \in Call : Owes(d, x)'
    BY DEF EntriesAreOwed, Owes
  <2> USE NoneAssumption DEF IInv, TypeOK, Goto, Owes
  <2>1. ASSUME NEW c \in Call, AddNew(c)
        PROVE  \E d \in Call : Owes(d, x)'
    <3>1. CASE x = thing[c]
      BY <2>1, <3>1 DEF AddNew, WellPlaced
    <3>2. CASE x # thing[c]
      <4>1. counts[x] = counts'[x]
        BY <2>1, <3>2 DEF AddNew
      <4>2. PICK d \in Call : Owes(d, x)
        BY <4>1 DEF EntriesAreOwed
      <4> QED
        BY <2>1, <3>2, <4>1, <4>2 DEF AddNew
    <3> QED
      BY <3>1, <3>2
  <2>2. ASSUME NEW c \in Call, TryRemove(c)
        PROVE  \E d \in Call : Owes(d, x)'
    <3>1. x # thing[c] /\ counts[x] = counts'[x]
      BY <2>2 DEF TryRemove, WellPlaced
    <3>2. PICK d \in Call : Owes(d, x)
      BY <3>1 DEF EntriesAreOwed
    <3> QED
      BY <2>2, <3>1, <3>2 DEF TryRemove
  <2>3. ASSUME NEW c \in Call, DecrementAndLeave(c)
        PROVE  \E d \in Call : Owes(d, x)'
    <3>1. PICK d \in Call : Owes(d, x) /\ counts[x] = counts'[x]
      BY <2>3 DEF EntriesAreOwed, DecrementAndLeave
    <3>2. CASE d # c
      BY <2>3, <3>1, <3>2 DEF DecrementAndLeave
    <3>3. CASE d = c
      <4>1. wrap[c] \in Wrapper /\ c \in Counted(wrap[c])
        BY <2>3 DEF DecrementAndLeave, WellPlaced, Counted, Counting
      <4>2. value[wrap[c]] = Cardinality(Counted(wrap[c])) /\ value[wrap[c]] \in Nat
        BY <4>1, CountedIsFinite, FS_CardinalityType DEF CountIsExact
      <4>3. value[wrap[c]] > 1
        BY <2>3, <4>2 DEF DecrementAndLeave, IsThrough
      <4>4. PICK e \in Counted(wrap[c]) : e # c
        <5>1. Counted(wrap[c]) # {c}
          <6> HIDE DEF IInv, TypeOK
          <6> SUFFICES ASSUME Counted(wrap[c]) = {c} PROVE FALSE
            OBVIOUS
          <6>1. Cardinality(Counted(wrap[c])) = 1
            BY FS_Singleton
          <6> QED
            BY ONLY <4>2, <4>3, <6>1
        <5> QED
          BY <4>1, <5>1
      <4>5. e \in Call /\ pc[e] \in Counting /\ wrap[e] = wrap[c] /\ pc[e] # "done"
        BY <4>4 DEF Counted, Counting
      <4>6. thing[e] = x
        BY <3>1, <3>3, <4>5, <4>1 DEF WrappersAreDistinct
      <4> QED
        BY <2>3, <3>1, <3>3, <4>4, <4>5, <4>6 DEF DecrementAndLeave
    <3> QED
      BY <3>2, <3>3
  <2>4. ASSUME NEW c \in Call, GetExisting(c) \/ TryAgain(c)
        PROVE  \E d \in Call : Owes(d, x)'
    <3>1. PICK d \in Call : Owes(d, x) /\ counts[x] = counts'[x]
      BY <2>4 DEF EntriesAreOwed, GetExisting, TryAgain
    <3>2. d # c
      BY <2>4, <3>1 DEF GetExisting, TryAgain, IsOfficial, WellPlaced
    <3> QED
      BY <2>4, <3>1, <3>2 DEF GetExisting, TryAgain
  <2>5. ASSUME NEW c \in Call, NEW y \in Thing, IsNew(c, y)
        PROVE  \E d \in Call : Owes(d, x)'
    <3>1. PICK d \in Call : Owes(d, x) /\ counts[x] = counts'[x]
      BY <2>5 DEF EntriesAreOwed, IsNew
    <3>2. d # c
      BY <2>5, <3>1 DEF IsNew, WellPlaced
    <3> QED
      BY <2>5, <3>1, <3>2 DEF IsNew
  <2>6. ASSUME NEW c \in Call, Lock(c) \/ CheckPasses(c) \/ Increment(c) \/ Subscribe(c) \/ Unlock(c)
                               \/ Expire(c) \/ DecrementToZero(c)
        PROVE  \E d \in Call : Owes(d, x)'
    <3>1. UNCHANGED <<counts, thing, wrap>> /\ \A d \in Call : pc[d] # "done" => pc'[d] # "done"
      BY <2>6 DEF Lock, CheckPasses, Increment, Subscribe, Unlock, Expire, DecrementToZero
    <3> QED
      BY <3>1 DEF EntriesAreOwed
  <2>7. CASE Tick \/ UNCHANGED vars
    BY <2>7 DEF EntriesAreOwed, Tick, vars
  <2> QED
    BY <2>1, <2>2, <2>3, <2>4, <2>5, <2>6, <2>7 DEF Next, Caller, Callback
<1> QED
  BY <1>1, <1>2, Inductive, PTL DEF Spec

(* A call that was answered less than a window ago is still counted, in the *)
(* wrapper that the dictionary holds for its thing.                         *)
LEMMA YoungIsCounted ==
  ASSUME IInv, NEW d \in Call, answer[d] # "none", age[d] < Window
  PROVE  /\ pc[d] \in Counting
         /\ counts[thing[d]] = wrap[d]
<1> USE DEF IInv
<1>1. pc[d] \in Counting
  BY WindowAssumption DEF TypeOK, WellPlaced, TimersRunForWindow, Expired
<1> QED
  BY <1>1 DEF CountedIsOfficial, IsOfficial

(* Two calls about one thing are never both answered "new" within a window: *)
(* the promise of IsNew's summary (ReplayDetector.cs 38), for any number of *)
(* threads, in any interleaving with the expiring timers.                   *)
THEOREM NoTwoNew == Spec => []NoTwoNewInWindow
<1>1. Init => NoTwoNewInWindow
  BY DEF Init, NoTwoNewInWindow
<1>2. IInv /\ NoTwoNewInWindow /\ [Next]_vars => NoTwoNewInWindow'
  <2> SUFFICES ASSUME IInv, NoTwoNewInWindow, [Next]_vars
               PROVE  NoTwoNewInWindow'
    OBVIOUS
  <2> USE DEF NoTwoNewInWindow
  <2>1. ASSUME NEW c \in Call, Increment(c) PROVE NoTwoNewInWindow'
    <3>1. ASSUME NEW d \in Call, d # c, thing[d] = thing[c], answer[d] = "new",
                 answer'[c] = "new"
          PROVE  age'[d] = Window
      <4> USE WindowAssumption DEF IInv, TypeOK
      <4>1. wrap[c] \in Wrapper /\ counts[thing[c]] = wrap[c] /\ value[wrap[c]] = 0
        BY <2>1, <3>1 DEF Increment, Goto, WellPlaced, CountedIsOfficial, IsOfficial
      <4>2. Counted(wrap[c]) = {}
        BY <4>1, CountedIsFinite, FS_EmptySet DEF CountIsExact
      <4>3. ~(age[d] < Window)
        BY <3>1, <4>1, <4>2, YoungIsCounted DEF Counted
      <4> QED
        BY <2>1, <3>1, <4>3 DEF Increment
    <3> QED
      BY <2>1, <3>1 DEF Increment, IInv, TypeOK
  <2>2. ASSUME NEW c \in Call, NEW x \in Thing, IsNew(c, x) PROVE NoTwoNewInWindow'
    BY <2>2 DEF IsNew, Goto, IInv, TypeOK, WellPlaced, Counting, Expired
  <2>3. CASE Tick
    BY <2>3, WindowAssumption DEF Tick, IInv, TypeOK
  <2>4. CASE UNCHANGED <<thing, answer, age>>
    BY <2>4
  <2> QED
    BY <2>1, <2>2, <2>3, <2>4
    DEF Next, vars, Caller, Callback, GetExisting, AddNew, Lock, CheckPasses, TryAgain,
        Subscribe, Unlock, Expire, DecrementAndLeave, DecrementToZero, TryRemove
<1> QED
  BY Inductive, <1>1, <1>2, PTL DEF Spec

-----------------------------------------------------------------------------

(* The detector implements the sliding window it promises: IsNew sees its   *)
(* thing where it increments the count (ReplayDetector.cs 64) and the timer *)
(* forgets it where it decrements the count (line 75).                      *)
THEOREM Refinement == Spec => ImplementsSlidingWindow
<1>1. Init => Abstract!Init
  BY DEF Init, Abstract!Init, Counting
<1>2. IInv /\ [Next]_vars => [Abstract!Next]_(Abstract!vars)
  <2> SUFFICES ASSUME IInv, [Next]_vars PROVE [Abstract!Next]_(Abstract!vars)
    OBVIOUS
  <2> USE DEF IInv, TypeOK, Goto
  <2>1. ASSUME NEW c \in Call, NEW x \in Thing, x = thing[c], Increment(c)
        PROVE  Abstract!See(c, x)
    <3>1. Abstract!Remembered(x) <=> value[wrap[c]] # 0
      <4>1. wrap[c] \in Wrapper /\ counts[thing[c]] = wrap[c]
        BY <2>1 DEF Increment, WellPlaced, CountedIsOfficial, IsOfficial
      <4>2. value[wrap[c]] = 0 <=> Counted(wrap[c]) = {}
        BY <4>1, CountedIsFinite, FS_EmptySet DEF CountIsExact
      <4>3. ASSUME NEW d \in Call, pc[d] \in Counting
            PROVE  wrap[d] = wrap[c] <=> thing[d] = thing[c]
        <5>1. counts[thing[d]] = wrap[d]
          BY <4>3 DEF CountedIsOfficial, IsOfficial
        <5>2. wrap[c] # None
          BY <4>1, NoneAssumption
        <5> QED
          BY <4>1, <5>1, <5>2 DEF WrappersAreDistinct
      <4> QED
        BY <2>1, <4>2, <4>3 DEF Abstract!Remembered, Counted, WellPlaced
    <3> QED
      BY <2>1, <3>1 DEF Increment, Abstract!See, WellPlaced, Counting, Expired
  <2>2. ASSUME NEW c \in Call, DecrementAndLeave(c) \/ DecrementToZero(c)
        PROVE  Abstract!Forget(c)
    BY <2>2 DEF DecrementAndLeave, DecrementToZero, Abstract!Forget, Counting, Expired,
                TimersRunForWindow
  <2>3. ASSUME Tick PROVE Abstract!Tick
    <3>1. \A c \in Call : answer[c] # "none" => thing[c] # None
      BY NoneAssumption DEF WellPlaced, Counting, Expired
    <3> QED
      BY <2>3, <3>1 DEF Tick, Abstract!Tick
  <2>4. ASSUME NEW c \in Call, NEW x \in Thing, IsNew(c, x)
        PROVE  UNCHANGED Abstract!vars
    BY <2>4 DEF Abstract!vars, IsNew, WellPlaced, Counting, Expired
  <2>5. ASSUME NEW c \in Call,
               \/ GetExisting(c) \/ AddNew(c) \/ Lock(c)
               \/ CheckPasses(c) \/ TryAgain(c)
               \/ Subscribe(c) \/ Unlock(c)
               \/ Expire(c) \/ TryRemove(c)
        PROVE  UNCHANGED Abstract!vars
    BY <2>5 DEF GetExisting, AddNew, Lock, CheckPasses, TryAgain, Subscribe, Unlock,
                Expire, TryRemove, Counting, Abstract!vars
  <2>6. ASSUME UNCHANGED vars PROVE UNCHANGED Abstract!vars
    BY <2>6 DEF vars, Abstract!vars
  <2>7. ASSUME NEW c \in Call, Increment(c) PROVE thing[c] \in Thing
    BY <2>7 DEF Increment, WellPlaced
  <2>8. ASSUME NEW c \in Call, Caller(c) \/ Callback(c)
        PROVE  Abstract!Next \/ UNCHANGED Abstract!vars
    <3>1. CASE Increment(c)
      <4>1. PICK x \in Thing : x = thing[c]
        BY <2>7, <3>1
      <4> QED
        BY <2>1, <3>1, <4>1 DEF Abstract!Next
    <3>2. CASE DecrementAndLeave(c) \/ DecrementToZero(c)
      BY <2>2, <3>2 DEF Abstract!Next
    <3> QED
      BY <2>5, <2>8, <3>1, <3>2 DEF Caller, Callback
  <2> QED
    BY <2>3, <2>4, <2>6, <2>8 DEF Next, Abstract!Next
<1> QED
  BY Inductive, <1>1, <1>2, PTL DEF Spec, ImplementsSlidingWindow, Abstract!Spec

=============================================================================
