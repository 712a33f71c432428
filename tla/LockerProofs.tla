----------------------------- MODULE LockerProofs -----------------------------
(***************************************************************************)
(* Proofs about Locker, for any number of calls, keys and rings: it is     *)
(* right for as long as no ring was emptied under a call that had yet to   *)
(* look at it, and its hats are never lost, raced or not.                  *)
(***************************************************************************)
EXTENDS Locker, Induction, FiniteSetTheorems, TLAPS

LEMMA InitInv == Init => IInv
<1> SUFFICES ASSUME Init PROVE IInv
  OBVIOUS
<1> USE DEF Init
<1>1. TypeOK
  BY DEF TypeOK, PC, Outcome
<1>2. HatsAreCounted
  <2>1. \A r \in Ring : Inside(r) = {}
    BY DEF Inside
  <2> QED
    BY <2>1, FS_EmptySet DEF HatsAreCounted
<1>3. WellPlaced /\ WellNested /\ LockIsHeld
  BY DEF WellPlaced, WellNested, LockIsHeld, UsingRing
<1>4. RingIsOfKey /\ RingsAreDistinct /\ UnusedIsUnused /\ LastIsAlone /\ RingIsThere
  BY DEF RingIsOfKey, RingsAreDistinct, UnusedIsUnused, LastIsAlone, RingIsThere
<1> QED
  BY <1>1, <1>2, <1>3, <1>4 DEF IInv

LEMMA InsideIsFinite == \A r : IsFiniteSet(Inside(r))
BY CallAssumption, FS_Subset DEF Inside

LEMMA NullActionInv ==
  ASSUME IInv, NEW c \in Call, NullAction(c)
  PROVE  IInv'
<1> USE CallAssumption, NoneAssumption DEF IInv, NullAction, Goto
<1> USE DEF TypeOK, PC, Outcome, IsLast
<1>1. TypeOK'
  BY DEF WellPlaced, UsingRing
<1>6. \A r \in Ring : Inside(r)' = Inside(r)
  BY DEF Inside, WellPlaced, UsingRing
<1>4. HatsAreCounted'
  BY <1>6 DEF HatsAreCounted
<1>2. WellPlaced'
  BY DEF WellPlaced, UsingRing
<1>9. WellNested'
  BY DEF WellNested
<1>3. LockIsHeld'
  BY DEF LockIsHeld, WellPlaced, UsingRing
<1>8. ASSUME ~raced' PROVE (RingIsOfKey /\ RingsAreDistinct /\ UnusedIsUnused /\ LastIsAlone /\ RingIsThere)'
  <2>1. RingIsOfKey /\ RingsAreDistinct /\ UnusedIsUnused /\ LastIsAlone /\ RingIsThere
    BY <1>8
  <2>2. RingIsOfKey'
    BY <2>1 DEF RingIsOfKey, WellPlaced, UsingRing
  <2>3. RingsAreDistinct'
    BY <2>1 DEF RingsAreDistinct, UnusedIsUnused, WellPlaced
  <2>4. UnusedIsUnused'
    BY <2>1 DEF UnusedIsUnused, WellPlaced, RingIsOfKey, UsingRing
  <2>5. LastIsAlone'
    BY <2>1, <1>8 DEF LastIsAlone, WellPlaced, UsingRing
  <2>6. RingIsThere'
    BY <2>1 DEF RingIsThere
  <2> QED
    BY <2>2, <2>3, <2>4, <2>5, <2>6
<1> QED
  BY <1>1, <1>2, <1>3, <1>4, <1>8, <1>9

LEMMA NullKeyInv ==
  ASSUME IInv, NEW c \in Call, NullKey(c)
  PROVE  IInv'
<1> USE CallAssumption, NoneAssumption DEF IInv, NullKey, Goto
<1> USE DEF TypeOK, PC, Outcome, IsLast
<1>1. TypeOK'
  BY DEF WellPlaced, UsingRing
<1>6. \A r \in Ring : Inside(r)' = Inside(r)
  BY DEF Inside, WellPlaced, UsingRing
<1>4. HatsAreCounted'
  BY <1>6 DEF HatsAreCounted
<1>2. WellPlaced'
  BY DEF WellPlaced, UsingRing
<1>9. WellNested'
  BY DEF WellNested
<1>3. LockIsHeld'
  BY DEF LockIsHeld, WellPlaced, UsingRing
<1>8. ASSUME ~raced' PROVE (RingIsOfKey /\ RingsAreDistinct /\ UnusedIsUnused /\ LastIsAlone /\ RingIsThere)'
  <2>1. RingIsOfKey /\ RingsAreDistinct /\ UnusedIsUnused /\ LastIsAlone /\ RingIsThere
    BY <1>8
  <2>2. RingIsOfKey'
    BY <2>1 DEF RingIsOfKey, WellPlaced, UsingRing
  <2>3. RingsAreDistinct'
    BY <2>1 DEF RingsAreDistinct, UnusedIsUnused, WellPlaced
  <2>4. UnusedIsUnused'
    BY <2>1 DEF UnusedIsUnused, WellPlaced, RingIsOfKey, UsingRing
  <2>5. LastIsAlone'
    BY <2>1, <1>8 DEF LastIsAlone, WellPlaced, UsingRing
  <2>6. RingIsThere'
    BY <2>1 DEF RingIsThere
  <2> QED
    BY <2>2, <2>3, <2>4, <2>5, <2>6
<1> QED
  BY <1>1, <1>2, <1>3, <1>4, <1>8, <1>9

LEMMA RunUnlockedInv ==
  ASSUME IInv, NEW c \in Call, RunUnlocked(c)
  PROVE  IInv'
<1> USE CallAssumption, NoneAssumption DEF IInv, RunUnlocked, Goto
<1> USE DEF TypeOK, PC, Outcome, IsLast
<1>1. TypeOK'
  BY DEF WellPlaced, UsingRing
<1>6. \A r \in Ring : Inside(r)' = Inside(r)
  BY DEF Inside, WellPlaced, UsingRing
<1>4. HatsAreCounted'
  BY <1>6 DEF HatsAreCounted
<1>2. WellPlaced'
  BY DEF WellPlaced, UsingRing
<1>9. WellNested'
  BY DEF WellNested
<1>3. LockIsHeld'
  BY DEF LockIsHeld, WellPlaced, UsingRing
<1>8. ASSUME ~raced' PROVE (RingIsOfKey /\ RingsAreDistinct /\ UnusedIsUnused /\ LastIsAlone /\ RingIsThere)'
  <2>1. RingIsOfKey /\ RingsAreDistinct /\ UnusedIsUnused /\ LastIsAlone /\ RingIsThere
    BY <1>8
  <2>2. RingIsOfKey'
    BY <2>1 DEF RingIsOfKey, WellPlaced, UsingRing
  <2>3. RingsAreDistinct'
    BY <2>1 DEF RingsAreDistinct, UnusedIsUnused, WellPlaced
  <2>4. UnusedIsUnused'
    BY <2>1 DEF UnusedIsUnused, WellPlaced, RingIsOfKey, UsingRing
  <2>5. LastIsAlone'
    BY <2>1, <1>8 DEF LastIsAlone, WellPlaced, UsingRing
  <2>6. RingIsThere'
    BY <2>1 DEF RingIsThere
  <2> QED
    BY <2>2, <2>3, <2>4, <2>5, <2>6
<1> QED
  BY <1>1, <1>2, <1>3, <1>4, <1>8, <1>9

LEMMA StartInv ==
  ASSUME IInv, NEW c \in Call, NEW k \in Key, Start(c, k),
         NEW d \in Call \union {None}, outer' = [outer EXCEPT ![c] = d],
         d # None => pc[d] = "action" /\ outer[d] = None /\ key[d] = k
  PROVE  IInv'
<1> USE CallAssumption, NoneAssumption DEF IInv, Start, Goto
<1> USE DEF TypeOK, PC, Outcome, IsLast
<1>1. TypeOK'
  BY DEF WellPlaced, UsingRing, Larger
<1>6. \A r \in Ring : Inside(r)' = Inside(r)
  BY DEF Inside, WellPlaced, UsingRing
<1>4. HatsAreCounted'
  BY <1>6 DEF HatsAreCounted
<1>2. WellPlaced'
  BY DEF WellPlaced, UsingRing
<1>9. WellNested'
  <2> SUFFICES ASSUME NEW e \in Call, outer'[e] # None
               PROVE  /\ outer'[outer'[e]] = None /\ key'[e] = key'[outer'[e]]
                      /\ "idle" \notin {pc'[e], pc'[outer'[e]]}
                      /\ pc'[e] # "done" => pc'[outer'[e]] = "action"
    BY DEF WellNested
  <2>1. CASE e = c
    BY <2>1
  <2>2. CASE e # c
    <3>1. outer'[e] = outer[e] /\ outer[e] \in Call /\ pc'[e] = pc[e]
      BY <2>2
    <3>2. /\ outer[outer[e]] = None /\ key[e] = key[outer[e]]
          /\ "idle" \notin {pc[e], pc[outer[e]]}
          /\ pc[e] # "done" => pc[outer[e]] = "action"
      BY <3>1 DEF WellNested
    <3>3. outer[e] # c
      BY <3>2
    <3> QED
      BY <3>1, <3>2, <3>3
  <2> QED
    BY <2>1, <2>2
<1>3. LockIsHeld'
  BY DEF LockIsHeld, WellPlaced, UsingRing
<1>8. ASSUME ~raced' PROVE (RingIsOfKey /\ RingsAreDistinct /\ UnusedIsUnused /\ LastIsAlone /\ RingIsThere)'
  <2>1. RingIsOfKey /\ RingsAreDistinct /\ UnusedIsUnused /\ LastIsAlone /\ RingIsThere
    BY <1>8
  <2>2. RingIsOfKey'
    BY <2>1 DEF RingIsOfKey, WellPlaced, UsingRing
  <2>3. RingsAreDistinct'
    BY <2>1 DEF RingsAreDistinct, UnusedIsUnused, WellPlaced
  <2>4. UnusedIsUnused'
    BY <2>1 DEF UnusedIsUnused, WellPlaced, RingIsOfKey, UsingRing
  <2>5. LastIsAlone'
    BY <2>1, <1>8 DEF LastIsAlone, WellPlaced, UsingRing
  <2>6. RingIsThere'
    BY <2>1 DEF RingIsThere
  <2> QED
    BY <2>2, <2>3, <2>4, <2>5, <2>6
<1> QED
  BY <1>1, <1>2, <1>3, <1>4, <1>8, <1>9

LEMMA DoLockedInv ==
  ASSUME IInv, NEW c \in Call, NEW k \in Key, DoLocked(c, k)
  PROVE  IInv'
<1>1. outer' = [outer EXCEPT ![c] = None]
  BY DEF IInv, TypeOK, WellNested, DoLocked, Start, Goto
<1> QED
  BY <1>1, StartInv DEF DoLocked

LEMMA DoLockedAgainInv ==
  ASSUME IInv, NEW c \in Call, NEW d \in Call, DoLockedAgain(c, d)
  PROVE  IInv'
<1>1. key[d] \in Key
  BY DEF IInv, WellPlaced, UsingRing, DoLockedAgain
<1> QED
  BY <1>1, StartInv, CallAssumption DEF DoLockedAgain

LEMMA EnterUsedRingInv ==
  ASSUME IInv, NEW c \in Call, EnterUsedRing(c)
  PROVE  IInv'
<1> USE CallAssumption, NoneAssumption DEF IInv, EnterUsedRing, Goto, Toss
<1> USE DEF TypeOK, PC, Outcome, IsLast
<1>1. TypeOK'
  BY DEF WellPlaced, UsingRing
<1>5. ring'[c] \in Ring /\ c \notin Inside(ring'[c])
  BY DEF WellPlaced, Inside, UsingRing
<1>6. \A r \in Ring : Inside(r)' = IF r = ring'[c] THEN Inside(r) \union {c} ELSE Inside(r)
  BY <1>5 DEF Inside, WellPlaced, UsingRing
<1>7. Cardinality(Inside(ring'[c]) \union {c}) = Cardinality(Inside(ring'[c])) + 1
  BY <1>5, InsideIsFinite, FS_AddElement
<1>4. HatsAreCounted'
  BY <1>5, <1>6, <1>7, ZenonT(60) DEF HatsAreCounted
<1>2. WellPlaced'
  BY DEF WellPlaced, UsingRing
<1>9. WellNested'
  BY DEF WellNested
<1>3. LockIsHeld'
  BY DEF LockIsHeld, WellPlaced, UsingRing
<1>8. ASSUME ~raced' PROVE (RingIsOfKey /\ RingsAreDistinct /\ UnusedIsUnused /\ LastIsAlone /\ RingIsThere)'
  <2>1. RingIsOfKey /\ RingsAreDistinct /\ UnusedIsUnused /\ LastIsAlone /\ RingIsThere
    BY <1>8
  <2>2. RingIsOfKey'
    BY <2>1 DEF RingIsOfKey, WellPlaced, UsingRing
  <2>3. RingsAreDistinct'
    BY <2>1 DEF RingsAreDistinct, UnusedIsUnused, WellPlaced
  <2>4. UnusedIsUnused'
    BY <2>1 DEF UnusedIsUnused, WellPlaced, RingIsOfKey, UsingRing
  <2>5. LastIsAlone'
    BY <2>1, <1>8 DEF LastIsAlone, WellPlaced, UsingRing
  <2>6. RingIsThere'
    BY <2>1 DEF RingIsThere
  <2> QED
    BY <2>2, <2>3, <2>4, <2>5, <2>6
<1> QED
  BY <1>1, <1>2, <1>3, <1>4, <1>8, <1>9

LEMMA EnterUnusedRingInv ==
  ASSUME IInv, NEW c \in Call, EnterUnusedRing(c)
  PROVE  IInv'
<1> USE CallAssumption, NoneAssumption DEF IInv, EnterUnusedRing, Goto, Toss
<1> USE DEF TypeOK, PC, Outcome, IsLast
<1>1. TypeOK'
  BY DEF WellPlaced, UsingRing
<1>5. ring'[c] \in Ring /\ c \notin Inside(ring'[c])
  BY DEF WellPlaced, Inside, UsingRing
<1>6. \A r \in Ring : Inside(r)' = IF r = ring'[c] THEN Inside(r) \union {c} ELSE Inside(r)
  BY <1>5 DEF Inside, WellPlaced, UsingRing
<1>7. Cardinality(Inside(ring'[c]) \union {c}) = Cardinality(Inside(ring'[c])) + 1
  BY <1>5, InsideIsFinite, FS_AddElement
<1>4. HatsAreCounted'
  <2>1. hats' = [hats EXCEPT ![ring'[c]] = @ + 1]
    OBVIOUS
  <2> QED
    BY <1>5, <1>6, <1>7, <2>1, ZenonT(60) DEF HatsAreCounted
<1>2. WellPlaced'
  BY DEF WellPlaced, UsingRing
<1>9. WellNested'
  BY DEF WellNested
<1>3. LockIsHeld'
  BY DEF LockIsHeld, WellPlaced, UsingRing
<1>8. ASSUME ~raced' PROVE (RingIsOfKey /\ RingsAreDistinct /\ UnusedIsUnused /\ LastIsAlone /\ RingIsThere)'
  <2>1. RingIsOfKey /\ RingsAreDistinct /\ UnusedIsUnused /\ LastIsAlone /\ RingIsThere
    BY <1>8
  <2>2. RingIsOfKey'
    BY <2>1 DEF RingIsOfKey, WellPlaced, UsingRing
  <2>3. RingsAreDistinct'
    BY <2>1 DEF RingsAreDistinct, UnusedIsUnused, WellPlaced
  <2>4. UnusedIsUnused'
    BY <2>1 DEF UnusedIsUnused, WellPlaced, RingIsOfKey, UsingRing
  <2>5. LastIsAlone'
    BY <2>1, <1>8 DEF LastIsAlone, WellPlaced, UsingRing
  <2>6. RingIsThere'
    BY <2>1 DEF RingIsThere
  <2> QED
    BY <2>2, <2>3, <2>4, <2>5, <2>6
<1> QED
  BY <1>1, <1>2, <1>3, <1>4, <1>8, <1>9

LEMMA EnterNewRingInv ==
  ASSUME IInv, NEW c \in Call, EnterNewRing(c)
  PROVE  IInv'
<1> USE CallAssumption, NoneAssumption DEF IInv, EnterNewRing, Goto, Toss, Fresh
<1> USE DEF TypeOK, PC, Outcome, IsLast
<1>1. TypeOK'
  BY DEF WellPlaced, UsingRing
<1>5. ring'[c] \in Ring /\ c \notin Inside(ring'[c])
  BY DEF WellPlaced, Inside, UsingRing
<1>6. \A r \in Ring : Inside(r)' = IF r = ring'[c] THEN Inside(r) \union {c} ELSE Inside(r)
  BY <1>5 DEF Inside, WellPlaced, UsingRing
<1>7. Cardinality(Inside(ring'[c]) \union {c}) = Cardinality(Inside(ring'[c])) + 1
  BY <1>5, InsideIsFinite, FS_AddElement
<1>4. HatsAreCounted'
  <2>1. hats' = [hats EXCEPT ![ring'[c]] = @ + 1]
    OBVIOUS
  <2> QED
    BY <1>5, <1>6, <1>7, <2>1 DEF HatsAreCounted
<1>2. WellPlaced'
  BY DEF WellPlaced, UsingRing
<1>9. WellNested'
  BY DEF WellNested
<1>3. LockIsHeld'
  BY DEF LockIsHeld, WellPlaced, UsingRing
<1>8. ASSUME ~raced' PROVE (RingIsOfKey /\ RingsAreDistinct /\ UnusedIsUnused /\ LastIsAlone /\ RingIsThere)'
  <2>1. RingIsOfKey /\ RingsAreDistinct /\ UnusedIsUnused /\ LastIsAlone /\ RingIsThere
    BY <1>8
  <2>2. RingIsOfKey'
    BY <2>1 DEF RingIsOfKey, WellPlaced, UsingRing
  <2>3. RingsAreDistinct'
    BY <2>1 DEF RingsAreDistinct, UnusedIsUnused, WellPlaced
  <2>4. UnusedIsUnused'
    BY <2>1 DEF UnusedIsUnused, WellPlaced, RingIsOfKey, UsingRing
  <2>5. LastIsAlone'
    BY <2>1, <1>8 DEF LastIsAlone, WellPlaced, UsingRing
  <2>6. RingIsThere'
    BY <2>1 DEF RingIsThere
  <2> QED
    BY <2>2, <2>3, <2>4, <2>5, <2>6
<1> QED
  BY <1>1, <1>2, <1>3, <1>4, <1>8, <1>9

LEMMA LockRingInv ==
  ASSUME IInv, NEW c \in Call, LockRing(c)
  PROVE  IInv'
<1> USE CallAssumption, NoneAssumption DEF IInv, LockRing, Goto
<1> USE DEF TypeOK, PC, Outcome, IsLast
<1>1. TypeOK'
  BY DEF WellPlaced, UsingRing
<1>6. \A r \in Ring : Inside(r)' = Inside(r)
  BY DEF Inside, WellPlaced, UsingRing
<1>4. HatsAreCounted'
  BY <1>6 DEF HatsAreCounted
<1>2. WellPlaced'
  BY DEF WellPlaced, UsingRing
<1>9. WellNested'
  BY DEF WellNested
<1>5. /\ ring[c] \in Ring /\ owner'[ring[c]] = c /\ pc'[c] = "action"
      /\ \A r \in Ring : r # ring[c] => owner'[r] = owner[r]
  BY DEF WellPlaced, UsingRing
<1>3. LockIsHeld'
  <2> SUFFICES ASSUME NEW e \in Call, e # c, pc[e] = "action"
               PROVE  \/ owner'[ring[e]] = e
                      \/ \E d \in Call : /\ owner'[ring[e]] = d /\ outer[d] = e
                                        /\ pc'[d] = "action" /\ ring[d] = ring[e]
    BY <1>5 DEF LockIsHeld
  <2>1. ring[e] \in Ring
    BY DEF WellPlaced, UsingRing
  <2>2. \/ owner[ring[e]] = e
        \/ \E d \in Call : /\ owner[ring[e]] = d /\ outer[d] = e
                          /\ pc[d] = "action" /\ ring[d] = ring[e]
    BY DEF LockIsHeld
  <2>3. CASE ring[e] # ring[c]
    BY <1>5, <2>1, <2>2, <2>3
  <2>4. CASE ring[e] = ring[c]
    <3>1. owner[ring[c]] = outer[c] /\ outer[c] # None
      BY <2>2, <2>4
    <3>2. outer[outer[c]] = None
      BY <3>1 DEF WellNested
    <3>3. outer[c] = e
      BY <2>2, <2>4, <3>1, <3>2
    <3> QED
      BY <1>5, <2>4, <3>3
  <2> QED
    BY <2>3, <2>4
<1>8. ASSUME ~raced' PROVE (RingIsOfKey /\ RingsAreDistinct /\ UnusedIsUnused /\ LastIsAlone /\ RingIsThere)'
  <2>1. RingIsOfKey /\ RingsAreDistinct /\ UnusedIsUnused /\ LastIsAlone /\ RingIsThere
    BY <1>8
  <2>2. RingIsOfKey'
    BY <2>1 DEF RingIsOfKey, WellPlaced, UsingRing
  <2>3. RingsAreDistinct'
    BY <2>1 DEF RingsAreDistinct, UnusedIsUnused, WellPlaced
  <2>4. UnusedIsUnused'
    BY <2>1 DEF UnusedIsUnused, WellPlaced, RingIsOfKey, UsingRing
  <2>5. LastIsAlone'
    BY <2>1, <1>8 DEF LastIsAlone, WellPlaced, UsingRing
  <2>6. RingIsThere'
    BY <2>1 DEF RingIsThere
  <2> QED
    BY <2>2, <2>3, <2>4, <2>5, <2>6
<1> QED
  BY <1>1, <1>2, <1>3, <1>4, <1>8, <1>9

LEMMA ActionEndsInv ==
  ASSUME IInv, NEW c \in Call, ActionEnds(c)
  PROVE  IInv'
<1> USE CallAssumption, NoneAssumption DEF IInv, ActionEnds, Goto
<1> USE DEF TypeOK, PC, Outcome, IsLast
<1>1. TypeOK'
  BY DEF WellPlaced, UsingRing, OwnerAfter
<1>6. \A r \in Ring : Inside(r)' = Inside(r)
  BY DEF Inside, WellPlaced, UsingRing
<1>4. HatsAreCounted'
  BY <1>6 DEF HatsAreCounted
<1>2. WellPlaced'
  BY DEF WellPlaced, UsingRing
<1>10. ASSUME NEW e \in Call, outer[e] = c PROVE pc[e] = "done" /\ e # c
  BY <1>10 DEF Nested
<1>9. WellNested'
  <2> SUFFICES ASSUME NEW e \in Call, outer[e] # None
               PROVE  /\ outer[outer[e]] = None
                      /\ "idle" \notin {pc'[e], pc'[outer[e]]}
                      /\ pc'[e] # "done" => pc'[outer[e]] = "action"
    BY DEF WellNested
  <2>1. /\ outer[e] \in Call /\ outer[outer[e]] = None
        /\ "idle" \notin {pc[e], pc[outer[e]]}
        /\ pc[e] # "done" => pc[outer[e]] = "action"
    BY DEF WellNested
  <2> QED
    BY <2>1, <1>10
<1>5. /\ ring[c] \in Ring /\ owner'[ring[c]] = OwnerAfter(c)
      /\ \A r \in Ring : r # ring[c] => owner'[r] = owner[r]
      /\ owner[ring[c]] = c
  BY <1>10 DEF WellPlaced, UsingRing, LockIsHeld
<1>3. LockIsHeld'
  <2> SUFFICES ASSUME NEW e \in Call, e # c, pc[e] = "action"
               PROVE  \/ owner'[ring[e]] = e
                      \/ \E d \in Call : /\ owner'[ring[e]] = d /\ outer[d] = e
                                        /\ pc'[d] = "action" /\ ring[d] = ring[e]
    BY DEF LockIsHeld
  <2>1. ring[e] \in Ring
    BY DEF WellPlaced, UsingRing
  <2>2. \/ owner[ring[e]] = e
        \/ \E d \in Call : /\ owner[ring[e]] = d /\ outer[d] = e
                          /\ pc[d] = "action" /\ ring[d] = ring[e]
    BY DEF LockIsHeld
  <2>3. CASE ring[e] # ring[c]
    BY <1>5, <2>1, <2>2, <2>3
  <2>4. CASE ring[e] = ring[c]
    <3>1. outer[c] = e
      BY <1>5, <2>2, <2>4
    <3> QED
      BY <1>5, <2>4, <3>1 DEF OwnerAfter
  <2> QED
    BY <2>3, <2>4
<1>8. ASSUME ~raced' PROVE (RingIsOfKey /\ RingsAreDistinct /\ UnusedIsUnused /\ LastIsAlone /\ RingIsThere)'
  <2>1. RingIsOfKey /\ RingsAreDistinct /\ UnusedIsUnused /\ LastIsAlone /\ RingIsThere
    BY <1>8
  <2>2. RingIsOfKey'
    BY <2>1 DEF RingIsOfKey, WellPlaced, UsingRing
  <2>3. RingsAreDistinct'
    BY <2>1 DEF RingsAreDistinct, UnusedIsUnused, WellPlaced
  <2>4. UnusedIsUnused'
    BY <2>1 DEF UnusedIsUnused, WellPlaced, RingIsOfKey, UsingRing
  <2>5. LastIsAlone'
    BY <2>1, <1>8 DEF LastIsAlone, WellPlaced, UsingRing
  <2>6. RingIsThere'
    BY <2>1 DEF RingIsThere
  <2> QED
    BY <2>2, <2>3, <2>4, <2>5, <2>6
<1> QED
  BY <1>1, <1>2, <1>3, <1>4, <1>8, <1>9

LEMMA TakeOutInv ==
  ASSUME IInv, NEW c \in Call, TakeOut(c)
  PROVE  IInv'
<1> USE CallAssumption, NoneAssumption DEF IInv, TakeOut, Goto
<1> USE DEF TypeOK, PC, Outcome, IsLast
<1>5. ring[c] \in Ring /\ c \in Inside(ring[c])
  BY DEF WellPlaced, Inside, UsingRing
<1>6. \A r \in Ring : Inside(r)' = IF r = ring[c] THEN Inside(r) \ {c} ELSE Inside(r)
  BY DEF Inside
<1>7. /\ hats[ring[c]] = Cardinality(Inside(ring[c]))
      /\ Cardinality(Inside(ring[c]) \ {c}) = Cardinality(Inside(ring[c])) - 1
      /\ Cardinality(Inside(ring[c]) \ {c}) \in Nat
  BY <1>5, InsideIsFinite, FS_RemoveElement, FS_CardinalityType DEF HatsAreCounted
<1>1. TypeOK'
  BY <1>5, <1>7
<1>4. HatsAreCounted'
  BY <1>5, <1>6, <1>7 DEF HatsAreCounted
<1>2. WellPlaced'
  BY DEF WellPlaced, UsingRing
<1>9. WellNested'
  BY DEF WellNested
<1>3. LockIsHeld'
  BY DEF LockIsHeld, WellPlaced, UsingRing
<1>8. ASSUME ~raced' PROVE (RingIsOfKey /\ RingsAreDistinct /\ UnusedIsUnused /\ LastIsAlone /\ RingIsThere)'
  <2>1. RingIsOfKey /\ RingsAreDistinct /\ UnusedIsUnused /\ LastIsAlone /\ RingIsThere
    BY <1>8
  <2>2. RingIsOfKey'
    BY <2>1 DEF RingIsOfKey, WellPlaced, UsingRing
  <2>3. RingsAreDistinct'
    BY <2>1 DEF RingsAreDistinct, UnusedIsUnused, WellPlaced
  <2>4. UnusedIsUnused'
    BY <2>1 DEF UnusedIsUnused, WellPlaced, RingIsOfKey, UsingRing
  <2>5. LastIsAlone'
    <3>1. ASSUME NEW d \in Call, d # c, pc[d] \in {"putBack", "leave"}, ring[d] = ring[c]
          PROVE  hats'[ring[c]] # 0
      <4>1. d \in Leaving(ring[c])
        BY <3>1 DEF Leaving
      <4>2. hats[ring[c]] # 1
        BY <1>8, <4>1
      <4> QED
        BY <1>5, <4>2
    <3> QED
      BY <2>1, <3>1, <1>5 DEF LastIsAlone, WellPlaced, UsingRing
  <2>6. RingIsThere'
    BY <2>1 DEF RingIsThere
  <2> QED
    BY <2>2, <2>3, <2>4, <2>5, <2>6
<1> QED
  BY <1>1, <1>2, <1>3, <1>4, <1>8, <1>9

LEMMA PutBackInv ==
  ASSUME IInv, NEW c \in Call, PutBack(c)
  PROVE  IInv'
<1> USE CallAssumption, NoneAssumption DEF IInv, PutBack, Goto
<1> USE DEF TypeOK, PC, Outcome, IsLast
<1>1. TypeOK'
  BY DEF WellPlaced, UsingRing
<1>6. \A r \in Ring : Inside(r)' = Inside(r)
  BY DEF Inside, WellPlaced, UsingRing
<1>4. HatsAreCounted'
  BY <1>6 DEF HatsAreCounted
<1>2. WellPlaced'
  BY DEF WellPlaced, UsingRing
<1>9. WellNested'
  BY DEF WellNested
<1>3. LockIsHeld'
  BY DEF LockIsHeld, WellPlaced, UsingRing
<1>8. ASSUME ~raced' PROVE (RingIsOfKey /\ RingsAreDistinct /\ UnusedIsUnused /\ LastIsAlone /\ RingIsThere)'
  <2>1. RingIsOfKey /\ RingsAreDistinct /\ UnusedIsUnused /\ LastIsAlone /\ RingIsThere
    BY <1>8
  <2>2. RingIsOfKey'
    BY <2>1 DEF RingIsOfKey, WellPlaced, UsingRing
  <2>3. RingsAreDistinct'
    BY <2>1 DEF RingsAreDistinct, UnusedIsUnused, WellPlaced
  <2>4. UnusedIsUnused'
    BY <2>1 DEF UnusedIsUnused, WellPlaced, RingIsOfKey, UsingRing
  <2>5. LastIsAlone'
    BY <2>1, <1>8 DEF LastIsAlone, WellPlaced, UsingRing
  <2>6. RingIsThere'
    BY <2>1 DEF RingIsThere
  <2> QED
    BY <2>2, <2>3, <2>4, <2>5, <2>6
<1> QED
  BY <1>1, <1>2, <1>3, <1>4, <1>8, <1>9

LEMMA LeaveOthersInsideInv ==
  ASSUME IInv, NEW c \in Call, LeaveOthersInside(c)
  PROVE  IInv'
<1> USE CallAssumption, NoneAssumption DEF IInv, LeaveOthersInside, Goto
<1> USE DEF TypeOK, PC, Outcome, IsLast
<1>1. TypeOK'
  BY DEF WellPlaced, UsingRing
<1>6. \A r \in Ring : Inside(r)' = Inside(r)
  BY DEF Inside, WellPlaced, UsingRing
<1>4. HatsAreCounted'
  BY <1>6 DEF HatsAreCounted
<1>2. WellPlaced'
  BY DEF WellPlaced, UsingRing
<1>9. WellNested'
  BY DEF WellNested
<1>3. LockIsHeld'
  BY DEF LockIsHeld, WellPlaced, UsingRing
<1>8. ASSUME ~raced' PROVE (RingIsOfKey /\ RingsAreDistinct /\ UnusedIsUnused /\ LastIsAlone /\ RingIsThere)'
  <2>1. RingIsOfKey /\ RingsAreDistinct /\ UnusedIsUnused /\ LastIsAlone /\ RingIsThere
    BY <1>8
  <2>2. RingIsOfKey'
    BY <2>1 DEF RingIsOfKey, WellPlaced, UsingRing
  <2>3. RingsAreDistinct'
    BY <2>1 DEF RingsAreDistinct, UnusedIsUnused, WellPlaced
  <2>4. UnusedIsUnused'
    BY <2>1 DEF UnusedIsUnused, WellPlaced, RingIsOfKey, UsingRing
  <2>5. LastIsAlone'
    BY <2>1, <1>8 DEF LastIsAlone, WellPlaced, UsingRing
  <2>6. RingIsThere'
    BY <2>1 DEF RingIsThere
  <2> QED
    BY <2>2, <2>3, <2>4, <2>5, <2>6
<1> QED
  BY <1>1, <1>2, <1>3, <1>4, <1>8, <1>9

LEMMA LeaveLastInv ==
  ASSUME IInv, NEW c \in Call, LeaveLast(c)
  PROVE  IInv'
<1> USE CallAssumption, NoneAssumption DEF IInv, LeaveLast, Goto
<1> USE DEF TypeOK, PC, Outcome, IsLast
<1>1. TypeOK'
  BY DEF WellPlaced, UsingRing
<1>6. \A r \in Ring : Inside(r)' = Inside(r)
  BY DEF Inside, WellPlaced, UsingRing
<1>4. HatsAreCounted'
  BY <1>6 DEF HatsAreCounted
<1>2. WellPlaced'
  BY DEF WellPlaced, UsingRing
<1>9. WellNested'
  BY DEF WellNested
<1>3. LockIsHeld'
  BY DEF LockIsHeld, WellPlaced, UsingRing
<1>8. ASSUME ~raced' PROVE (RingIsOfKey /\ RingsAreDistinct /\ UnusedIsUnused /\ LastIsAlone /\ RingIsThere)'
  <2>1. RingIsOfKey /\ RingsAreDistinct /\ UnusedIsUnused /\ LastIsAlone /\ RingIsThere
    BY <1>8
  <2>7. ASSUME NEW d \in Call, d # c PROVE ring[d] # ring[c]
    <3> SUFFICES ASSUME ring[d] = ring[c] PROVE FALSE
      OBVIOUS
    <3>1. ring[c] \in Ring /\ pc[d] \in UsingRing
      BY DEF WellPlaced, UsingRing
    <3>2. Inside(ring[c]) = {}
      BY <3>1, InsideIsFinite, FS_EmptySet DEF HatsAreCounted
    <3>3. pc[d] \in {"putBack", "leave"}
      BY <3>1, <3>2 DEF Inside, UsingRing
    <3> QED
      BY <2>1, <2>7, <3>3 DEF LastIsAlone
  <2>2. RingIsOfKey'
    BY <2>1, <2>7 DEF RingIsOfKey, WellPlaced, UsingRing
  <2>3. RingsAreDistinct'
    BY <2>1 DEF RingsAreDistinct, UnusedIsUnused, WellPlaced
  <2>4. UnusedIsUnused'
    <3>1. ring[c] \in Ring /\ key[c] \in Key /\ rooms[key[c]] = ring[c]
      BY <2>1 DEF WellPlaced, RingIsOfKey, UsingRing
    <3>2. unused[ring[c]] = 0
      BY <2>1, <3>1 DEF UnusedIsUnused
    <3>3. \A k \in Key : rooms'[k] # ring[c]
      BY <2>1, <3>1 DEF RingsAreDistinct
    <3>4. \A d \in Call : ring'[d] # ring[c]
      BY <2>7, <3>1
    <3>5. ASSUME NEW r \in Ring, r # ring[c], unused'[r] > 0
          PROVE  /\ unused'[r] = 1
                 /\ \A k \in Key : rooms'[k] # r
                 /\ \A d \in Call : ring'[d] # r
      BY <2>1, <3>5 DEF UnusedIsUnused
    <3> QED
      BY <3>1, <3>2, <3>3, <3>4, <3>5 DEF UnusedIsUnused
  <2>5. LastIsAlone'
    BY <2>1, <1>8 DEF LastIsAlone, WellPlaced, UsingRing
  <2>6. RingIsThere'
    BY <2>1 DEF RingIsThere
  <2> QED
    BY <2>2, <2>3, <2>4, <2>5, <2>6
<1> QED
  BY <1>1, <1>2, <1>3, <1>4, <1>8, <1>9

LEMMA LeaveRingGoneInv ==
  ASSUME IInv, NEW c \in Call, LeaveRingGone(c)
  PROVE  IInv'
<1> USE CallAssumption, NoneAssumption DEF IInv, LeaveRingGone, Goto
<1> USE DEF TypeOK, PC, Outcome, IsLast
<1>1. TypeOK'
  BY DEF WellPlaced, UsingRing
<1>6. \A r \in Ring : Inside(r)' = Inside(r)
  BY DEF Inside, WellPlaced, UsingRing
<1>4. HatsAreCounted'
  BY <1>6 DEF HatsAreCounted
<1>2. WellPlaced'
  BY DEF WellPlaced, UsingRing
<1>9. WellNested'
  BY DEF WellNested
<1>3. LockIsHeld'
  BY DEF LockIsHeld, WellPlaced, UsingRing
<1>8. ASSUME ~raced' PROVE (RingIsOfKey /\ RingsAreDistinct /\ UnusedIsUnused /\ LastIsAlone /\ RingIsThere)'
  <2>1. RingIsOfKey /\ RingsAreDistinct /\ UnusedIsUnused /\ LastIsAlone /\ RingIsThere
    BY <1>8
  <2>2. RingIsOfKey'
    BY <2>1 DEF RingIsOfKey, WellPlaced, UsingRing
  <2>3. RingsAreDistinct'
    BY <2>1 DEF RingsAreDistinct, UnusedIsUnused, WellPlaced
  <2>4. UnusedIsUnused'
    BY <2>1 DEF UnusedIsUnused, WellPlaced, RingIsOfKey, UsingRing
  <2>5. LastIsAlone'
    BY <2>1, <1>8 DEF LastIsAlone, WellPlaced, UsingRing
  <2>6. RingIsThere'
    BY <2>1 DEF RingIsOfKey, WellPlaced, UsingRing
  <2> QED
    BY <2>2, <2>3, <2>4, <2>5, <2>6
<1> QED
  BY <1>1, <1>2, <1>3, <1>4, <1>8, <1>9

(* A bag's hats are the calls inside, raced or not; until the first race,   *)
(* every call's ring is that of its key (Locker.cs 54-109).                 *)
THEOREM Inductive == Spec => []IInv
<1>1. IInv /\ [Next]_vars => IInv'
  <2> SUFFICES ASSUME IInv, [Next]_vars PROVE IInv'
    OBVIOUS
  <2>1. ASSUME NEW c \in Call, NEW k \in Key, DoLocked(c, k) PROVE IInv'
    BY <2>1, DoLockedInv
  <2>5. ASSUME NEW c \in Call, NEW d \in Call, DoLockedAgain(c, d) PROVE IInv'
    BY <2>5, DoLockedAgainInv
  <2>2. ASSUME NEW c \in Call, NullAction(c) \/ NullKey(c) PROVE IInv'
    BY <2>2, NullActionInv, NullKeyInv
  <2>3. ASSUME NEW c \in Call, Step(c) PROVE IInv'
    BY <2>3, RunUnlockedInv, EnterUsedRingInv, EnterUnusedRingInv, EnterNewRingInv,
       LockRingInv, ActionEndsInv, TakeOutInv, PutBackInv, LeaveOthersInsideInv,
       LeaveLastInv, LeaveRingGoneInv DEF Step
  <2>4. CASE UNCHANGED vars
    BY <2>4 DEF vars, IInv, TypeOK, WellPlaced, WellNested, LockIsHeld, HatsAreCounted, Inside,
       RingIsOfKey, RingsAreDistinct, UnusedIsUnused, LastIsAlone, RingIsThere
  <2> QED
    BY <2>1, <2>2, <2>3, <2>4, <2>5 DEF Next
<1> QED
  BY InitInv, <1>1, PTL DEF Spec

-----------------------------------------------------------------------------

(* Every variable of the locker keeps its type (Locker.cs 47-110): no ring  *)
(* ever has fewer than no hats, whatever raced.                             *)
THEOREM TypeCorrect == Spec => []TypeOK
<1>1. IInv => TypeOK
  BY DEF IInv
<1> QED
  BY <1>1, Inductive, PTL

(* Unless a ring was emptied under a call between its TryTake and its look  *)
(* at the ring (Locker.cs 91-98), actions under one key exclude each other  *)
(* and no call finds its ring taken out.                                    *)
THEOREM LocksRight == Spec => []LocksUnlessRaced
<1>1. IInv => LocksUnlessRaced
  <2> SUFFICES ASSUME IInv, ~raced PROVE MutualExclusion /\ RingIsThere
    BY DEF LocksUnlessRaced
  <2>1. ASSUME NEW c \in Call, NEW d \in Call,
               pc[c] = "action", pc[d] = "action", key[c] = key[d]
        PROVE  c = d \/ outer[c] = d \/ outer[d] = c
    <3>1. ring[c] = ring[d]
      BY <2>1 DEF IInv, WellPlaced, UsingRing, RingIsOfKey
    <3> QED
      BY <2>1, <3>1, CallAssumption DEF IInv, TypeOK, LockIsHeld, WellNested
  <2> QED
    BY <2>1 DEF MutualExclusion, IInv
<1> QED
  BY <1>1, Inductive, PTL

(* Nor do calls with different keys ever wait for one another's ring. *)
THEOREM KeysAreApart == Spec => []KeysDoNotShareRings
<1>1. IInv => KeysDoNotShareRings
  <2> SUFFICES ASSUME IInv, ~raced, NEW c \in Call, NEW d \in Call,
                      ring[c] # None, ring[c] = ring[d]
               PROVE  key[c] = key[d]
    BY DEF KeysDoNotShareRings
  <2>1. key[c] \in Key /\ key[d] \in Key
    BY DEF IInv, WellPlaced, UsingRing
  <2> QED
    BY <2>1 DEF IInv, RingIsOfKey, RingsAreDistinct
<1> QED
  BY <1>1, Inductive, PTL

-----------------------------------------------------------------------------

Held == KeyAt({"action"})
Left == KeyAt({"takeOut", "putBack", "leave"})
Gone == {c \in Call : outcome[c] = "ringGone"}

(* A step of a call moves its own key only. *)
LEMMA KeyMoves ==
  ASSUME TypeOK, NEW c \in Call, NEW from, NEW to, Goto(c, from, to), UNCHANGED <<key, outer>>
  PROVE  /\ Held' = [Held EXCEPT ![c] = IF to = "action" /\ outer[c] = None
                                        THEN key[c] ELSE None]
         /\ Left' = [Left EXCEPT ![c] = IF /\ to \in {"takeOut", "putBack", "leave"}
                                           /\ outer[c] = None
                                        THEN key[c] ELSE None]
         /\ Held[c] = IF from = "action" /\ outer[c] = None THEN key[c] ELSE None
         /\ Left[c] = IF from \in {"takeOut", "putBack", "leave"} /\ outer[c] = None
                      THEN key[c] ELSE None
  BY DEF Held, Left, KeyAt, Goto, TypeOK

(* A new call holds nothing yet. *)
LEMMA StartHoldsNothing ==
  ASSUME TypeOK, NEW c \in Call, NEW k \in Key, Start(c, k),
         NEW d, outer' = [outer EXCEPT ![c] = d]
  PROVE  Held' = Held /\ Left' = Left
<1>1. \A e \in Call : e # c => pc'[e] = pc[e] /\ key'[e] = key[e] /\ outer'[e] = outer[e]
  BY DEF Start, Goto, TypeOK
<1>2. pc[c] = "idle" /\ pc'[c] = "enter"
  BY DEF Start, Goto, TypeOK
<1> QED
  BY <1>1, <1>2 DEF Held, Left, KeyAt

(* Before the first race, a call of a key that has a hat in the key's ring  *)
(* is counted among those inside it.                                        *)
LEMMA OneInside ==
  ASSUME IInv, ~raced, NEW c \in Call, pc[c] = "takeOut", hats[ring[c]] = 1,
         NEW d \in Call, pc[d] \in {"wait", "action", "takeOut"}, key[d] = key[c]
  PROVE  d = c
<1>1. ring[c] \in Ring /\ ring[d] = ring[c]
  BY DEF IInv, TypeOK, WellPlaced, UsingRing, RingIsOfKey
<1>2. c \in Inside(ring[c]) /\ d \in Inside(ring[c])
  BY <1>1 DEF Inside
<1>3. Cardinality(Inside(ring[c])) = 1
  BY <1>1 DEF IInv, HatsAreCounted
<1> QED
  BY <1>2, <1>3, InsideIsFinite, FS_Singleton

(* Only a call of its own key can be leaving when a call takes the last hat *)
(* out, and nobody is in an action of the key.                              *)
LEMMA RaceIsOfOneKey ==
  ASSUME IInv, ~raced, NEW c \in Call, TakeOut(c), hats[ring[c]] = 1,
         NEW d \in Call, d \in Leaving(ring[c])
  PROVE  /\ key[c] \in Key /\ key[d] = key[c] /\ d # c
         /\ outer[c] = None /\ outer[d] = None
         /\ \A e \in Call : ~(pc[e] = "action" /\ key[e] = key[c])
<1> USE CallAssumption, NoneAssumption
<1>0. pc[c] = "takeOut" /\ TypeOK
  BY DEF TakeOut, Goto, IInv
<1>1. key[c] \in Key /\ key[d] \in Key /\ ring[d] = ring[c] /\ ring[c] # None
  BY <1>0 DEF IInv, WellPlaced, Leaving, UsingRing
<1>2. key[d] = key[c]
  BY <1>1 DEF IInv, RingIsOfKey, RingsAreDistinct
<1>3. d # c
  BY <1>0 DEF Leaving
<1>4. ASSUME NEW e \in Call, pc[e] = "action", key[e] = key[c] PROVE FALSE
  BY <1>0, <1>4, OneInside
<1>5. ASSUME NEW e \in {c, d}, outer[e] # None PROVE FALSE
  <2>1. outer[e] \in Call /\ pc[e] # "done"
    BY <1>0, <1>5 DEF TypeOK, Leaving
  <2>2. pc[outer[e]] = "action" /\ key[e] = key[outer[e]]
    BY <1>5, <2>1 DEF IInv, WellNested
  <2> QED
    BY <1>2, <1>4, <1>5, <2>1, <2>2
<1> QED
  BY <1>1, <1>2, <1>3, <1>4, <1>5

(* Before the first race, the lock of a key is free for whoever enters its  *)
(* action and is not called from another.                                   *)
LEMMA EntersFreeKey ==
  ASSUME IInv, ~raced, NEW c \in Call, LockRing(c), outer[c] = None,
         NEW d \in Call, pc[d] = "action"
  PROVE  key[d] # key[c]
<1> SUFFICES ASSUME key[d] = key[c] PROVE FALSE
  OBVIOUS
<1>1. ring[d] = ring[c]
  BY DEF IInv, WellPlaced, UsingRing, RingIsOfKey, LockRing, Goto
<1>2. owner[ring[c]] = None
  BY DEF LockRing
<1> QED
  BY <1>1, <1>2, CallAssumption DEF IInv, LockIsHeld

(* A step of the locker is a step of the lock, or none. *)
LEMMA StepImplements ==
  ASSUME IInv, [Next]_vars
  PROVE  [Lock!Next]_(Lock!lockVars)
<1> USE CallAssumption, NoneAssumption
<1> DEFINE Nothing == UNCHANGED <<Held, Left, raced>> /\ Gone' \subseteq Gone
<1>0. TypeOK /\ Held \in [Call -> Key \union {None}] /\ Left \in [Call -> Key \union {None}]
  BY DEF IInv, TypeOK, Held, Left, KeyAt
<1>1. Nothing => Lock!Next
  BY DEF Lock!Next, Lock!ThrowsOnlyIfRaced, Held, Left, Gone
<1>2. ASSUME NEW c \in Call,
             NullAction(c) \/ NullKey(c) \/ RunUnlocked(c) \/ EnterUsedRing(c)
               \/ EnterUnusedRing(c) \/ EnterNewRing(c) \/ PutBack(c)
      PROVE  Nothing
  <2>1. UNCHANGED <<key, outer, raced>> /\ Gone' \subseteq Gone
    BY <1>0, <1>2 DEF NullAction, NullKey, RunUnlocked, EnterUsedRing, EnterUnusedRing,
       EnterNewRing, PutBack, Gone, TypeOK
  <2>2. \E from, to :
          /\ Goto(c, from, to) /\ from # "action" /\ to # "action"
          /\ from \in {"takeOut", "putBack", "leave"} <=> to \in {"takeOut", "putBack", "leave"}
    BY <1>2 DEF NullAction, NullKey, RunUnlocked, EnterUsedRing, EnterUnusedRing,
       EnterNewRing, PutBack
  <2> QED
    BY <1>0, <2>1, <2>2, KeyMoves
<1>3. ASSUME NEW c \in Call, NEW k \in Key, Start(c, k),
             NEW d, outer' = [outer EXCEPT ![c] = d]
      PROVE  Nothing
  <2>1. UNCHANGED raced /\ Gone' \subseteq Gone
    BY <1>3 DEF Start, Gone
  <2> QED
    BY <1>0, <1>3, <2>1, StartHoldsNothing
<1>4. ASSUME NEW c \in Call, LockRing(c) PROVE Lock!Next
  <2>1. Goto(c, "wait", "action") /\ UNCHANGED <<key, outer, raced>> /\ Gone' = Gone
    BY <1>4 DEF LockRing, Gone
  <2>2. key[c] \in Key /\ Held[c] = None /\ Left[c] = None
    BY <1>0, <2>1, KeyMoves DEF IInv, WellPlaced, UsingRing, Goto
  <2>3. CASE outer[c] # None
    <3>1. Nothing
      BY <1>0, <2>1, <2>2, <2>3, KeyMoves
    <3> QED
      BY <1>1, <3>1
  <2>4. CASE outer[c] = None
    <3>1. raced \/ \A d \in Call : Held[d] # key[c]
      BY <1>4, <2>2, <2>4, EntersFreeKey DEF Held, KeyAt
    <3>2. Held' = [Held EXCEPT ![c] = key[c]] /\ Left' = Left
      BY <1>0, <2>1, <2>2, <2>4, KeyMoves
    <3>3. Lock!Enter(c, key[c])
      BY <2>1, <2>2, <3>1, <3>2 DEF Lock!Enter, Lock!IsFree, Held, Left
    <3> QED
      BY <2>1, <2>2, <3>3 DEF Lock!Next, Lock!ThrowsOnlyIfRaced, Gone
  <2> QED
    BY <2>3, <2>4
<1>5. ASSUME NEW c \in Call, ActionEnds(c) PROVE Lock!Next
  <2>1. Goto(c, "action", "takeOut") /\ UNCHANGED <<key, outer, raced>> /\ Gone' \subseteq Gone
    BY <1>0, <1>5 DEF ActionEnds, Gone, TypeOK
  <2>2. key[c] \in Key
    BY <2>1 DEF IInv, WellPlaced, UsingRing, Goto
  <2>3. CASE outer[c] # None
    <3>1. Nothing
      BY <1>0, <2>1, <2>3, KeyMoves
    <3> QED
      BY <1>1, <3>1
  <2>4. CASE outer[c] = None
    <3>1. /\ Held[c] = key[c] /\ Held' = [Held EXCEPT ![c] = None]
          /\ Left' = [Left EXCEPT ![c] = key[c]]
      BY <1>0, <2>1, <2>4, KeyMoves
    <3>2. Lock!Exit(c)
      BY <2>1, <2>2, <3>1 DEF Lock!Exit, Held, Left
    <3> QED
      BY <2>1, <3>2 DEF Lock!Next, Lock!ThrowsOnlyIfRaced, Gone
  <2> QED
    BY <2>3, <2>4
<1>6. ASSUME NEW c \in Call, TakeOut(c) PROVE Lock!Next
  <2>1. /\ Goto(c, "takeOut", "putBack") /\ UNCHANGED <<key, outer>> /\ Gone' = Gone
        /\ raced' = (raced \/ (hats[ring[c]] = 1 /\ Leaving(ring[c]) # {}))
    BY <1>6 DEF TakeOut, Gone
  <2>2. Held' = Held /\ Left' = Left
    BY <1>0, <2>1, KeyMoves
  <2>3. CASE raced' = raced
    BY <1>1, <2>1, <2>2, <2>3
  <2>4. CASE raced' # raced
    <3>1. ~raced /\ raced' = TRUE /\ hats[ring[c]] = 1 /\ Leaving(ring[c]) # {}
      BY <1>0, <2>1, <2>4 DEF TypeOK
    <3>2. PICK d \in Call : d \in Leaving(ring[c])
      BY <3>1 DEF Leaving
    <3>3. /\ key[c] \in Key /\ key[d] = key[c] /\ d # c
          /\ outer[c] = None /\ outer[d] = None
          /\ \A e \in Call : ~(pc[e] = "action" /\ key[e] = key[c])
      BY <1>6, <3>1, <3>2, RaceIsOfOneKey
    <3>4. Left[c] = key[c] /\ Left[d] = key[c] /\ \A e \in Call : Held[e] # key[c]
      BY <2>1, <3>2, <3>3 DEF Left, Held, KeyAt, Leaving, Goto
    <3>5. Lock!Race(key[c])
      BY <2>2, <3>1, <3>3, <3>4 DEF Lock!Race, Lock!IsFree, Held, Left
    <3> QED
      BY <2>1, <3>3, <3>5 DEF Lock!Next, Lock!ThrowsOnlyIfRaced, Gone
  <2> QED
    BY <2>3, <2>4
<1>7. ASSUME NEW c \in Call, LeaveOthersInside(c) \/ LeaveLast(c) \/ LeaveRingGone(c)
      PROVE  Lock!Next
  <2>1. Goto(c, "leave", "done") /\ UNCHANGED <<key, outer, raced>>
    BY <1>7 DEF LeaveOthersInside, LeaveLast, LeaveRingGone
  <2>2. key[c] \in Key /\ ring[c] \in Ring
    BY <1>0, <2>1 DEF IInv, WellPlaced, UsingRing, Goto, TypeOK
  <2>3. raced \/ Gone' \subseteq Gone
    <3>1. CASE LeaveRingGone(c)
      BY <2>1, <2>2, <3>1 DEF LeaveRingGone, IInv, RingIsOfKey
    <3>2. CASE LeaveOthersInside(c) \/ LeaveLast(c)
      BY <3>2 DEF LeaveOthersInside, LeaveLast, Gone
    <3> QED
      BY <1>7, <3>1, <3>2
  <2>4. CASE outer[c] # None
    <3>1. Held' = Held /\ Left' = Left
      BY <1>0, <2>1, <2>4, KeyMoves
    <3> QED
      BY <2>1, <2>3, <3>1 DEF Lock!Next, Lock!ThrowsOnlyIfRaced, Held, Left, Gone
  <2>5. CASE outer[c] = None
    <3>1. Held' = Held /\ Left[c] = key[c] /\ Left' = [Left EXCEPT ![c] = None]
      BY <1>0, <2>1, <2>5, KeyMoves
    <3>2. Lock!Depart(c)
      BY <2>1, <2>2, <3>1 DEF Lock!Depart, Held, Left
    <3> QED
      BY <2>1, <2>3, <3>2 DEF Lock!Next, Lock!ThrowsOnlyIfRaced, Gone
  <2> QED
    BY <2>4, <2>5
<1>8. CASE UNCHANGED vars
  <2>1. Nothing
    BY <1>8 DEF vars, Held, Left, Gone, KeyAt
  <2> QED
    BY <1>1, <2>1
<1>9. CASE Next
  <2> HIDE DEF Nothing
  <2>1. ASSUME NEW c \in Call, NullAction(c) \/ NullKey(c) \/ Step(c) PROVE Lock!Next
    BY <1>1, <1>2, <1>4, <1>5, <1>6, <1>7, <2>1 DEF Step
  <2>2. ASSUME NEW c \in Call, NEW k \in Key, DoLocked(c, k) PROVE Lock!Next
    <3>1. outer' = [outer EXCEPT ![c] = outer[c]]
      BY <1>0, <2>2 DEF DoLocked, TypeOK
    <3> QED
      BY <1>1, <1>3, <2>2, <3>1 DEF DoLocked
  <2>3. ASSUME NEW c \in Call, NEW d \in Call, DoLockedAgain(c, d) PROVE Lock!Next
    <3>1. key[d] \in Key
      BY <2>3 DEF IInv, WellPlaced, UsingRing, DoLockedAgain
    <3> QED
      BY <1>1, <1>3, <2>3, <3>1 DEF DoLockedAgain
  <2> QED
    BY <1>9, <2>1, <2>2, <2>3 DEF Next
<1> QED
  BY <1>8, <1>9

(* Rings, hats and reentrance make a lock for each key, up to the first     *)
(* race (Locker.cs 47-110), for any number of calls, keys and rings.        *)
THEOREM KeyLocksRefinement == Spec => ImplementsKeyLocks
<1>1. Init => Lock!Init
  BY DEF Init, Lock!Init, KeyAt
<1> QED
  BY <1>1, StepImplements, Inductive, PTL DEF Spec, ImplementsKeyLocks, Lock!Spec

-----------------------------------------------------------------------------

(* The rack has what the most calls at one time had, less what calls have   *)
(* now.                                                                     *)
RackIsRest == rack + Cardinality(HasHat) = busiest

LEMMA HasHatIsFinite == IsFiniteSet(HasHat) /\ Cardinality(HasHat) \in Nat
BY CallAssumption, FS_Subset, FS_CardinalityType DEF HasHat

(* A call takes a hat from the rack, or a new one if all are in use.        *)
LEMMA StartRack ==
  ASSUME TypeOK, RackIsRest, NEW c \in Call, NEW k \in Key, Start(c, k)
  PROVE  RackIsRest'
<1>1. c \notin HasHat /\ HasHat' = HasHat \union {c}
  BY DEF Start, Goto, HasHat, TypeOK
<1>2. Cardinality(HasHat') = Cardinality(HasHat) + 1
  BY <1>1, HasHatIsFinite, FS_AddElement
<1>3. rack \in Nat /\ busiest = rack + Cardinality(HasHat)
  BY DEF TypeOK, RackIsRest
<1>4. /\ rack' = IF rack > 0 THEN rack - 1 ELSE 0
      /\ busiest' = IF busiest < Cardinality(HasHat) + 1 THEN Cardinality(HasHat) + 1
                                                         ELSE busiest
  BY DEF Start, Larger
<1>5. rack' + (Cardinality(HasHat) + 1) = busiest'
  BY <1>3, <1>4, HasHatIsFinite
<1> QED
  BY <1>2, <1>5 DEF RackIsRest

LEMMA PutBackRack ==
  ASSUME TypeOK, RackIsRest, NEW c \in Call, PutBack(c)
  PROVE  RackIsRest'
<1>1. c \in HasHat /\ HasHat' = HasHat \ {c}
  BY DEF PutBack, Goto, HasHat, TypeOK
<1>2. Cardinality(HasHat') = Cardinality(HasHat) - 1
  BY <1>1, HasHatIsFinite, FS_RemoveElement
<1>3. rack' = rack + 1 /\ busiest' = busiest /\ rack \in Nat
  BY DEF PutBack, TypeOK
<1> QED
  BY <1>2, <1>3, HasHatIsFinite DEF RackIsRest

(* Nothing else moves a hat to or from the rack.                            *)
LEMMA OtherRack ==
  ASSUME TypeOK, RackIsRest, NEW c \in Call,
         \/ NullAction(c) \/ NullKey(c) \/ RunUnlocked(c)
         \/ EnterUsedRing(c) \/ EnterUnusedRing(c) \/ EnterNewRing(c)
         \/ LockRing(c) \/ ActionEnds(c) \/ TakeOut(c)
         \/ LeaveOthersInside(c) \/ LeaveLast(c) \/ LeaveRingGone(c)
  PROVE  RackIsRest'
<1>1. rack' = rack /\ busiest' = busiest
  BY DEF NullAction, NullKey, RunUnlocked, EnterUsedRing, EnterUnusedRing, EnterNewRing,
     LockRing, ActionEnds, TakeOut, LeaveOthersInside, LeaveLast, LeaveRingGone
<1>2. \E from, to :
        /\ pc[c] = from /\ pc' = [pc EXCEPT ![c] = to]
        /\ from \in {"enter", "wait", "action", "takeOut", "putBack"}
           <=> to \in {"enter", "wait", "action", "takeOut", "putBack"}
  BY DEF NullAction, NullKey, RunUnlocked, EnterUsedRing, EnterUnusedRing, EnterNewRing,
     LockRing, ActionEnds, TakeOut, LeaveOthersInside, LeaveLast, LeaveRingGone, Goto
<1>3. HasHat' = HasHat
  BY <1>2 DEF HasHat, TypeOK
<1> QED
  BY <1>1, <1>3 DEF RackIsRest

LEMMA RackInductive == Spec => []RackIsRest
<1>1. Init => RackIsRest
  <2> SUFFICES ASSUME Init PROVE RackIsRest
    OBVIOUS
  <2>1. HasHat = {}
    BY DEF Init, HasHat
  <2> QED
    BY <2>1, FS_EmptySet DEF Init, RackIsRest
<1>2. IInv /\ RackIsRest /\ [Next]_vars => RackIsRest'
  <2> SUFFICES ASSUME IInv, RackIsRest, [Next]_vars PROVE RackIsRest'
    OBVIOUS
  <2> TypeOK
    BY DEF IInv
  <2>1. ASSUME NEW c \in Call, NEW k \in Key, DoLocked(c, k) PROVE RackIsRest'
    BY <2>1, StartRack DEF DoLocked
  <2>2. ASSUME NEW c \in Call, NEW d \in Call, DoLockedAgain(c, d) PROVE RackIsRest'
    <3>1. key[d] \in Key
      BY <2>2 DEF IInv, WellPlaced, UsingRing, DoLockedAgain
    <3> QED
      BY <2>2, <3>1, StartRack DEF DoLockedAgain
  <2>3. ASSUME NEW c \in Call, NullAction(c) \/ NullKey(c) \/ Step(c) PROVE RackIsRest'
    BY <2>3, PutBackRack, OtherRack DEF Step
  <2>4. CASE UNCHANGED vars
    BY <2>4 DEF vars, RackIsRest, HasHat
  <2> QED
    BY <2>1, <2>2, <2>3, <2>4 DEF Next
<1> QED
  BY <1>1, <1>2, Inductive, PTL DEF Spec

(* The hats of all rings are one for each call inside a ring.               *)
LEMMA HatsAddUp ==
  ASSUME TypeOK, HatsAreCounted, WellPlaced
  PROVE  SumFunction(hats) = Cardinality({c \in Call : pc[c] \in {"wait", "action", "takeOut"}})
<1> DEFINE In(S) == {c \in Call : pc[c] \in {"wait", "action", "takeOut"} /\ ring[c] \in S}
           m == [S \in SUBSET Ring |-> Cardinality(In(S))]
<1>1. \A S : IsFiniteSet(In(S)) /\ Cardinality(In(S)) \in Nat
  BY CallAssumption, FS_Subset, FS_CardinalityType
<1>2. m \in [SUBSET Ring -> Int]
  BY <1>1
<1>3. m[{}] = 0
  <2>1. In({}) = {}
    OBVIOUS
  <2> QED
    BY <2>1, FS_EmptySet
<1>4. ASSUME NEW S \in SUBSET Ring, NEW r \in S PROVE m[S] = hats[r] + m[S \ {r}]
  <2>1. In(S) = Inside(r) \union In(S \ {r}) /\ Inside(r) \cap In(S \ {r}) = {}
    BY DEF Inside
  <2>2. Cardinality(In(S)) = Cardinality(Inside(r)) + Cardinality(In(S \ {r}))
    <3> HIDE DEF In
    <3>1. Cardinality(Inside(r) \union In(S \ {r}))
            = Cardinality(Inside(r)) + Cardinality(In(S \ {r}))
              - Cardinality(Inside(r) \cap In(S \ {r}))
      BY <1>1, InsideIsFinite, FS_Union
    <3>2. Cardinality(Inside(r) \cap In(S \ {r})) = 0
      BY <2>1, FS_EmptySet
    <3>3. Cardinality(Inside(r)) \in Nat /\ Cardinality(In(S \ {r})) \in Nat
      BY <1>1, InsideIsFinite, FS_CardinalityType
    <3> QED
      BY <2>1, <3>1, <3>2, <3>3
  <2>3. hats[r] = Cardinality(Inside(r))
    BY DEF HatsAreCounted
  <2> HIDE DEF In
  <2> QED
    BY <2>2, <2>3
<1>5. In(Ring) = {c \in Call : pc[c] \in {"wait", "action", "takeOut"}}
  BY NoneAssumption DEF WellPlaced, UsingRing, TypeOK
<1>6. DOMAIN hats = Ring
  BY DEF TypeOK
<1>7. SumFunction(hats) = m[Ring]
  <2> HIDE DEF m
  <2>1. \A S \in SUBSET Ring : \A r \in S : m[S] = hats[r] + m[S \ {r}]
    BY <1>4
  <2>2. AddsUp(m, hats, Ring)
    BY <1>2, <1>3, <1>6, <2>1 DEF AddsUp
  <2> QED
    BY <2>2, RingAssumption, SumAddsUp
<1> QED
  BY <1>5, <1>7

(* Every hat ever made is in the rack, in a ring or in a call's hands, and  *)
(* there are no more of them than calls that were in DoLocked at one time   *)
(* (Locker.cs 31, 49, 91-94).  It takes no exclusion, so calls that raced   *)
(* lose no hat either.                                                      *)
THEOREM NoHatIsLost == Spec => []HatsAreConserved
<1>1. IInv /\ RackIsRest => HatsAreConserved
  <2> SUFFICES ASSUME IInv, RackIsRest PROVE HatsAreConserved
    OBVIOUS
  <2> DEFINE A == {c \in Call : pc[c] \in {"wait", "action", "takeOut"}}
             B == {c \in Call : pc[c] \in {"enter", "putBack"}}
  <2>1. HasHat = A \union B /\ A \cap B = {}
    BY DEF HasHat
  <2>2. IsFiniteSet(A) /\ IsFiniteSet(B)
    BY CallAssumption, FS_Subset
  <2>3. SumFunction(hats) = Cardinality(A)
    BY HatsAddUp DEF IInv
  <2> HIDE DEF A, B
  <2>4. Cardinality(A \union B) = Cardinality(A) + Cardinality(B) - Cardinality(A \cap B)
    BY <2>2, FS_Union
  <2>5. Cardinality(A) \in Nat /\ Cardinality(B) \in Nat /\ Cardinality(A \cap B) = 0
    BY <2>1, <2>2, FS_CardinalityType, FS_EmptySet
  <2>6. rack \in Nat
    BY DEF IInv, TypeOK
  <2>7. rack + SumFunction(hats) + Cardinality(B) = busiest
    BY <2>1, <2>3, <2>4, <2>5, <2>6 DEF RackIsRest
  <2> QED
    BY <2>7 DEF HatsAreConserved, B
<1> QED
  BY <1>1, Inductive, RackInductive, PTL

=============================================================================
