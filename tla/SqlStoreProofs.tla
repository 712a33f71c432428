---------------------------- MODULE SqlStoreProofs ----------------------------
(***************************************************************************)
(* Proofs about SqlStore, for any number of requests, identifiers and      *)
(* connections: its inductive invariant, and the safety of its tables,     *)
(* answers and connections, which follow from it.                          *)
(***************************************************************************)
EXTENDS SqlStore, TLAPS

LEMMA InitInv == Init => IInv
<1> SUFFICES ASSUME Init PROVE IInv
  OBVIOUS
<1> USE DEF Init
<1>1. TypeOK
  BY DEF TypeOK, PC, Reply
<1>2. ConnectionsAreUsed
  BY DEF ConnectionsAreUsed, Working, Recording
<1>3. IdsAreUnique /\ UncommittedAreOwned
  BY NoneAssumption DEF IdsAreUnique, UncommittedAreOwned
<1>4. RequestsAreFresh /\ PostsKnowTheirId /\ LocationsAreCommitted
  BY DEF RequestsAreFresh, PostsKnowTheirId, LocationsAreCommitted
<1>5. NoIdentifierAlone /\ PostsAreStored /\ ReadsAreRight /\ ErrorsAreRecorded
  BY DEF NoIdentifierAlone, PostsAreStored, ReadsAreRight, ErrorsAreRecorded, Succeeded
<1> QED
  BY <1>1, <1>2, <1>3, <1>4, <1>5 DEF IInv

(* The rows that the join finds for an identifier are those posted for it. *)
LEMMA RowsAreOfHex ==
  ASSUME IInv, NEW h \in Hex
  PROVE  RowsOf(h) = {p \in Request : locations[p] # 0 /\ hex[p] = h}
BY DEF IInv, TypeOK, RequestsAreFresh, LocationsAreCommitted, IdsAreUnique, RowsOf

-----------------------------------------------------------------------------
(* What the two ends of a transaction do to the tables. *)

(* A rollback takes away what r inserted, and nothing that was committed. *)
LEMMA RollbackInv ==
  ASSUME IInv, NEW r \in Request, Rollback(r), NEW to \in {"done", "handle", "hung", "abandon"},
         pc' = [pc EXCEPT ![r] = to], UNCHANGED <<hex, got, seen, acked>>
  PROVE  /\ idOf' \in [Hex -> Nat]
         /\ insertedBy' \in [Hex -> Request \union {None}]
         /\ UNCHANGED <<nextId, locations, exceptions>>
         /\ IdsAreUnique' /\ UncommittedAreOwned' /\ PostsKnowTheirId'
         /\ LocationsAreCommitted' /\ NoIdentifierAlone'
         /\ \A h \in Hex : RowsOf(h)' = RowsOf(h)
<1> USE NoneAssumption DEF IInv, TypeOK, Rollback
<1>1. idOf' \in [Hex -> Nat] /\ insertedBy' \in [Hex -> Request \union {None}]
  OBVIOUS
<1>2. UNCHANGED <<nextId, locations, exceptions>>
  OBVIOUS
<1>3. IdsAreUnique'
  BY DEF IdsAreUnique
<1>4. UncommittedAreOwned'
  BY DEF UncommittedAreOwned
<1>5. PostsKnowTheirId'
  BY DEF PostsKnowTheirId, RequestsAreFresh
<1>6. LocationsAreCommitted'
  BY DEF LocationsAreCommitted, RequestsAreFresh
<1>7. \A h \in Hex : RowsOf(h)' = RowsOf(h)
  BY DEF RowsOf, LocationsAreCommitted, RequestsAreFresh, IdsAreUnique
<1>8. NoIdentifierAlone'
  BY <1>7 DEF NoIdentifierAlone, UncommittedAreOwned
<1> QED
  BY <1>1, <1>2, <1>3, <1>4, <1>5, <1>6, <1>7, <1>8

(* A commit makes r's identifier and its location visible together. *)
LEMMA CommitInv ==
  ASSUME IInv, NEW r \in Request, pc[r] = "commit", CommitRows(r),
         NEW to \in {"dispose", "abandon"},
         pc' = [pc EXCEPT ![r] = to], UNCHANGED <<hex, got, seen, acked>>
  PROVE  /\ insertedBy' \in [Hex -> Request \union {None}]
         /\ locations' \in [Request -> Nat]
         /\ UNCHANGED <<idOf, nextId, exceptions>>
         /\ IdsAreUnique' /\ UncommittedAreOwned' /\ PostsKnowTheirId'
         /\ LocationsAreCommitted' /\ NoIdentifierAlone'
         /\ locations'[r] # 0
         /\ \A h \in Hex : RowsOf(h) \subseteq RowsOf(h)'
<1> USE NoneAssumption DEF IInv, TypeOK, CommitRows
<1>1. insertedBy' \in [Hex -> Request \union {None}] /\ locations' \in [Request -> Nat]
  OBVIOUS
<1>2. UNCHANGED <<idOf, nextId, exceptions>>
  OBVIOUS
<1>3. hex[r] \in Hex /\ got[r] # 0 /\ got[r] = idOf[hex[r]] /\ insertedBy[hex[r]] \in {None, r}
  BY DEF PostsKnowTheirId, RequestsAreFresh
<1>4. IdsAreUnique' /\ UncommittedAreOwned'
  BY DEF IdsAreUnique, UncommittedAreOwned
<1>5. PostsKnowTheirId'
  BY DEF PostsKnowTheirId, RequestsAreFresh
<1>6. LocationsAreCommitted'
  BY <1>3 DEF LocationsAreCommitted, RequestsAreFresh
<1>7. locations'[r] # 0
  BY <1>3
<1>8. \A h \in Hex : RowsOf(h) \subseteq RowsOf(h)'
  BY <1>3 DEF RowsOf, LocationsAreCommitted
<1>9. NoIdentifierAlone'
  <2> SUFFICES ASSUME NEW h \in Hex, idOf[h] # 0, insertedBy'[h] = None
               PROVE  RowsOf(h)' # {}
    BY DEF NoIdentifierAlone
  <2>1. CASE insertedBy[h] = r
    <3>1. hex[r] = h
      BY <2>1 DEF UncommittedAreOwned
    <3>2. r \in RowsOf(h)'
      BY <1>3, <3>1 DEF RowsOf
    <3> QED
      BY <3>2
  <2>2. CASE insertedBy[h] = None
    BY <2>2, <1>8 DEF NoIdentifierAlone
  <2> QED
    BY <2>1, <2>2
<1> QED
  BY <1>1, <1>2, <1>4, <1>5, <1>6, <1>7, <1>8, <1>9

(* The end of a using block closes its request's transaction and no other. *)
LEMMA CloseKeepsConnections ==
  ASSUME TypeOK, ConnectionsAreUsed, NEW r \in Request, pc[r] \in {"dispose", "abandon"},
         NEW to \in {"done", "handle"}, pc' = [pc EXCEPT ![r] = to], Close(r, "work")
  PROVE  ConnectionsAreUsed'
<1>1. pc'[r] = to /\ \A q \in Request : q # r => pc'[q] = pc[q]
  BY DEF TypeOK
<1>2. \A q \in Request : pc[q] \in PC
  BY DEF TypeOK
<1>3. SUFFICES ASSUME NEW q \in Request
               PROVE  /\ <<q, "work">> \in begun' <=> pc'[q] \in Working
                      /\ <<q, "error">> \in begun' <=> pc'[q] \in Recording
                      /\ <<q, "work">> \in open' => pc'[q] \notin {"idle", "connectToPost", "connectToRead"}
                      /\ <<q, "error">> \in open' => pc'[q] \in Recording \union {"done"}
  BY DEF ConnectionsAreUsed
<1>4. /\ <<q, "work">> \in open' <=> q # r /\ <<q, "work">> \in open
      /\ <<q, "work">> \in begun' <=> q # r /\ <<q, "work">> \in begun
      /\ <<q, "error">> \in open' <=> <<q, "error">> \in open
      /\ <<q, "error">> \in begun' <=> <<q, "error">> \in begun
  BY DEF Close
<1>5. CASE q = r
  BY <1>1, <1>4, <1>5 DEF ConnectionsAreUsed, Working, Recording
<1>6. CASE q # r
  BY <1>1, <1>4, <1>6 DEF ConnectionsAreUsed
<1> QED
  BY <1>5, <1>6

(* A commit, done or failed, leaves the connections as they are. *)
LEMMA CommitKeepsConnections ==
  ASSUME TypeOK, ConnectionsAreUsed, NEW r \in Request, pc[r] = "commit",
         NEW to \in {"dispose", "abandon"}, pc' = [pc EXCEPT ![r] = to], UNCHANGED connections
  PROVE  ConnectionsAreUsed'
<1>1. pc'[r] = to /\ \A q \in Request : q # r => pc'[q] = pc[q]
  BY DEF TypeOK
<1>2. open' = open /\ begun' = begun
  BY DEF connections
<1>3. \A q \in Request : /\ pc'[q] \in Working <=> pc[q] \in Working
                         /\ pc'[q] \in Recording <=> pc[q] \in Recording
                         /\ q = r => pc'[q] \in Working /\ pc[q] \in Working
  BY <1>1 DEF TypeOK, Working, Recording, PC
<1> QED
  BY <1>1, <1>2, <1>3 DEF ConnectionsAreUsed, Working, Recording

-----------------------------------------------------------------------------
(* The steps that preserve the invariant, by the part of a request they are *)
(* steps of.                                                                *)

(* The ends of a transaction: they leave to the lemmas above what they do   *)
(* to the tables.                                                           *)
LEMMA TransactionInv ==
  ASSUME IInv, NEW r \in Request,
         Dispose(r) \/ Abandon(r) \/ ReadBreaksOff(r) \/ Commit(r) \/ CommitFails(r)
  PROVE  IInv'
<1> USE DEF IInv
<1> DEFINE
  Tables == /\ idOf' \in [Hex -> Nat]
            /\ insertedBy' \in [Hex -> Request \union {None}]
            /\ locations' \in [Request -> Nat]
            /\ UNCHANGED <<nextId, exceptions>>
            /\ IdsAreUnique' /\ UncommittedAreOwned' /\ PostsKnowTheirId'
            /\ LocationsAreCommitted' /\ NoIdentifierAlone'
            /\ \A h \in Hex : RowsOf(h) \subseteq RowsOf(h)'
            /\ \A p \in Request : locations'[p] # locations[p] => p = r
            /\ locations[r] # 0 => locations'[r] # 0
<1>1. ASSUME UNCHANGED <<hex, got, seen, acked>>, Rollback(r),
             NEW to \in {"done", "handle", "hung", "abandon"}, pc' = [pc EXCEPT ![r] = to]
      PROVE  Tables
  BY <1>1, RollbackInv DEF TypeOK
<1>2. ASSUME UNCHANGED <<hex, got, seen, acked>>, CommitRows(r), pc[r] = "commit",
             NEW to \in {"dispose", "abandon"}, pc' = [pc EXCEPT ![r] = to]
      PROVE  Tables /\ locations'[r] # 0
  BY <1>2, CommitInv DEF TypeOK, CommitRows
<1> HIDE DEF Tables
<1>3. CASE Dispose(r)
  <2> USE <1>3 DEF Dispose, Answer, Goto, Close
  <2>1. Tables
    BY <1>1
  <2>2. TypeOK' /\ ConnectionsAreUsed'
    <3>1. TypeOK'
      BY <2>1 DEF Tables, TypeOK, PC, Reply
    <3>2. ConnectionsAreUsed'
      BY CloseKeepsConnections DEF Tables
    <3> QED
      BY <3>1, <3>2
  <2>3. RequestsAreFresh' /\ PostsAreStored' /\ ErrorsAreRecorded'
    BY <2>1 DEF Tables, TypeOK, RequestsAreFresh, PostsAreStored, ErrorsAreRecorded, Succeeded
  <2>4. ReadsAreRight'
    BY <2>1 DEF Tables, TypeOK, RequestsAreFresh, ReadsAreRight, Succeeded
  <2> QED
    BY <2>1, <2>2, <2>3, <2>4 DEF Tables
<1>4. CASE Abandon(r)
  <2> USE <1>4 DEF Abandon, Goto, Close
  <2>1. Tables
    BY <1>1
  <2>2. TypeOK' /\ ConnectionsAreUsed'
    <3>1. TypeOK'
      BY <2>1 DEF Tables, TypeOK, PC, Reply
    <3>2. ConnectionsAreUsed'
      BY CloseKeepsConnections DEF Tables
    <3> QED
      BY <3>1, <3>2
  <2>3. RequestsAreFresh' /\ PostsAreStored' /\ ErrorsAreRecorded'
    BY <2>1 DEF Tables, TypeOK, RequestsAreFresh, PostsAreStored, ErrorsAreRecorded, Succeeded
  <2>4. ReadsAreRight'
    BY <2>1 DEF Tables, TypeOK, RequestsAreFresh, ReadsAreRight, Succeeded
  <2> QED
    BY <2>1, <2>2, <2>3, <2>4 DEF Tables
<1>5. CASE ReadBreaksOff(r)
  <2> USE <1>5 DEF ReadBreaksOff, Goto, connections
  <2>1. Tables
    <3>1. CASE Rollback(r)
      BY <3>1, <1>1
    <3>2. CASE UNCHANGED tables
      <4> USE <3>2, NoneAssumption DEF tables, TypeOK
      <4>1. IdsAreUnique' /\ UncommittedAreOwned' /\ PostsKnowTheirId'
        BY DEF IdsAreUnique, UncommittedAreOwned, PostsKnowTheirId
      <4>2. LocationsAreCommitted' /\ NoIdentifierAlone'
        BY DEF LocationsAreCommitted, NoIdentifierAlone, RowsOf
      <4> QED
        BY <4>1, <4>2 DEF Tables, RowsOf
    <3> QED
      BY <3>1, <3>2
  <2>2. TypeOK' /\ ConnectionsAreUsed'
    <3>1. /\ pc[r] \in {"readId", "readRows"} /\ pc' = [pc EXCEPT ![r] = "hung"]
          /\ UNCHANGED <<connections, hex, got, seen, acked, reply>>
      OBVIOUS
    <3>2. TypeOK'
      BY <2>1, <3>1 DEF Tables, TypeOK, PC, Reply
    <3>3. ConnectionsAreUsed'
      BY <3>1 DEF TypeOK, ConnectionsAreUsed, Working, Recording, Connection, PC
    <3> QED
      BY <3>2, <3>3
  <2>3. RequestsAreFresh' /\ PostsAreStored' /\ ErrorsAreRecorded'
    BY <2>1 DEF Tables, TypeOK, RequestsAreFresh, PostsAreStored, ErrorsAreRecorded, Succeeded
  <2>4. ReadsAreRight'
    BY <2>1 DEF Tables, TypeOK, RequestsAreFresh, ReadsAreRight, Succeeded
  <2> QED
    BY <2>1, <2>2, <2>3, <2>4 DEF Tables
<1>6. CASE Commit(r)
  <2> USE <1>6 DEF Commit, Goto, connections
  <2>1. Tables /\ locations'[r] # 0
    BY <1>2
  <2>2. TypeOK' /\ ConnectionsAreUsed'
    <3>1. TypeOK'
      BY <2>1 DEF Tables, TypeOK, PC, Reply
    <3>2. ConnectionsAreUsed'
      BY CommitKeepsConnections DEF Tables
    <3> QED
      BY <3>1, <3>2
  <2>3. RequestsAreFresh' /\ PostsAreStored' /\ ErrorsAreRecorded'
    BY <2>1 DEF Tables, TypeOK, RequestsAreFresh, PostsAreStored, ErrorsAreRecorded, Succeeded
  <2>4. ReadsAreRight'
    BY <2>1 DEF Tables, TypeOK, PostsKnowTheirId, ReadsAreRight, RequestsAreFresh, Succeeded
  <2> QED
    BY <2>1, <2>2, <2>3, <2>4 DEF Tables
<1>7. CASE CommitFails(r)
  <2> USE <1>7 DEF CommitFails, Goto, connections
  <2>1. Tables
    BY <1>1, <1>2
  <2>2. TypeOK' /\ ConnectionsAreUsed'
    <3>1. TypeOK'
      BY <2>1 DEF Tables, TypeOK, PC, Reply
    <3>2. ConnectionsAreUsed'
      BY CommitKeepsConnections DEF Tables
    <3> QED
      BY <3>1, <3>2
  <2>3. RequestsAreFresh' /\ PostsAreStored' /\ ErrorsAreRecorded'
    BY <2>1 DEF Tables, TypeOK, RequestsAreFresh, PostsAreStored, ErrorsAreRecorded, Succeeded
  <2>4. ReadsAreRight'
    BY <2>1 DEF Tables, TypeOK, RequestsAreFresh, ReadsAreRight, Succeeded
  <2> QED
    BY <2>1, <2>2, <2>3, <2>4 DEF Tables
<1> QED
  BY <1>3, <1>4, <1>5, <1>6, <1>7

(* The steps of a post before its commit. *)
LEMMA PostInv ==
  ASSUME IInv, NEW r \in Request,
         \/ FindIdentifier(r) \/ MissIdentifier(r)
         \/ InsertIdentifier(r) \/ UniqueViolation(r)
         \/ ReadId(r) \/ InsertLocation(r)
  PROVE  IInv'
<1> USE NoneAssumption DEF IInv, TypeOK, PC, Reply, ConnectionsAreUsed, Working, Recording, Connection, IdsAreUnique,
      UncommittedAreOwned, RequestsAreFresh, PostsKnowTheirId, LocationsAreCommitted,
      NoIdentifierAlone, RowsOf, PostsAreStored, Succeeded, ReadsAreRight, ErrorsAreRecorded
<1> USE DEF Goto, tables, connections
<1>2. CASE FindIdentifier(r)
  BY <1>2 DEF FindIdentifier, HasToWait, SelectedId
<1>3. CASE MissIdentifier(r)
  BY <1>3 DEF MissIdentifier
<1>4. CASE InsertIdentifier(r)
  BY <1>4 DEF InsertIdentifier, InTransaction
<1>5. CASE UniqueViolation(r)
  BY <1>5 DEF UniqueViolation
<1>6. CASE ReadId(r)
  BY <1>6 DEF ReadId
<1>7. CASE InsertLocation(r)
  BY <1>7 DEF InsertLocation
<1> QED
  BY <1>2, <1>3, <1>4, <1>5, <1>6, <1>7

(* The steps of a read. *)
LEMMA GetInv ==
  ASSUME IInv, NEW r \in Request, GetStep(r)
  PROVE  IInv'
<1> USE NoneAssumption DEF IInv, TypeOK, PC, Reply, ConnectionsAreUsed, Working, Recording, Connection, IdsAreUnique,
      UncommittedAreOwned, RequestsAreFresh, PostsKnowTheirId, LocationsAreCommitted,
      NoIdentifierAlone, RowsOf, PostsAreStored, Succeeded, ReadsAreRight, ErrorsAreRecorded
<1> USE DEF Goto, tables, connections
<1>2. CASE SelectRows(r)
  BY <1>2 DEF SelectRows
<1>3. CASE ReadRows(r)
  BY <1>3 DEF ReadRows
<1> QED
  BY <1>2, <1>3 DEF GetStep

(* The handling of an error. *)
LEMMA HandleInv ==
  ASSUME IInv, NEW r \in Request, HandleStep(r)
  PROVE  IInv'
<1> USE NoneAssumption DEF IInv, TypeOK, PC, Reply, ConnectionsAreUsed, Working, Recording, Connection, IdsAreUnique,
      UncommittedAreOwned, RequestsAreFresh, PostsKnowTheirId, LocationsAreCommitted,
      NoIdentifierAlone, RowsOf, PostsAreStored, Succeeded, ReadsAreRight, ErrorsAreRecorded
<1> USE DEF Goto, tables, connections, Answer, Ironically, Close
<1>2. CASE HandlerCannotConnect(r)
  BY <1>2 DEF HandlerCannotConnect, Open
<1>3. CASE RecordError(r)
  BY <1>3 DEF RecordError
<1>4. CASE RecordFails(r)
  BY <1>4 DEF RecordFails
<1>5. CASE CommitError(r)
  BY <1>5 DEF CommitError
<1>6. CASE CommitErrorFails(r)
  BY <1>6 DEF CommitErrorFails
<1>7. CASE DisposeError(r)
  BY <1>7 DEF DisposeError
<1>8. CASE AbandonError(r)
  BY <1>8 DEF AbandonError
<1> QED
  BY <1>2, <1>3, <1>4, <1>5, <1>6, <1>7, <1>8 DEF HandleStep

(* Arrivals, and failures that change nothing but where the request is. *)
LEMMA ArrivalInv ==
  ASSUME IInv, NEW r \in Request,
         (\E h \in Hex : Post(r, h) \/ Get(r, h)) \/ StatementFails(r)
  PROVE  IInv'
<1> USE NoneAssumption DEF IInv, TypeOK, PC, Reply, ConnectionsAreUsed, Working, Recording, Connection, IdsAreUnique,
      UncommittedAreOwned, RequestsAreFresh, PostsKnowTheirId, LocationsAreCommitted,
      NoIdentifierAlone, RowsOf, PostsAreStored, Succeeded, ReadsAreRight, ErrorsAreRecorded
<1> USE DEF Goto, tables, connections
<1>1. ASSUME NEW h \in Hex, Post(r, h) PROVE IInv'
  BY <1>1 DEF Post
<1>2. ASSUME NEW h \in Hex, Get(r, h) PROVE IInv'
  BY <1>2 DEF Get
<1>3. CASE StatementFails(r)
  BY <1>3 DEF StatementFails
<1> QED
  BY <1>1, <1>2, <1>3

(* Connections, with a transaction or without.  *)
LEMMA ConnectInv ==
  ASSUME IInv,
         (\E r \in Request : Connect(r) \/ OpenFails(r) \/ BeginFails(r)) \/ Reclaim
  PROVE  IInv'
<1> USE NoneAssumption DEF IInv, TypeOK, PC, Reply, ConnectionsAreUsed, Working, Recording,
      Connection, IdsAreUnique, UncommittedAreOwned, RequestsAreFresh, PostsKnowTheirId,
      LocationsAreCommitted, NoIdentifierAlone, RowsOf, PostsAreStored, Succeeded,
      ReadsAreRight, ErrorsAreRecorded
<1> USE DEF Goto, tables, connections, Open
<1>1. ASSUME NEW r \in Request, Connect(r) PROVE IInv'
  <2>1. PICK p \in Purpose :
          /\ Goto(r, p[1], p[2])
          /\ Open(<<r, p[3]>>)
          /\ begun' = begun \union {<<r, p[3]>>}
    BY <1>1 DEF Connect
  <2>2. UNCHANGED <<tables, hex, got, seen, acked, reply>>
    BY <1>1 DEF Connect
  <2>3. CASE p = <<"connectToPost", "lookUp", "work">>
    BY <2>1, <2>2, <2>3
  <2>4. CASE p = <<"connectToRead", "select", "work">>
    BY <2>1, <2>2, <2>4
  <2>5. CASE p = <<"handle", "record", "error">>
    BY <2>1, <2>2, <2>5
  <2> QED
    BY <2>3, <2>4, <2>5 DEF Purpose
<1>2. ASSUME NEW r \in Request, OpenFails(r) PROVE IInv'
  BY <1>2 DEF OpenFails
<1>3. ASSUME NEW r \in Request, BeginFails(r) PROVE IInv'
  BY <1>3 DEF BeginFails
<1>4. CASE Reclaim
  BY <1>4 DEF Reclaim
<1> QED
  BY <1>1, <1>2, <1>3, <1>4

LEMMA NextInv == IInv /\ [Next]_vars => IInv'
<1> SUFFICES ASSUME IInv, [Next]_vars PROVE IInv'
  OBVIOUS
<1>1. CASE UNCHANGED vars
  BY <1>1 DEF IInv, TypeOK, ConnectionsAreUsed, IdsAreUnique, UncommittedAreOwned,
    RequestsAreFresh, PostsKnowTheirId, LocationsAreCommitted, NoIdentifierAlone, RowsOf,
    PostsAreStored, Succeeded, ReadsAreRight, ErrorsAreRecorded, vars, tables, connections
<1>2. ASSUME NEW r \in Request, Step(r) PROVE IInv'
  BY <1>2, TransactionInv, PostInv, GetInv, HandleInv, ArrivalInv, ConnectInv DEF Step, PostStep
<1>3. ASSUME NEW r \in Request, NEW h \in Hex, Post(r, h) \/ Get(r, h) PROVE IInv'
  BY <1>3, ArrivalInv
<1>4. ASSUME Reclaim PROVE IInv'
  BY <1>4, ConnectInv
<1> QED
  BY <1>1, <1>2, <1>3, <1>4 DEF Next

-----------------------------------------------------------------------------
(* The theorems. *)

(* The inductive invariant of the location store. *)
THEOREM Inductive == Spec => []IInv
BY InitInv, NextInv, PTL DEF Spec

(* The store's variables keep their types: identities are numbers, and a    *)
(* request has an answer exactly when it is done.                           *)
THEOREM TypeCorrect == Spec => []TypeOK
<1>1. IInv => TypeOK
  BY DEF IInv
<1> QED
  BY <1>1, Inductive, PTL

(* A location is found under the identifier it was posted for and no other, *)
(* whichever of several concurrent posts inserted the identifier.           *)
THEOREM LocationsAreRight == Spec => []LocationsBelong
<1>1. IInv => LocationsBelong
  <2> SUFFICES ASSUME IInv PROVE LocationsBelong
    OBVIOUS
  <2> QED
    BY RowsAreOfHex DEF LocationsBelong
<1> QED
  BY <1>1, Inductive, PTL

(* An identifier that others see has a location: the two inserts of a post  *)
(* are one to everybody else.                                               *)
THEOREM PostsAreAtomic == Spec => []NoIdentifierAlone
<1>1. IInv => NoIdentifierAlone
  BY DEF IInv
<1> QED
  BY <1>1, Inductive, PTL

(* A read has every location that was acknowledged before it began, and     *)
(* none of another identifier.                                              *)
THEOREM ReadsAreComplete == Spec => []ReadsAcknowledged
<1>1. IInv => ReadsAcknowledged
  <2> SUFFICES ASSUME IInv, NEW r \in Request, NEW p \in Request, reply[r] = "ok", got[r] = 0
               PROVE  /\ p \in acked[r] /\ got[p] # 0 /\ hex[p] = hex[r] => p \in seen[r]
                      /\ p \in seen[r] => hex[p] = hex[r]
    BY DEF ReadsAcknowledged
  <2>1. /\ seen[r] \subseteq RowsOf(hex[r])
        /\ \A q \in acked[r] : got[q] # 0 /\ hex[q] = hex[r] => q \in seen[r]
    BY DEF IInv, ReadsAreRight, Succeeded
  <2>2. hex[r] \in Hex
    BY DEF IInv, TypeOK, RequestsAreFresh
  <2> QED
    BY <2>1, <2>2, RowsAreOfHex
<1> QED
  BY <1>1, Inductive, PTL

(* A request whose error is being handled, or that has been answered, holds *)
(* neither a transaction nor a row, and of connections only those that no   *)
(* transaction could be begun on: for any size of the pool, nobody waits    *)
(* for a connection or a row while its own transaction is under way.        *)
THEOREM NothingStaysOpen == Spec => []LeavesNothingOpen
<1>1. IInv => LeavesNothingOpen
  BY DEF IInv, ConnectionsAreUsed, Working, Recording, Connection, UncommittedAreOwned, LeavesNothingOpen
<1> QED
  BY <1>1, Inductive, PTL

(* The ID that a client is told to report is recorded. *)
THEOREM ErrorsAreFound == Spec => []ReportedIsRecorded
<1>1. IInv => ReportedIsRecorded
  BY DEF IInv, ErrorsAreRecorded, ReportedIsRecorded
<1> QED
  BY <1>1, Inductive, PTL

=============================================================================
