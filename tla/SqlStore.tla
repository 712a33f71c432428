------------------------------- MODULE SqlStore -------------------------------
(***************************************************************************)
(* SQLDatabase: locations posted by LocationPoster and IdentifierPoster in *)
(* one Transaction, read by LocationProvider in another, and errors        *)
(* recorded by ErrorHandler in a third, for many requests at once.         *)
(*                                                                         *)
(* The database is SQL Server at READ COMMITTED, as BeginTransaction asks  *)
(* for: whoever touches a row that another transaction has inserted and    *)
(* not committed waits for it, and identifiers.hex is unique.  Statements, *)
(* commits and connections may fail, by timing out for one; each reaches   *)
(* the client as an exception.                                             *)
(*                                                                         *)
(* A result is read by an observable (AsyncExtensions.ToObservable) that   *)
(* has no handler for errors: a read that breaks off later than at once    *)
(* never opens the gate that ProcessResultsAsync waits for.                *)
(***************************************************************************)
EXTENDS Naturals, FiniteSets

CONSTANTS
  Request,   \* posts and reads of locations, each with its error handling
  Hex,       \* clients' identifiers
  PoolSize,  \* connections in the pool
  None

ASSUME PoolAssumption == PoolSize \in Nat \ {0} /\ IsFiniteSet(Request)
ASSUME NoneAssumption == None \notin Request \union Hex

VARIABLES
  idOf,        \* the table identifiers: the id of a hex, 0 when it has no row
  insertedBy,  \* whose uncommitted row that is, None when it is committed
  nextId,      \* the table's identity counter
  locations,   \* the table locations: the id that a request's row has, or 0
  exceptions,  \* the table exceptions: the requests whose error is in it
  open,        \* the connections that are out of the pool
  begun,       \* those of them that a transaction was begun on
  pc,
  hex,         \* hex[r]: the identifier r is about
  got,         \* got[r]: what PostOrGetIdentifierAsync returned to r
  seen,        \* seen[r]: the posts whose rows r has read
  acked,       \* history: acked[r], the posts answered before r began to read
  reply        \* reply[r]: "ok", or one of ErrorHandler's two messages

tables == <<idOf, insertedBy, nextId, locations, exceptions>>
connections == <<open, begun>>
vars   == <<tables, connections, pc, hex, got, seen, acked, reply>>

(* A request may have taken two connections, one for its own transaction    *)
(* and one to record its error.                                             *)
Connection == Request \X {"work", "error"}

PC == {"idle", "connectToPost", "lookUp", "insert", "readId", "insertLocation", "commit",
       "connectToRead", "select", "readRows", "dispose", "abandon", "hung",
       "handle", "record", "commitError", "disposeError", "abandonError", "done"}

Reply == {"none", "ok", "errorId", "ironically"}

TypeOK ==
  /\ idOf \in [Hex -> Nat]
  /\ insertedBy \in [Hex -> Request \union {None}]
  /\ nextId \in Nat
  /\ locations \in [Request -> Nat]
  /\ exceptions \in SUBSET Request
  /\ open \in SUBSET Connection
  /\ begun \in SUBSET open
  /\ pc \in [Request -> PC]
  /\ hex \in [Request -> Hex \union {None}]
  /\ got \in [Request -> Nat]
  /\ seen \in [Request -> SUBSET Request]
  /\ acked \in [Request -> SUBSET Request]
  /\ reply \in [Request -> Reply]
  /\ \A r \in Request : reply[r] # "none" <=> pc[r] = "done"

Init ==
  /\ idOf = [h \in Hex |-> 0]
  /\ insertedBy = [h \in Hex |-> None]
  /\ nextId = 1
  /\ locations = [r \in Request |-> 0]
  /\ exceptions = {}
  /\ open = {}
  /\ begun = {}
  /\ pc = [r \in Request |-> "idle"]
  /\ hex = [r \in Request |-> None]
  /\ got = [r \in Request |-> 0]
  /\ seen = [r \in Request |-> {}]
  /\ acked = [r \in Request |-> {}]
  /\ reply = [r \in Request |-> "none"]

Goto(r, from, to) ==
  /\ pc[r] = from
  /\ pc' = [pc EXCEPT ![r] = to]

-----------------------------------------------------------------------------
(* Transaction *)

(* Each time a request connects: where from, where to, and what for. *)
Purpose ==
  {<<"connectToPost", "lookUp", "work">>, <<"connectToRead", "select", "work">>,
   <<"handle", "record", "error">>}

Open(c) ==
  /\ Cardinality(open) < PoolSize
  /\ open' = open \union {c}

(* A connection from the pool, and a transaction on it. *)
Connect(r) ==
  /\ \E p \in Purpose :
       /\ Goto(r, p[1], p[2])
       /\ Open(<<r, p[3]>>)
       /\ begun' = begun \union {<<r, p[3]>>}
  /\ UNCHANGED <<tables, hex, got, seen, acked, reply>>

(* There is no connection to be had, or none in time. *)
OpenFails(r) ==
  /\ \E from \in {"connectToPost", "connectToRead"} : Goto(r, from, "handle")
  /\ UNCHANGED <<tables, connections, hex, got, seen, acked, reply>>

(* There is one, but no transaction can be begun on it.  The constructor    *)
(* throws; there is nothing to dispose of, and the connection stays open.   *)
BeginFails(r) ==
  /\ \E from \in {"connectToPost", "connectToRead"} : Goto(r, from, "handle")
  /\ Open(<<r, "work">>)
  /\ UNCHANGED <<tables, begun, hex, got, seen, acked, reply>>

(* It is the garbage collector that finds it, some time or never. *)
Reclaim ==
  /\ \E c \in open \ begun : open' = open \ {c}
  /\ UNCHANGED <<tables, begun, pc, hex, got, seen, acked, reply>>

(* Mutant: the transaction is not disposed of. *)
KeepRows(r) == UNCHANGED tables

(* What r inserted and did not commit is gone. *)
Rollback(r) ==
  /\ idOf' = [h \in Hex |-> IF insertedBy[h] = r THEN 0 ELSE idOf[h]]
  /\ insertedBy' = [h \in Hex |-> IF insertedBy[h] = r THEN None ELSE insertedBy[h]]
  /\ UNCHANGED <<nextId, locations, exceptions>>

(* Mutant: the connection is not given back. *)
KeepOpen(r, use) == UNCHANGED connections

Close(r, use) ==
  /\ open' = open \ {<<r, use>>}
  /\ begun' = begun \ {<<r, use>>}

Answer(r, from, what) ==
  /\ Goto(r, from, "done")
  /\ reply' = [reply EXCEPT ![r] = what]

(* The end of a using block that was left normally ... *)
Dispose(r) ==
  /\ Answer(r, "dispose", "ok")
  /\ Rollback(r)
  /\ Close(r, "work")
  /\ UNCHANGED <<hex, got, seen, acked>>

(* ... and of one that was left by an exception. *)
Abandon(r) ==
  /\ Goto(r, "abandon", "handle")
  /\ Rollback(r)
  /\ Close(r, "work")
  /\ UNCHANGED <<hex, got, seen, acked, reply>>

(* A statement fails, or the reading of its result fails at once. *)
StatementFails(r) ==
  /\ \E from \in {"lookUp", "insert", "readId", "insertLocation", "select", "readRows"} :
       Goto(r, from, "abandon")
  /\ UNCHANGED <<tables, connections, hex, got, seen, acked, reply>>

(* The reading breaks off later on.  The server may have rolled back (it    *)
(* lost the connection), or may not (the client's read timed out).          *)
ReadBreaksOff(r) ==
  /\ \E from \in {"readId", "readRows"} : Goto(r, from, "hung")
  /\ UNCHANGED tables \/ Rollback(r)
  /\ UNCHANGED <<connections, hex, got, seen, acked, reply>>

-----------------------------------------------------------------------------
(* LocationPoster.PostLocationAsync, IdentifierPoster.PostOrGetIdentifierAsync *)

Post(r, h) ==
  /\ Goto(r, "idle", "connectToPost")
  /\ hex' = [hex EXCEPT ![r] = h]
  /\ UNCHANGED <<tables, connections, got, seen, acked, reply>>

HasToWait(r) == insertedBy[hex[r]] \notin {None, r}

(* Mutant: the last identity, whoever it was generated for. *)
LastIdentity(r) == nextId - 1

SelectedId(r) == idOf[hex[r]]

(* The left join finds the identifier, nothing is inserted, and its id is   *)
(* selected: a committed row does not change.                               *)
FindIdentifier(r) ==
  /\ Goto(r, "lookUp", "readId")
  /\ ~HasToWait(r)
  /\ idOf[hex[r]] # 0
  /\ got' = [got EXCEPT ![r] = SelectedId(r)]
  /\ UNCHANGED <<tables, connections, hex, seen, acked, reply>>

(* It does not find it, and holds no lock on what is not there. *)
MissIdentifier(r) ==
  /\ Goto(r, "lookUp", "insert")
  /\ ~HasToWait(r)
  /\ idOf[hex[r]] = 0
  /\ UNCHANGED <<tables, connections, hex, got, seen, acked, reply>>

(* Mutant: the insert is in no transaction, and committed at once. *)
InNoTransaction(r) == None

InTransaction(r) == r

InsertIdentifier(r) ==
  /\ Goto(r, "insert", "readId")
  /\ idOf[hex[r]] = 0
  /\ idOf' = [idOf EXCEPT ![hex[r]] = nextId]
  /\ insertedBy' = [insertedBy EXCEPT ![hex[r]] = InTransaction(r)]
  /\ got' = [got EXCEPT ![r] = nextId]
  /\ nextId' = nextId + 1
  /\ UNCHANGED <<locations, exceptions, connections, hex, seen, acked, reply>>

(* Another transaction has inserted the same hex since, and committed. *)
UniqueViolation(r) ==
  /\ Goto(r, "insert", "abandon")
  /\ ~HasToWait(r)
  /\ idOf[hex[r]] # 0
  /\ UNCHANGED <<tables, connections, hex, got, seen, acked, reply>>

(* The observable yields the one row, and completes. *)
ReadId(r) ==
  /\ Goto(r, "readId", "insertLocation")
  /\ UNCHANGED <<tables, connections, hex, got, seen, acked, reply>>

(* The row is there for others when it is committed. *)
InsertLocation(r) ==
  /\ Goto(r, "insertLocation", "commit")
  /\ \E h \in Hex : idOf[h] = got[r]
  /\ UNCHANGED <<tables, connections, hex, got, seen, acked, reply>>

CommitRows(r) ==
  /\ insertedBy' = [h \in Hex |-> IF insertedBy[h] = r THEN None ELSE insertedBy[h]]
  /\ locations' = [locations EXCEPT ![r] = got[r]]
  /\ UNCHANGED <<idOf, nextId, exceptions>>

(* Mutant: the commit is left out. *)
NoCommit(r) ==
  /\ Goto(r, "commit", "dispose")
  /\ UNCHANGED <<tables, connections, hex, got, seen, acked, reply>>

Commit(r) ==
  /\ Goto(r, "commit", "dispose")
  /\ CommitRows(r)
  /\ UNCHANGED <<connections, hex, got, seen, acked, reply>>

(* An exception says nothing about what became of the commit. *)
CommitFails(r) ==
  /\ Goto(r, "commit", "abandon")
  /\ CommitRows(r) \/ Rollback(r)
  /\ UNCHANGED <<connections, hex, got, seen, acked, reply>>

-----------------------------------------------------------------------------
(* LocationProvider.GetAllLocationsAsync *)

Get(r, h) ==
  /\ Goto(r, "idle", "connectToRead")
  /\ hex' = [hex EXCEPT ![r] = h]
  /\ acked' = [acked EXCEPT ![r] = {p \in Request : reply[p] = "ok"}]
  /\ UNCHANGED <<tables, connections, got, seen, reply>>

(* The committed rows that the join of identifiers and locations gives h. *)
RowsOf(h) == {p \in Request : locations[p] # 0 /\ locations[p] = idOf[h]}

SelectRows(r) ==
  /\ Goto(r, "select", "readRows")
  /\ ~HasToWait(r)
  /\ seen' = [seen EXCEPT ![r] = RowsOf(hex[r])]
  /\ UNCHANGED <<tables, connections, hex, got, acked, reply>>

(* Rows committed while the result is read may be part of it. *)
ReadRows(r) ==
  /\ Goto(r, "readRows", "dispose")
  /\ \E more \in SUBSET RowsOf(hex[r]) : seen' = [seen EXCEPT ![r] = @ \union more]
  /\ UNCHANGED <<tables, connections, hex, got, acked, reply>>

-----------------------------------------------------------------------------
(* ErrorHandler.Handle *)

(* Mutant: the handler's own errors are handled, too. *)
HandleAgain(r, from) ==
  /\ Goto(r, from, "handle")
  /\ UNCHANGED reply

Ironically(r, from) == Answer(r, from, "ironically")

HandlerCannotConnect(r) ==
  /\ Ironically(r, "handle")
  /\ UNCHANGED connections \/ (Open(<<r, "error">>) /\ UNCHANGED begun)
  /\ UNCHANGED <<tables, hex, got, seen, acked>>

RecordError(r) ==
  /\ Goto(r, "record", "commitError")
  /\ UNCHANGED <<tables, connections, hex, got, seen, acked, reply>>

(* Mutant: the commit is left out. *)
LoseError(r) ==
  /\ Goto(r, "commitError", "disposeError")
  /\ UNCHANGED <<tables, connections, hex, got, seen, acked, reply>>

CommitError(r) ==
  /\ Goto(r, "commitError", "disposeError")
  /\ exceptions' = exceptions \union {r}
  /\ UNCHANGED <<idOf, insertedBy, nextId, locations, connections, hex, got, seen, acked, reply>>

RecordFails(r) ==
  /\ Goto(r, "record", "abandonError")
  /\ UNCHANGED <<tables, connections, hex, got, seen, acked, reply>>

CommitErrorFails(r) ==
  /\ Goto(r, "commitError", "abandonError")
  /\ exceptions' \in {exceptions, exceptions \union {r}}
  /\ UNCHANGED <<idOf, insertedBy, nextId, locations, connections, hex, got, seen, acked, reply>>

DisposeError(r) ==
  /\ Answer(r, "disposeError", "errorId")
  /\ Close(r, "error")
  /\ UNCHANGED <<tables, hex, got, seen, acked>>

AbandonError(r) ==
  /\ Ironically(r, "abandonError")
  /\ Close(r, "error")
  /\ UNCHANGED <<tables, hex, got, seen, acked>>

-----------------------------------------------------------------------------

PostStep(r) ==
  \/ FindIdentifier(r) \/ MissIdentifier(r)
  \/ InsertIdentifier(r) \/ UniqueViolation(r)
  \/ ReadId(r)
  \/ InsertLocation(r)
  \/ Commit(r) \/ CommitFails(r)

GetStep(r) ==
  \/ SelectRows(r)
  \/ ReadRows(r)

HandleStep(r) ==
  \/ HandlerCannotConnect(r)
  \/ RecordError(r) \/ RecordFails(r)
  \/ CommitError(r) \/ CommitErrorFails(r)
  \/ DisposeError(r) \/ AbandonError(r)

Step(r) ==
  \/ PostStep(r) \/ GetStep(r) \/ HandleStep(r)
  \/ Connect(r) \/ OpenFails(r) \/ BeginFails(r)
  \/ StatementFails(r) \/ ReadBreaksOff(r)
  \/ Dispose(r) \/ Abandon(r)

Next ==
  \/ \E r \in Request :
       \/ \E h \in Hex : Post(r, h) \/ Get(r, h)
       \/ Step(r)
  \/ Reclaim

Spec == Init /\ [][Next]_vars

(* Threads run; a wait for a connection or a lock ends, by timing out if not *)
(* otherwise.                                                                *)
FairSpec == Spec /\ \A r \in Request : WF_vars(Step(r))

-----------------------------------------------------------------------------

(* A location is found under the identifier it was posted for, and no       *)
(* other, whichever of several concurrent posts created the identifier      *)
(* (IdentifierPoster.cs 32-48).                                             *)
LocationsBelong ==
  \A r \in Request : locations[r] # 0 =>
    \A h \in Hex : r \in RowsOf(h) <=> h = hex[r]

(* Identifiers come with their first location or not at all: the two        *)
(* inserts are in one transaction (LocationPoster.cs 32-55).                *)
NoIdentifierAlone ==
  \A h \in Hex : idOf[h] # 0 /\ insertedBy[h] = None => RowsOf(h) # {}

(* A read that is answered has every location of its identifier that was    *)
(* acknowledged before it began, and none of another identifier.            *)
ReadsAcknowledged ==
  \A r, p \in Request :
    reply[r] = "ok" /\ got[r] = 0 =>
      /\ p \in acked[r] /\ got[p] # 0 /\ hex[p] = hex[r] => p \in seen[r]
      /\ p \in seen[r] => hex[p] = hex[r]

(* When its error is being handled, and when it has been answered, a        *)
(* request holds neither a transaction nor rows, and no connection but one  *)
(* that no transaction could be begun on (Transaction.cs 28-29): handling   *)
(* an error never waits for what the failed request has done (using,        *)
(* LocationPoster.cs 32).                                                   *)
LeavesNothingOpen ==
  \A r \in Request : pc[r] \in {"handle", "done"} =>
    /\ \A use \in {"work", "error"} : <<r, use>> \notin begun
    /\ \A h \in Hex : insertedBy[h] # r

(* The ID that a client is told to report is in the table of exceptions     *)
(* (README.md 121).                                                         *)
ReportedIsRecorded == \A r \in Request : reply[r] = "errorId" => r \in exceptions

(* The inductive invariant. *)

Recording == {"record", "commitError", "disposeError", "abandonError"}

Working == PC \ ({"idle", "connectToPost", "connectToRead", "handle", "done"} \union Recording)

(* A transaction is under way exactly while its request is in the using     *)
(* block; what is open besides is what Transaction's constructor left so.   *)
ConnectionsAreUsed ==
  \A r \in Request :
    /\ <<r, "work">> \in begun <=> pc[r] \in Working
    /\ <<r, "error">> \in begun <=> pc[r] \in Recording
    /\ <<r, "work">> \in open => pc[r] \notin {"idle", "connectToPost", "connectToRead"}
    /\ <<r, "error">> \in open => pc[r] \in Recording \union {"done"}

IdsAreUnique ==
  /\ nextId # 0
  /\ \A h \in Hex : idOf[h] < nextId
  /\ \A h, g \in Hex : idOf[h] # 0 /\ idOf[h] = idOf[g] => h = g

(* An uncommitted row is that of a post, under way, about that identifier. *)
UncommittedAreOwned ==
  \A h \in Hex, r \in Request : insertedBy[h] = r =>
    /\ pc[r] \in {"readId", "insertLocation", "commit", "abandon", "hung"}
    /\ hex[r] = h
    /\ idOf[h] # 0

(* What a request is about is settled when it arrives. *)
RequestsAreFresh ==
  \A r \in Request :
    /\ pc[r] # "idle" => hex[r] \in Hex
    /\ pc[r] = "idle" => locations[r] = 0
    /\ pc[r] \in {"idle", "connectToRead", "select", "readRows"} => got[r] = 0

(* A post has the id of its identifier, whoever inserted that. *)
PostsKnowTheirId ==
  \A r \in Request : pc[r] \in {"readId", "insertLocation", "commit"} =>
    /\ got[r] # 0
    /\ got[r] = idOf[hex[r]]
    /\ insertedBy[hex[r]] \in {None, r}

LocationsAreCommitted ==
  \A r \in Request : locations[r] # 0 =>
    /\ locations[r] = idOf[hex[r]]
    /\ insertedBy[hex[r]] = None

Succeeded(r) == pc[r] = "dispose" \/ reply[r] = "ok"

PostsAreStored ==
  \A r \in Request : Succeeded(r) /\ got[r] # 0 => locations[r] # 0

ReadsAreRight ==
  \A r \in Request :
    /\ \A p \in acked[r] : reply[p] = "ok"
    /\ pc[r] = "readRows" \/ (Succeeded(r) /\ got[r] = 0) =>
         /\ seen[r] \subseteq RowsOf(hex[r])
         /\ \A p \in acked[r] : got[p] # 0 /\ hex[p] = hex[r] => p \in seen[r]

ErrorsAreRecorded ==
  \A r \in Request : pc[r] = "disposeError" \/ reply[r] = "errorId" => r \in exceptions

IInv ==
  /\ TypeOK
  /\ ConnectionsAreUsed
  /\ IdsAreUnique
  /\ UncommittedAreOwned
  /\ RequestsAreFresh
  /\ PostsKnowTheirId
  /\ LocationsAreCommitted
  /\ NoIdentifierAlone
  /\ PostsAreStored
  /\ ReadsAreRight
  /\ ErrorsAreRecorded

-----------------------------------------------------------------------------

(* Every request is answered, if with an error (README.md 121): in the end   *)
(* none is under way.                                                        *)
EveryoneIsAnswered == <>[](\A r \in Request : pc[r] \in {"idle", "done"})

(* Every request is answered but those whose reading broke off, which take  *)
(* nobody with them though they keep their connection and their rows.       *)
OthersAreAnswered == <>[](\A r \in Request : pc[r] \in {"idle", "done", "hung"})

=============================================================================
