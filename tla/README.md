# A verification project for gps-logger

gps-logger is a small web service: clients post their location in signed
requests, anyone may read the history of an ID. This directory has TLA+ models
of its stateful parts, TLC configurations that check them on small instances,
and proofs, checked by TLAPS, that hold for every size of instance.

Paths such as `ReplayDetector.cs` are files of the repository; every definition
that stands for code is listed with its lines in `PROJECT.json` (`map`).

## 1. The system

### Components

| Component | State | Operations | Modelled in |
|---|---|---|---|
| Replay detector (`Common/Utilities/ReplayDetector.cs`) | a concurrent dictionary from serialized things to counters, a lock per counter, a timer per call | `IsNew`, the timer's callback | `ReplayDetector`, `SlidingWindow` |
| Locker (`Common/Utilities/Locker.cs`) | rooms mapping keys to rings, pools of hats and rings | `DoLocked` | `Locker`, `KeyLocks` |
| Concurrent storage (`Common/LocalStorage/ConcurrentStorage.cs`) | a locker and a storage | get, set, exists, get-or-add | `ConcurrentStorage`, on `KeyLocks`; its nested locking in `Locker` |
| HMAC key (`Common/Security/HMACKey.cs`) on physical storage (`Common/LocalStorage/PhysicalStorage.cs`) | one file | `SetAsync`, `IsSetAsync`, `GetCurrentAsync` | `HMACKey`, `KeyStore` |
| Validator (`Common/Security/Signing/Validator.cs`) | none of its own | `IsValidAsync` | `RequestPipeline` |
| Message handler and endpoints (`MessageHandler.cs`, `LocationImpl.cs`, `CredentialImpl.cs`, `Time.cs`) | none of their own | post a location, get a credential, get the time | `RequestPipeline` |
| SQL store (`SQLDatabase/`: `Transaction.cs`, `LocationPoster.cs`, `IdentifierPoster.cs`, `LocationProvider.cs`, `ErrorHandler.cs`) | three tables, the connection pool | post a location, read locations, record an error | `SqlStore`; a post as one step in `RequestPipeline` |
| Signer, serializers, hex strings | none | pure functions | `Wire`; abstractly in `RequestPipeline` |
| Path sanitizer (`Common/Utilities/FileSystemPathSanitizer.cs`) | none | from a key to a file's name | `PathSanitizer` |
| Web client (`wwwroot/app/main.js`, `wwwroot/lib/logger.js`) | a credential, a button, the output, calls under way | clicks, positions, queries, callbacks | `WebClient`, on `Wire` |
| Lifetimes (`LifetimePinner.cs`, `AutoFinalizer.cs`) | finalizers | pin | no: garbage collection |
| Start-up, configuration, MVC, tests | - | - | no |

### How they interact

A request comes in at a controller. The endpoint hands it to a message handler,
which asks the validator; the validator derives the client's secret from the ID
in the message and the server's key (a read of the key's file), compares the
signature, asks the replay detector, and then checks the timestamp. The handler
then has the endpoint generate the contents, which for a location is a database
transaction, and signs the response with the client's secret, for which it
derives it - and reads the key - a second time. Whatever is thrown becomes an
error response, recorded in the database in a transaction of its own, once the
transaction that failed has been disposed of. The handlers, the detectors and the
key are shared by all requests; every `await` is a point where others run.
The time and the credential endpoint take messages of one type and share one
replay detector.

The page's script asks for a credential as soon as it is loaded, watches the
position from then on, signs a post for each position with the credential of the
moment, and shows what was accepted. It and the server each serialize the
message they sign with conversions of their own. Its calls are asynchronous:
what is between a call and its callback may have changed the credential, the
output, or the server's key. The server's key is set by posts of anyone, who may
overlap; both reads of a request may find another key.

### What is hard about it

- *Interleaving.* The detector's entries are taken from the dictionary without
  a lock and removed by timers; the locker takes its hat out before it enters
  the room; the key's check and its write are separate awaits; an identifier is looked up and
  inserted in two steps that the isolation level does not make one.
- *Time.* The detector's memory, the timestamp's window and the order of the two
  checks have to fit; timers may be late.
- *Failure.* A write or the process may end between truncating and writing the
  key's file; a database call may fail on either side of its commit, and a result
  in the middle; so may the handler of such errors, and the constructor of a transaction
  whose connection is already open; a restart empties the detector.
- *Bounds.* Pools of hats, rings and connections; the window's ends; the longest
  name of a file.
- *Agreement.* Two programs in two languages have to come to the same bytes, over
  a format that does not know all the numbers they do; keys that differ to a
  dictionary are one file to the file system.

`PROJECT.json` (`hazards`) lists each one at its line, with the properties that
cover it or the reason why none does.

### What makes each component correct

- Replay detector: never two "new" for one thing within a window; not "old"
  without a remembered sighting; nothing remembered for ever; calls return.
- Locker: one action per key at a time; unrelated keys do not wait for each
  other; no hat is lost; calls return.
- HMAC key: written once; never read in part; a read gives what is in force at
  some moment; "is set" means that there is a key.
- Pipeline: a message is accepted once; an honest one is not refused; a signed
  response can be verified; an acknowledged location is stored.
- Concurrent storage: calls with one key exclude each other, get-or-add included;
  what is got was stored under that key, in full.
- Path sanitizer: a name the file system takes, and one of its own for each key.
- Web client: what it shows is stored; it keeps the newest credential; what it
  signs is valid; it gets to watch the position.
- SQL store: a location is found under the identifier it was posted for; an
  identifier is there with its first location or not at all; a read has what was
  acknowledged before; a failed request gives everything back before its error
  is handled; the ID a client is told to report is recorded; requests are answered.

## 2. The modules

| Module | What it is |
|---|---|
| `SlidingWindow` | the promise of the replay detector: seeing is one atomic step |
| `ReplayDetector` | the code of `IsNew` and its timer; refines `SlidingWindow` |
| `ReplayDetectorProofs` | its invariant, its safety and the refinement, proved |
| `KeyLocks` | the promise of the locker: a lock per key, until two calls that leave have raced |
| `Locker`, `LockerProofs` | `DoLocked`, and what it guarantees; refines `KeyLocks` |
| `KeyStore` | the promise of the key's file: posts of three steps, which may replace the key or empty it |
| `HMACKey`, `HMACKeyProofs` | the key's file, and what it guarantees; refines `KeyStore` |
| `RequestPipeline`, `RequestPipelineProofs` | a request from arrival to response; uses `SlidingWindow` as its detector and `KeyStore` as its key |
| `SqlStore`, `SqlStoreProofs` | posts, reads and errors as transactions on the database, over a pool of connections |
| `PathSanitizer` | from a key to the name of its file |
| `ConcurrentStorage`, `ConcurrentStorageProofs` | the storage under `KeyLocks`, over files with sanitized names; the proofs are about both |
| `Wire` | what is serialized and signed, on the page and on the server |
| `WebClient`, `WebClientProofs` | the page's events and calls, and the server as it sees it; on `Wire`, with `KeyStore` as the server's key; the proofs are about both |
| `Induction` | facts by induction that the proofs share: sums, powers, sequences and what they are flattened to |
| `MC*` | instances for TLC: symmetry sets, and the messages of the pipeline |

### ReplayDetector

`counts` is `_counts`; `value[w]` and `owner[w]` are the `Value` and the monitor
of wrapper `w`. A call goes through the steps `get` (`GetOrAdd`), `lock`,
`check` (lines 53-59; a failed check releases the lock and goes back to `get`,
which is `BreakRaceCondition`'s loop), `increment`, `subscribe` and `unlock`.
Each step is one access to shared state. After that the same identifier stands
for the timer's callback: `armed`, `decrement`, `remove`. A wrapper that nothing
refers to may be allocated again, which is what garbage collection allows. `age`
and `left` count down relative time: no absolute clock is needed, and behaviours
are not bounded in time. `Tick` never waits, so a timer may be arbitrarily late.
A call is made once per identifier; the number of identifiers bounds the calls
of a behaviour.

### Locker

The two sections under a room's lock (lines 64-78 and 96-108) are one step each:
all they share outside the room's lock is their ring's bag and the pool of
rings, and each of those is touched by one operation at a time, with which the
rest of the section commutes. Hats are alike, so a bag is its size. `raced`
records the one event after which the locker's guarantees are off: a ring's last
hat is taken out (line 91) while another call that has taken out its own has yet
to look (line 98). `busiest` records the most hats ever in use at a time. An
action may return or throw. It may also make another call with its own key
(`DoLockedAgain`), as `GetOrAddAsync` does, on the same thread: the inner call has
a hat of its own and passes a lock that its outer call holds (`LockRing`), and the
outer call's action goes on when it is done (`Nested`, `OwnerAfter`). Nothing in
the repository nests deeper.

`KeyLocks` is what a caller sees of it: a call holds its key while its action runs,
and leaves it until it returns; two calls that leave one key while nobody holds it
may race, and from then on nothing is promised, not even that calls return only the
exceptions of their actions. In `Locker`, `ImplementsKeyLocks` maps a call to its
place (`KeyAt`) and the locker's own exceptions to `gone`; nested calls are part of
the action they are made from.

### ConcurrentStorage and PathSanitizer

A call of the storage is a call of `DoLocked`, with `KeyLocks` in the locker's place:
taking a lock is `Lock!Enter`, the step that ends the action releases it, and then
the call has yet to leave (`Leave`). While two leave one key the lock may be lost
(`Race`); after that calls of one key may run at once, and a call, or one that a
get-or-add makes, may throw the locker's own exception though its work is done
(`LeaveRingGone`, `ExistsRingGone`). Under the lock, each task of the
`PhysicalStorage` that the call waits for is a
step: `File.Exists`, opening (which empties a file that is to be written), writing,
reading. `FileOf` is the sanitized key as the file system takes it, which is without
regard to case (`Folded`; the test `IsCaseInsensitive` of
`PhysicalStorageClass.cs` 100-112 says so of the systems the code is made for;
with the identity for `Fold` the model is of one that does). So two keys may have one
file though each has a lock of its own, and
streams of one file exclude each other by failing, as in `HMACKey`. The adder of
`GetOrAddAsync` may throw, and null contents are not stored. Names are sequences
of characters; `Escaped` replaces one character after the other in the order of
the hash set, the escape character first, and `Shorten` puts any function of the
whole in place of what it cuts off.

### HMACKey

`file` is the contents of the key's file. `OpenToWrite` truncates it
(`FileMode.Create`), `WriteAndClose` fills it; a failed write or a `Crash` leaves
it empty. Handles exclude each other as `FileShare.None` and `FileShare.Read`
say, by failing and not by waiting. A request's identifier is free again after
its answer, so any number of requests may follow one another. Keys are values of
three kinds: long enough, too short, empty (which is also `DefaultKey`).
`overlapped` and `torn` are history variables: two posts were past the check at
one time; a write ended with the file emptied.

`KeyStore` has of this what others can see: a post finds no file (`PassChecks`),
empties it (`Open`), and writes it or fails to. Streams for reading are left out, and
show only in `OpenFails`. A read is one step, which fails while a post has the file
open; that this is right, although the code looks for the file first and opens it
later, is the second half of `ImplementsKeyStore`.

### RequestPipeline

One action per exit or await of `IsValidAsync`, in the order of the code: not a
full message; the secret's derivation (which may fail); the signature; the
replay detector; the timestamp. What `IsValidAsync` catches is the same as
invalid. Then the contents are generated, in the case of a location by a
transaction that commits, or fails, or fails after its commit; then the response
is signed, with the key as it is by then. The key is a `KeyStore`, whose posts go on
in between any two steps of a request (`PostKey`): it may be set, replaced by a post
that overlapped, emptied, or left empty by a write that failed or a restart. A read
of it may fail at any time (`DeriveFails`, `CredentialFails`, `RespondFails`). The detector is `SlidingWindow` with a
window of twice the timestamp's, and may forget late. A `Restart` loses the
requests under way and the detector's memory. A signature is modelled by what
its key was derived from: HMACs are taken to be injective. Two messages are the
same when they are the same JSON to the detector.

### SqlStore

`idOf` is the table `identifiers`, `locations` and `exceptions` are the other
two; `insertedBy` says whose uncommitted row an identifier is. A request is a
post (`PostLocationAsync`) or a read (`GetAllLocationsAsync`) and goes through
the statements of its transaction one at a time; the insert-or-select of
`IdentifierPoster.cs` is two steps, the look-up and the insert, since READ
COMMITTED, which `BeginTransaction()` asks for by default, locks rows that are
there and nothing where there is none. Who meets an uncommitted row of another
transaction waits for it, or fails by timing out (`StatementFails`). A violation
of the unique constraint ends the request's batch with an exception.

A result is read by an observable without an error handler. When the read fails
at once, subscribing throws; when it fails later, nobody is told, and the request
is `hung`: it keeps its connection, and its rows unless the server has noticed
(`ReadBreaksOff`). `open` are the connections that are out of the pool, `begun` those
with a transaction. `Transaction`'s constructor opens one and then begins a
transaction; if the latter throws there is nothing to dispose of, and the connection
stays open (`BeginFails`, and the same in `HandlerCannotConnect`) until the garbage
collector comes by (`Reclaim`), for which no fairness is assumed. An exception leaves the `using` block first (`Abandon`:
rollback, connection returned) and is handled after that, over a connection of
its own; the handler answers in any case. A commit that throws may have happened
or not. `locations[r]` is set by the commit: inserted rows of `locations` are
seen by nobody before it, and block nobody that the model tells apart. `acked` is
a history variable: the posts that were answered before a read began.

### Wire and WebClient

A hex string is a sequence of digits and a byte is worth two of them; the base is a
constant, and so is the size of a double. Each function is translated with its own
quirks: `toString(16)` drops a leading zero, forge makes a byte of the first of an
odd number of digits, `FromHexStringAsync` drops the last, the page writes the
time as 32 bits and four zeroes. A location travels as JSON (`ThroughJSON`, `Arrived`):
`JSON.stringify` writes the shortest decimals that tell a double from the others, and
"0" for -0, so that -0 arrives as 0, with other bits than were signed. That the server
parses any other number to the double it was written from is assumed. An HMAC is the record of its key and its bytes,
and a secret is the HMAC of an ID.

In `WebClient` one action is one event of the page, since a script runs alone
until it returns: loading (`Init`), a click, a position, a query, and the callback of a call
(`OnCredential`, `OnPosted`, `OnLocations`, `OnEmpty` or `OnError`). `calls` are those
under way, answered in any order. The server takes a call in two steps, as it reads
its key twice: it checks the signature against what it serializes itself, from what
arrived, with the key of the moment (`Check`), and then serves the call: it gives out
a credential in any case, of the key of that moment, stores a post that was
valid, and looks up locations. The key is a `KeyStore` here, too. On the way a call
may be delayed past the timestamp's window (`late`), fail, be answered without
contents, for which the page's code is prepared, or with no JSON at all, for which it
is not (`OnEmpty`). Salts are random, so no message is a replay. `failures` and
`lost` are history variables.

## 3. The runs

| Run | Instance | What it shows |
|---|---|---|
| `replay` | 3 calls, 2 things, 3 wrappers, window 1, fair | the safety of the detector, that it implements `SlidingWindow`, that calls return and entries go away |
| `locker` | 3 calls, 2 keys, 2 rings, any call inside any other, fair | exclusion and separation unless raced; hats conserved and calls return regardless; the locker implements `KeyLocks` |
| `locker_exclusion` | 5 calls, 2 keys, 2 rings | **violated**: two actions under one key |
| `hmackey` | 3 requests, 2 long keys and a short one | what holds of the key's file, and under which condition; it implements `KeyStore` |
| `hmackey_overwrite` | same | **violated**: a stored key is replaced |
| `pipeline` | 2 arrivals, 3 messages, window 2, clock to 5, 1 restart, 2 posts of keys, 1 key | the protocol's end-to-end properties |
| `pipeline_hex` | 1 arrival, 5 messages | **violated**: not hex and yet valid |
| `sql` | 3 requests, 2 identifiers, 2 connections | tables, answers and the pool under concurrent transactions with failures everywhere |
| `sql_live` | 3 requests, 1 identifier, 2 connections, fair | everyone is answered but those whose reading broke off |
| `sql_hang` | 2 requests, 1 identifier, fair | **violated**: a request is never answered |
| `client` | 2 calls under way, 2 IDs, 2 locations, 2 queries, 1 failure, 1 post of a key at a time, 1 key, fair | what the page shows, keeps and signs; when it gets stuck |
| `storage` | 2 threads, 3 keys for 2 files, 1 value; names of up to 3 characters | what the locks and the names of the storage are good for |

`IInv` begins with the module's type invariant, so its runs check that too.

*Why these bounds.* The detector's races need a caller, an expiring timer and
a third call that replaces the entry: three calls. Two things tell a removal by
key from one of another thing. A window of one tick is enough for a timer to be
punctual, early (in a mutant) or late; the proofs cover every window. Two calls are enough for the locker's race, and a
third for one to come in between; the damage it does takes five calls on two
keys. The posts of a key race in pairs and a third request reads; in the pipeline two
posts are enough to replace a key, to empty it, and to leave it empty. The pipeline's
clock reaches from before a message is acceptable to after the detector has
forgotten it: with a stamp of 3 and a window of 2 it is acceptable from 2 to 4,
and the detector's four units fit into 0 to 5. Two arrivals are what `AcceptedOnce` is about, and both
its exceptions - a restart in between, and a request that is sighted before its
time and checked late - occur in the run. Two posts race for an
identifier and a third request reads or posts it, or another; with a connection
less than there are requests, the pool runs empty, and with two of three requests
hung it stays so. Two calls at a
time are what the page needs for answers to overtake each other, and two IDs for
a credential to be replaced; one post of a key at a time sets it or tears it while
calls are under way (the theorem is for any number, and what posts that overlap do is
for `pipeline` to show); digits are binary there, so that a byte is less
than 4, IDs and coordinates are chosen with and without a leading zero, one location
has a -0, and the time fills the 32 bits the page writes. Two threads meet in a file
or under a key, and two of three keys differ in case only.
Six characters for a name are enough for two escapes, which many names of three
characters exceed.

*Symmetry* is used in runs without liveness properties only: rings, requests, posts,
keys and identifiers are interchangeable there, no property or definition names one.
The one refinement among these, of `KeyStore`, has no fairness, and treats requests
and keys alike.

*Fairness.* A thread that can run does (`WF`), since the thread pool and the
operating system run every ready thread. A thread that waits for a monitor which
is free again and again gets it in the end (`SF`): waiters on a monitor are
woken when it is released. `Tick` is weakly fair: time goes by. A step of a
database request is weakly fair because every wait for a connection, a lock or
an answer of the server has a timeout, which is one of the steps it may end with.
A call of the page is answered or fails in the end: browsers give up on a
connection that does. Its callback is then run, as no script of the page blocks.
Nothing else is assumed; in particular no timer is assumed to be punctual, and
no statement to succeed.

The storage is checked for safety only. That its calls return needs the locker's
fairness, which is checked in `locker`, and no more than that after a race: once
nothing is promised, there is no liveness to claim on `KeyLocks`.

*Deadlock* is checked in the runs whose module always has a step (time passes,
new requests come). It is off for `Locker`, `RequestPipeline` and `SqlStore`,
which stop when all calls and requests have come to their end or the clock is at
its bound.

*Every property can fail.* For each property of a passing run, `PROJECT.json`
(`mutants`) names a plausible bug - a dropped check, an off-by-one, a lock that
is not released - whose definition stands just before the one it would replace,
and under which TLC finds that property violated.

## 4. What the runs found

1. `locker_exclusion`: the locker takes its hat out of the ring before it enters
   the room to look whether the ring is empty. Two leaving calls may both find it
   empty. The second then throws line 104's exception or unmaps somebody
   else's ring, and puts the same ring among the unused ones twice. `LocksRight`
   (below) proves that this race is the only way to go wrong.
2. `hmackey_overwrite`: posts that overlap are both accepted, and the later
   write wins. `WriteOnce` proves that overlapping is the only way.
3. `pipeline_hex`: the check of the hex strings waits for an exception that
   `FromHexStringAsync` never throws.
4. `sql_hang`: a result whose reading fails after the subscription leaves its
   request waiting for a gate that nothing opens (`Transaction.cs` 106-112), with
   its connection and its transaction. `sql_live` shows that others get by, if
   with errors once the pool is used up.

What the passing runs show with an exception in the property:

- `SetMeansKeyedUnlessTorn`, `TornStaysEmpty`: a failed or interrupted write leaves
  an empty file that counts as a key, and every later post is refused.
- `LocationsBelong` holds although concurrent first posts of one identifier may
  both find it missing; one of them then violates the unique constraint
  (`UniqueViolation`), and its client gets an error.
- `StuckOnlyByFailure`: after a call for a credential that failed, or was answered with
  an empty body or null, the page's button stays disabled, and if it was the first, the
  position is never watched (`main.js` 12-18, `logger.js` 111 and 168). An answer
  without contents does no such harm.
- `SignedResponseVerifies`: a response may be signed with another secret than its request
  if two posts of keys have overlapped; both derivations are right at their time.
- `LeavesNothingOpen`: a failed request keeps no transaction and no row, but the connection
  on which no transaction could be begun stays out of the pool (`Transaction.cs` 28-29).
- `ThreadSafe` and `GetOrAddKeeps` hold until the locker has lost a lock, and
  `GetsWhatWasStored` does anyhow, as it rests on the sharing modes of the files.
- `ThreadSafe`: keys that have one file are not kept apart by the
  locks. `FileNames` says which keys these can be: they differ in case only, or one has
  an underscore in it, which line 48 of the sanitizer means to escape and does not, or
  both are long.
- `NoFalseRefusal` is about a call that is checked with the key its credential is of, and
  about locations without a -0: a post from just there, signed over the bits of -0 and
  checked over those of 0, is refused though nothing is wrong with it.
- `NoFalseRefusal` also needs times below 2^32, up to the year 2106, and salts of an even
  number of digits, which forge's random bytes have (`ClientAssumption`). On an odd
  one the two would disagree, as forge makes a byte of its first digit and the server
  drops its last. The second condition came out of the proof.

## 5. What is proved

All theorems are of the form `Spec => ...`, for every value of the constants
that satisfies the modules' named assumptions. TLC evaluates these on every run:

- `Call`, `Request` and `Ring` are finite (`CallAssumption`, `PoolAssumption`,
  `RingAssumption`): a count is a cardinality, and hats are added up over the rings.
- The window is positive (`WindowAssumption`, `ConstantsAssumption`), the pool has a
  connection (`PoolAssumption`), a base has two digits and a double has a byte
  (`SizesAssumption`).
- The model values that stand for "nothing" are not among the others
  (`NoneAssumption`, `KeysAssumption`, `ValuesAssumption`, `ConstantsAssumption`).
- IDs are byte arrays that differ from one another, salts are of whole bytes, and
  times fit into the four bytes the page writes (`ClientAssumption`).
- Keys are sequences of characters; the escape character and hex digits are not
  invalid; invalid characters have two digits each and not the same ones, since they
  are below 256; a name has room for the hash; a hash has as many hex digits as the
  code takes of it (`SanitizerAssumption`, `HashAssumption`, `NameAssumption`). Folding
  case leaves the escape character, invalid characters and the difference of their codes
  as they are (`FoldAssumption`).

Every invariant and every action property that a run checks is proved, and the
refinements of `SlidingWindow`, `KeyLocks` and `KeyStore`. What remains for TLC alone is at the end of this
section.

**Replay detector** (`ReplayDetectorProofs`). `NoTwoNewInWindow` is not
inductive: nothing in it says that a count is about the entry the dictionary
has. `IInv` adds that. The core of it are three facts: a wrapper's value is the
number of the calls that counted on it and have not expired (`CountIsExact`);
from the check to the removal a call's wrapper is the dictionary's
(`CountedIsOfficial`, which is what lines 53-59 are for); and a timer that fired
had the whole window (`TimersRunForWindow`). The rest places the control state:
who holds a lock, that no wrapper belongs to two things, and that whoever is
about to remove an entry has left nobody behind (`RemovedIsUncounted`). Given
these, a call that finds 0 has no live sighting before it, and two "new" answers
are a window apart (`NoTwoNew`). The same invariant carries the refinement
(`Refinement`): incrementing is `See`, the callback's decrement is `Forget`, a
tick is a tick, everything else stutters. `NoLeak` needs one thing more than `IInv`
says of each call (`Owes`): an entry belongs to a call that has its wrapper in hand, or
is counted on it until its timer fires. A call that leaves an entry by failing its
check leaves one that others count on, and the last of those removes it.

**Locker** (`LockerProofs`). The half of `IInv` that holds always says that a
bag's hats are the calls inside; the other half holds until the first race: the
ring of a call is its key's, no ring belongs to two keys, an unused ring is
unused, and a call that found its ring empty is alone with it (`LastIsAlone`).
`LocksRight` and `KeysAreApart` follow. `WellNested` says that an inner call is
under way only while its outer call is in its action, and `LockIsHeld` that the
lock of an action is held by its call or by the one it made.

`KeyLocksRefinement` has every step of the rings and hats be one of `KeyLocks` or a
stutter. The race is where it must be exact: when a call takes out the last hat
while another has yet to look, before any race, the two leave the same key, since
their ring is that of both (`RingIsOfKey`), and nobody holds it, since the hat of whoever
did would be in the ring. That is `Race`, in the same step in which the locker records it.

`HatsAreConserved` is about a sum over all the rings (`SumFunction`, a fold), which
nobody can expand. `NoHatIsLost` goes by way of what a sum would be anyway: the rack
has a hat for each of the most calls there ever were, less those that have one now
(`RackIsRest`), and a ring's hats are the calls inside it; so the calls are divided
among the rings, and `SumAddsUp` says that a function which adds up as they do is
the sum. No step of this uses exclusion, so hats are conserved after a race, too.

**HMAC key** (`HMACKeyProofs`). The invariant ties handles to program counters
(`HandlesExclude`), an empty file to a write in progress or a torn one
(`EmptyIsInProgress`), and, while no posts have overlapped, the posting request
to a file that has no key yet (`PostsAreAlone`). `WriteOnce` is an action
property, proved from the same invariant, and so is `TornForGood`, which is
`TornStaysEmpty`. `KeyStoreRefinement` maps each step of a post to one of `KeyStore`,
and steps of reads to stuttering. That a read gives the key in force when it ends
needs only that nobody writes while a stream for reading is open (`HandlesExclude`),
and that a file once there stays there (`FileIsThereToRead`).

**SQL store** (`SqlStoreProofs`). A transaction is under way exactly inside a `using`
block, and what is open besides belongs to a request whose constructor failed
(`ConnectionsAreUsed`); an uncommitted row belongs to a post that is under
way (`UncommittedAreOwned`); between look-up and commit a post's id is that of
its identifier, committed or its own (`PostsKnowTheirId`); a location's id is that
of its identifier, and committed (`LocationsAreCommitted`). Two lemmas say what
`Rollback` and `CommitRows` do to these, and the theorems follow: a rollback takes
back nothing that a location refers to, since that is committed, and a commit
makes an identifier visible together with its location.

**Concurrent storage** (`ConcurrentStorageProofs`). Until a lock is lost, one call holds
a key (`OneHolds`); a file's writer is alone with it, locks or no locks
(`WritersAreAlone`); a file holds what was stored under its key, or is being written, or
was torn (`ContentsAreStored`); from its look to its write a get-or-add's file
stays away, as long as no lock is lost (`AddsToNothing`). The last two are about keys whose file is theirs alone
(`SharesFile`), and nothing is needed of the sanitizer: `IsThreadSafe`,
`GetOrAddIsSafe` and `GetsOnlyWhatWasStored` hold for any function from keys to
files.

**Path sanitizer** (same module). `FilesAreNamedApart` is what makes these worth
having. The code replaces one character after the other, in the order of a hash set.
`EscapedIs` says that this comes to replacing each character once, in any order:
what replaced one character has no other invalid one in it (`ReplaceOneMore`). So
nothing invalid is left, and a name that is cut is of the limit's length
(`NamesAreSafe`). Without an escape character in the key, the first character of what
is escaped tells the first of the key (`FirstIsTold`), and by induction all of them
(`EscapedTells`), up to case, since it is folded names that are compared and a fold of
what is escaped still tells (`FoldedConcat`, `FoldedEscapeIs`); and no two escape
characters come in a row (`EscapesAreSpread`), which is why a name with `__` in it was cut and is no short key's (`LongIsNotShort`).

**Request pipeline** (`RequestPipelineProofs`). `AcceptedOnce` relates two requests
that are over to what the detector knew when they were not. `IInv` adds to it what
each request has passed to be where it is, that a request's age is the time since it
was sighted (`AgeIsElapsed`), that the detector remembers what was sighted within its
window since the last restart (`RememberedForWindow`), and that, hence, two requests
that were both new to it are a window of the detector apart, or a restart
(`NewAreApart`). The detector's window is twice the timestamp's: if the first was
sighted when its time had come, then at the second's check it has run out for both.
For `UnrepeatedIsValid` it must be said that a request which got as far as the
detector has derived its key, and that the detector knows nothing that has not
arrived since the last restart. For `SignedResponseVerifies` the invariant relates each
request to the key (`KeyIsInForce`): while no posts have overlapped, whoever has derived
a secret of a real key has it of the one in the file. This is inductive because a post
that finds no file is then alone until it has ended, and the file has no key until then
(`PostsAreAlone`).

**Web client and wire** (`WebClientProofs`). `NoFalseRefusal` is about two programs
that serialize the same message each in its own way: `SameBytes` says that they agree
for any base, any ID, salt and location, and any time of four bytes, and its lemmas
that each function of `Wire` writes and reads what it should (a number's bytes have
their weights, hex digits go in and out by twos). `IInv` adds that a credential, on the page or on
its way there, is one that the server issued, of whatever key it had (`CredentialsAreKnown`);
that what is under way was signed with such a one (`CallsAreSigned`); that what an
answer tells the page is stored (`AnswersAreRecorded`); and that one credential at a
time is asked for, as the button is disabled meanwhile (`OneCredentialAtATime`),
which is why no older one replaces a newer one (`NeverOlder`).

**Induction.** The library's induction theorems take a predicate as a parameter and
cannot be applied here. `Induction` states the principle for sets instead: a set
with 0 and, with each number, the next contains all the numbers (`SetInduction`),
which follows from `WFMin`; a set with the empty sequence and, with each sequence,
all that are longer by one contains all sequences (`SeqInduction`, and `FrontInduction`
from the other end). From these follow what `SumFunction` and `FlattenSeq` compute
(`SumAddsUp`, `FlattenAppend`), the powers of the base (`PowersExist`), and what
becomes of a sequence whose elements are replaced (`SubstConcat`, `SubstSubst`).

**Only model-checked.** Liveness under fairness, which needs ENABLED: `CallsReturn`
(of the detector and of the locker), `EventuallyForgotten`, `OthersAreAnswered`, `StuckOnlyByFailure`.

## 6. What is not modelled

The contents of messages beyond what the properties tell apart; the cryptography;
responses' signatures on the page, which does not check them; the garbage collector
and finalizers; the wiring of the container and start-up; the page's layout; the
database's isolation beyond what `SqlStore` assumes of READ COMMITTED; `null`
dependencies, which the container never passes; the string hash that chooses a
locker's room; `MemoryStorage`, three calls of a concurrent dictionary that only
tests use; a key's file that is opened or deleted by other programs; a server's parser
of decimals that is not exact. The server's clock is monotonic in the model.

## 7. The plan

1. *(done)* The detector, the locker with nested calls, the key, the pipeline, the
   SQL store, the page, the concurrent storage with its sanitizer; the proofs of all
   their invariants and action properties.
2. *(done)* What components use of others as specifications of their own, which these are
   proved to implement: `SlidingWindow`, `KeyStore`, `KeyLocks`.
3. The pipeline as an implementation of an abstract log of accepted messages, with
   the refinement proved step by step, so that the page can use it in the same way.
