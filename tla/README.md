# Formal model of the streamsx.mongodb toolkit

The toolkit gives IBM Streams four operators, *Insert*, *Update*, *Delete* and
*Query*, written as code templates (`*_cpp.cgt`): Perl that runs when an
application is compiled and prints the C++ of one operator. This directory holds
TLA+ models of what that C++ does, and of the C++ headers of the MongoDB driver it
is compiled with: BSON, messages, counters and values. TLC runs check the models on
small instances; TLAPS proofs give the main results for instances of any size.

`B/` below stands for `src/com.ibm.streamsx.mongodb/com.ibm.streamsx.mongodb/`,
`V/` for `src/com.ibm.streamsx.mongodb/impl/include/mongo/`.

## 1. Inventory

| Component | State | Operations | Interacts with |
|---|---|---|---|
| Write operators `B/{Insert,Update,Delete}/*_cpp.cgt` | locals of `process()` (`otuplePtr`, `errorFound`, `errorMsg`), a metric | `process(tuple, port)` | connection, BSON building, downstream through `submit` |
| Per-thread connection `B/Common/ThreadCommon_cpp.cgt`, `V/client/dbclientinterface.h` | `static thread_specific_ptr connPtr_`; in the driver `_failed`, `authCache`, the socket, the last error | `getDBClientConnection`, `isFailed`, `insert`/`update`/`remove`/`query`, `getLastError`, `setDbProfilingLevel` | every `process()` of the thread; mongod |
| Query `B/Query/Query_cpp.cgt` | `static thread_specific_ptr otuplePtr_` (template tuple), cursor, `docFound`, a metric | `process(tuple, port)`, `getOutputTuple` | connection, BSON reading, `submit` of tuples and of the window marker |
| Lifecycle `B/Common/MongoOperator_cpp.cgt`, `MongoInit_h.cgt` | `MongoInit<void>::status_`, the state of the driver library | static initialiser, constructor, `allPortsReady`, `prepareToShutdown` | the runtime; all operators of the PE share the driver |
| BSON building `B/Common/BSONCommon.pm` | none | SPL value to BSON | writers, find query and fields, authentication |
| BSON reading `B/Common/QueryCommon.pm` | the output tuple, `valueApplied` | BSON document to SPL attributes | Query |
| Find query and fields `B/Common/QueryCommon_cpp.cgt` | `findQueryBO_`, `findFieldsBO_`, or built per tuple | `buildFindQueryBO`, `buildFindFieldsBO` | Update, Delete, Query |
| Code generation checks (Perl parts of the templates) | none | choice of the input port of an expression, type errors | the SPL compiler |
| Operator models `*.xml`, `Types.spl`, samples, `info.xml`, `updateWeb.pl` | none | declarations, examples, a documentation script | |
| BSON format `V/bson/` | a buffer, open builders; a finished document | `append...`, sub-builders, `asTempObj`, `done`; iterator and accessors | BSON building and reading, the find query, messages |
| Builder memory `V/bson/util/builder.h`, `bsonobjbuilder.h` | `data`, `l`, `size`, `reservedBytes`, `_doneCalled` | `grow`, `reserveBytes`, `_done`, `decouple`, `reset`, destructors | every builder; exceptions |
| Reference counts `V/util/shared_buffer.h`, `V/base/status*.h` | a count per block | copy, assign, move, destroy | every `BSONObj` and `Status` of every thread |
| Atomic words `V/platform/atomic_*.h` | one word | load, store, swap, compare and swap, add | reference counts, ids |
| Wire messages, cursor batch `V/util/net/message.h`, `V/client/dbclientcursor.h` | `_buf`, `_data`, `_freeIt`; batch, position, `_putBack` | `setData`, `appendData`, `concat`, `=`, `reset`; `next`, `putBack` | driver, Query |
| Byte order `V/platform/endian.h`, `V/base/data_view.h`, `data_cursor.h` | none | conversion of numbers to and from bytes | BSON, messages |
| Geometry `V/geo/` | coordinates, parts, document, cached box | parse, construct, copy, `getBoundingBox`, queries | BSON |
| Text and values `V/base/string_data*.h`, `V/util/mongoutils/str.h`, `V/bson/{oid,bsonmisc,bson_field}.h` | strings, ids, remembered sizes, the stream of a builder | comparison, search, `got`, `<<` with labels | BSON |
| Rest of the driver headers `V/client/` | declared only; the code is a binary library | | |

What is hard in it:

* **Threads.** An SPL operator without a lock runs `process()` on as many threads
  as its upstream has. Everything per thread rests on two static
  `thread_specific_ptr`s; everything else in the operator is shared.
* **Failure.** Any driver call may throw in the middle of a tuple, after some of
  its writes were applied and before their errors were submitted. A read timeout
  leaves a write in an unknown state.
* **Protocol with the driver.** Authentication, reconnection and `getLastError`
  are per connection; the order of `connect`, `auth`, `isFailed` and the writes
  decides what is authenticated and whose error is read.
* **Data.** Widths, the timestamp arithmetic, and BSON types one direction of the
  conversion writes and the other refuses.
* **Memory.** Builders share a buffer that moves; an exception unwinds them one by
  one; counts are shared by threads; messages pass buffers on; objects of a cursor
  point into its batch.

What makes each component correct is stated by the properties of section 3 and,
for what is not modelled, by section 5. `PROJECT.json` lists the hazards at their
lines.

## 2. Modules

| Module | What it is |
|---|---|
| `DriverConnection` | the connection objects of the threads, the server and the network |
| `MongoWriter` | `process()` of Insert, Update and Delete, its properties and the inductive invariant; extends `DriverConnection` |
| `WriteContract` | what the operator promises of each write, without threads, connections or messages |
| `MCMongoWriter` | output clauses and constants for TLC |
| `MongoWriterProofs` | TLAPS proofs about `MongoWriter` |
| `MongoQuery` | `process()` of Query, its properties and the inductive invariant; extends `DriverConnection` |
| `ResultStream` | what Query promises of the answer to each tuple, as its output port sees it |
| `MCMongoQuery` | constants for TLC |
| `MongoQueryProofs` | TLAPS proofs about `MongoQuery` |
| `DriverConnectionProofs` | lemmas about `DriverConnection`, for both proof modules |
| `RefCount` | reference counted memory: `SharedBuffer`, `Status` |
| `OperatorLifecycle` | the operators of a PE from static initialisation to destruction; extends `RefCount` |
| `MCOperatorLifecycle`, `OperatorLifecycleProofs` | constants for TLC; TLAPS proofs |
| `ByteOrder`, `PortableNumbers`, `ByteOrderProofs` | numbers as bytes on builds of either order; what it promises of a number; TLAPS proofs |
| `BSONFormat` | the bytes of every append and the accessors over bytes; extends `ByteOrder` |
| `SplMapping` | what the generated code writes for an SPL value, and how it reads one; extends `BSONFormat` |
| `BSONDocument` | a document built call by call and read back; extends `SplMapping` |
| `MCBSONDocument` | SPL values and other writers' values for TLC |
| `BuilderMemory` | the memory of a builder |
| `SizeTracker` | the sizes of the last documents, from which a builder's first buffer is chosen |
| `BuilderMemoryProofs` | TLAPS proofs about `BuilderMemory` and `SizeTracker` |
| `WireMessage`, `MCWireMessage` | messages and the batch of a cursor; extends `ByteOrder` |
| `WireMessageProofs` | TLAPS proofs about `WireMessage` |
| `AtomicRegister` | a word whose operations take effect at one moment |
| `AtomicWord`, `MCAtomicWord` | the same operations over each family of intrinsics |
| `AtomicWordProofs` | TLAPS proof that `AtomicWord` implements `AtomicRegister` |
| `TextUtils`, `Geometry`, `StreamBuilder` | functions of the value classes |
| `LibraryValues`, `MCLibraryValues` | these classes under sequences of calls |

A definition called a *variant* in a comment is a version of the next definition with
one thing wrong. No specification uses it; replacing the definition by its variant
makes a property fail, which shows that the property depends on it.

### MongoWriter

The three writers share one shape, so they are one model. `Assignments` is the
output clause, a sequence of records: the function (`Write` for all of
`InsertDocument`, `UpsertDocuments`, `RemoveDocument`, ...; or `AsIs`), the port
its generated `if(port == n)` tests (`AnyPort` when none is generated), whether
the document is JSON text, and the database. A thread walks through it:

| Step (`pc`) | Code (Insert) | Action |
|---|---|---|
| `idle` | not in `process()` | `Receive` |
| `assign` | next attribute, port test, document (44-91); after the last, submit (133) | `Skip`, `SetAsIs`, `BuildDocument`, `Finish` |
| `query` | `buildFindQueryBO(tuple)` (Update 105-110, Delete 64-69) | `BuildFindQuery` |
| `connect`, `auth` | `getDBClientConnection` (97; ThreadCommon 4-32) | `GetConnection`, `Authenticate` |
| `check` | `isFailed()` (99-107) | `CheckFailed` |
| `profile` | `setDbProfilingLevel` (109-113) | `SetProfiling` |
| `send`, `reply` | the write (115) | `Send`, `ServerAnswers`, `ReceiveReply`, `ReplyLost` |
| `gle` | `getLastError()` (116) | `GetLastError` |
| `count` | metric, or error tuple (118-128) | `Count` |

An exception is `Throw`: the thread leaves `process()`, its locals are destroyed.
`ExceptionEndsPE` chooses between the two things the runtime may do then, end the
PE or drop the tuple (an exception-catching policy around the operator). The writers'
runs take the second, where more can follow an exception; the proofs cover both. A null
or mistyped pointer is undefined behaviour; `Crash` is the outcome that ends the
PE. The mistyped cast of `buildFindQueryBO` may also read garbage and go on, so
`BuildFindQuery` allows both.

A write is identified by its tuple's number and its position in the output clause.
`store` (what the server applied) and `outcome` (what became of each write) are
history variables; no action reads them to decide what the operator does.

### DriverConnection

The driver is a binary library; its behaviour is taken from the contracts in
`V/client/dbclientinterface.h`. A connection has `failed` (`_failed`), a link, the
databases it is granted, `authCache`, the server's last error for it and the
request on its wire. `Ready` is `checkConnection()`, with which every call starts:
a failed connection reconnects if `autoReconnect` is set and the server is up,
and repeats the authentications of `authCache`, which the server may reject.
`isStillConnected()` returns a flag and changes nothing, so it is no step.
A link lost while nobody uses it is noticed by the next call only.

### WriteContract

A write is issued at most once; the server may apply it while it is pending; then
it is settled once: `counted` (the server holds it), `reported` in an error tuple
(the server does not), or `abandoned` (nothing is known). `MongoWriter` implements
it with `held <- store` and `fate <- outcome`.

### MongoQuery

| Step (`pc`) | Code (`Query_cpp.cgt`) | Action |
|---|---|---|
| `idle` | not in `process()` | `Receive` |
| `build` | `buildFindFieldsBO`, `buildFindQueryBO` (71-83) | `BuildQuery` |
| `connect`, `auth`, `check`, `profile` | as in the writers (87-103) | `GetConnection`, `Authenticate`, `CheckFailed`, `SetProfiling` |
| `query`, `reply` | `connPtr->query(...)` (105-109) | `SendQuery`, `FirstBatch`, `QueryLost` |
| `gle` | `getLastError()`, metric (110-116) | `GetLastError` |
| `more`, `getmore` | `cursor->more()` (117, 118) | `More`, `NextBatch`, `BatchLost` |
| `convert` | `next()`, copy, conversion, hash test (119-149) | `Convert` |
| `submit` | inside `submit(...)` (149, 153, 156) | `Submitted`; entered by `Convert` and `End` |

`template` is the thread's `otuplePtr_`, reduced to the input tuple whose
assignments it holds. What is submitted is reduced to that, and to the numbers of
the documents whose fields it has. A document is one of four kinds, by what the
hash test tells apart: it changes the copy (`fills`), has the copy's values
(`matches`), has no searched field (`misses`), or is the server's error document
(`err`), which counts as a document for the operator. `submit` is a step of its
own, so other threads run while one is downstream.

The server answers a query with any number of documents up to the bound, in
batches it cuts as it likes but not empty before the end (the cursor is not
tailable), or with an error. Only an error may show in `getLastError()`, and need
not, as that speaks of writes. `query()` over a link that breaks throws or
returns null, and reading a null cursor is undefined: a signal, or the driver's
"connection died".

`phase`, `settled`, `delivered` and `found` are history variables: how far each
answer is, how many of its documents were gone through, which gave a tuple, and
how many the server has in all.

### ResultStream

An answer begins (or is refused); its documents are gone through in order, each
giving one tuple or none; it ends with a window marker, or with one tuple without
documents if none was found; nothing follows. It may be broken off before its end.

### OperatorLifecycle and RefCount

A *handle* is a `BSONObj` or `Status`: the member `findQueryBO_` of an operator, or a
local of a thread. Copying one is two steps, the pointer and then the count
(`Copy`, `AddRef`); assignment goes through a temporary; the last owner's decrement
and the freeing are two more (`Release`, then the delete). Steps of different threads
interleave. An operator goes through `StaticInit`, `BuildMembers`, `CheckStatus`,
`AllPortsReady`, `Enter`/`InProcess`/`Leave` of its threads, `PrepareToShutdown`,
`Destruct`. `shutdown()` of the driver waits for no thread; only the destruction of an
operator does, which is the runtime's contract: that it comes is assumed nowhere. The comment at
`V/bson/bsonobj.h:46` says copies are not thread-safe because the counts are not
locked; the counts are atomic, and `CountExact` is proved for any number of threads
that share no handle for writing.

### BSONFormat, SplMapping, BSONDocument

`BSONFormat` has one operator per append, giving the bytes it adds, and one per
accessor, reading bytes. `BSONDocument` is the state machine around them: a stack of
open builders and of buffers (a sub-builder writes into its parent's, any other has
one of its own). The calls come from `SplMapping!Build`, the calls the generated code
makes for an SPL value, or, for a document of another writer, are arbitrary. A byte has
`ByteBase` values (256 in the code), a double is a number of halves, an SPL map a
sequence of entries in key order.

### BuilderMemory

One buffer, the builders over it, and the steps of `grow_reallocate` (`GrowLoop` is
one doubling). What is written is a number of bytes. Every step that may throw leads to
`unwinding`, in which the destructors run from the innermost builder out. `wild` is
set when memory is written or freed that the builder does not own, `lost` holds blocks
nobody points to.

### WireMessage

Three messages over one heap, a caller that hands buffers over, and a cursor whose
batch is one of the messages. `text` and `cursor.due` are history: what a message was
given to carry, and the documents the caller has still to be done with.

### AtomicWord and AtomicRegister

A build is a record saying how each operation is implemented: at once, or by one of
the loops around `compareAndSwap`, and whether it has `loadRelaxed()`. A word wider than a
pointer is read half by half.
`AtomicRegister` has three steps, call, effect and return.

### LibraryValues

A behaviour is about one subject: two growing strings, a number, a size tracker, the
geometry objects of a program, or a document written with `<<`. The functions are in
`TextUtils`, `ByteOrder`, `Geometry` and `StreamBuilder`, the tracker is `SizeTracker`, what is
asked of a number `PortableNumbers`; the references, written from what the classes are for,
are next to the properties.

## 3. Runs

Passing runs:

| Run | Instance | Properties |
|---|---|---|
| `WriterSafety` | Insert: two assignments, one of port 0 only, one JSON; two ports, two threads, two tuples, two faults; `username` authentication that may be rejected; `autoReconnect`; an exception costs the tuple | `ErrorAttribution`, `TupleAccount`, `ErrorTupleTrue`, `MetricExact`, `NoLimbo`, `IInv` |
| `WriterContract` | Update: JSON `findQuery` over port 0, an `AsIs` attribute, two ports, two threads, two tuples, one fault; `authentication`, profiling; no `autoReconnect`; every login granted; an exception costs the tuple; fairness | `WritesAuthenticated`, `ImplementsContract`, `Returns` |
| `QueryNoReconnect` | two threads, two tuples, two documents, one fault; `authentication` that may be rejected, profiling, a conversion that may throw; no `autoReconnect`; an exception ends the PE | `IInv`, `CursorIsThere` |
| `QueryStream` | the same numbers; `username` authentication, `findQuery` parsed per tuple; `autoReconnect`; an exception costs the tuple; fairness | `TupleTrue`, `WholeAnswer`, `NoneLeftOpen`, `ImplementsResultStream`, `QueryReturns` |
| `Lifecycle` | two operators, two threads with three locals, two blocks, two copies per call | `CountExact`, `NoUseAfterFree`, `NoLeak`, `MemberAlive` |
| `BSONDocument` | 40 SPL values of every type, 33 values of other writers, names with and without NUL, four calls; a little and a big endian build | `WireFormat`, `ReadBack`, `RoundTrip`, `Accessors` |
| `BuilderMemory` | three blocks, three nested builders, a limit of 16 bytes and an int of 63, one failed allocation; fairness | `DoneCannotFail`, `OwnedOnce`, `NoWildAccess`, `CallsEnd` |
| `WireMessage` | three blocks, two documents in each of two batches, both byte orders | `OwnedOnce`, `MessageWhole`, `ObjectsInOrder` |
| `AtomicWord` | two threads, four calls of nine operations, every build, words of two halves of two values; fairness | `ImplementsRegister`, `SpinsEnd` |
| `LibraryValues` | strings of three of five characters, all ints of four-valued bytes and, for eight bytes, 256 patterns of both halves, 28 geometry documents in two objects and five calls, five `<<` | `TextLaws`, `NumbersPortable`, `SizeRemembered`, `BoundingBoxes`, `GeoDocuments`, `StreamLaws` |

* `IInv`: the inductive invariant of the proofs (section 4), type correctness included;
  `TypeOK` of `BSONDocument` and `WireMessage` is a part of `WireFormat` and `OwnedOnce`, that
  of `OperatorLifecycle` and `BuilderMemory` a part of the invariant proved for them.
* `ErrorAttribution`: the error a thread reads is the outcome of its own write.
* `TupleAccount`: half way through a tuple every write so far is counted or waits
  in the error tuple; writes of other ports were never issued.
* `ErrorTupleTrue`: the error tuple names only earlier writes of this tuple the
  server does not hold, and exists whenever it is going to be submitted.
* `MetricExact`: the metric is the number of confirmed writes, all held.
* `NoLimbo`: a write is unsettled only while its tuple is being processed.
* `WritesAuthenticated`: with credentials, no write leaves unauthenticated. It
  holds without `autoReconnect` as long as the server grants every login, because the
  connection of a connect or login cut short is flagged and `isFailed()` refuses it; a
  rejected login flags nothing, so with one it holds only when the exception ends the PE;
  and as a login opens one database, for one database. The theorem `Authentication` covers
  all of these cases; with `autoReconnect` it fails (`ReconnectNoAuth`, below).
* `Returns`: given a timeout, `process()` ends.
* `TupleTrue`: a submitted tuple has the assignments of its own input tuple and
  the fields of one document, the last one read.
* `WholeAnswer`: an answer ends only after all the server has, over all batches,
  with a window marker exactly when there was any.
* `NoneLeftOpen`: an answer is open only while a thread of a running PE gives it.
* `CursorIsThere`: no null cursor is read. It holds without `autoReconnect`, where
  `getLastError()` throws on the connection that lost the query, and fails with it.
* `ImplementsResultStream`, `QueryReturns`: the contract of the output port, and,
  given a timeout, the end of `process()`.

* `CountExact`, `NoUseAfterFree`, `NoLeak`: a count is the number of its owners; nothing
  is reached after it is freed; nothing stays allocated without an owner.
* `MemberAlive`: while the runtime keeps an operator with threads in it, the document `process()` refers to outlives every thread in it, also
  after `prepareToShutdown`, and no operator runs whose driver failed to initialise.
* `WireFormat`: whatever sequence of calls built it, a document is laid out as the format of
  what was appended: sizes, terminators, byte order. A name with a NUL is laid out as it was given,
  by the two appends that do not check names, `appendAs` and `appendUndefined`; the document is
  then no valid BSON.
* `ReadBack`, `Accessors`: what was appended is what is read, and an accessor never shows
  the bytes of another type as its own, in every document whose names have no NUL; a name
  that has one ends there for the reader.
* `RoundTrip`: what a Query reads of a stored value, exactly. As the same type: the value
  itself, with timestamps cut to milliseconds, without blobs (`isSimpleType()` is false for
  them, `QueryCommon.pm:215`) and without collections that have nothing to be read
  (`:121`; inside a list the entries after one move up). The values that come back wrong are the
  times before the epoch with a part of a second, and no others (`BSONCommon.pm:167`). As another
  integer type: what fits, and otherwise what is left in its width (`:333`).
* `DoneCannotFail`: the reserved byte is there when `_done()` runs, in a destructor too.
* `OwnedOnce` (builder): one owner per block; a failed `realloc` loses one, the only leak.
* `NoWildAccess`, `CallsEnd`: no access to memory that is not the builder's;
  growing and unwinding end. `CallsEnd` is for appends below half the range of int, 1 GiB
  in the code; a larger one does not end (below).
* `OwnedOnce` (message), `MessageWhole`, `ObjectsInOrder`: one party frees each buffer; header,
  `size()` and bytes are one message; the cursor gives every document once, in order.
* `ImplementsRegister`, `SpinsEnd`: each operation takes effect at one moment, on wide words
  read in halves too; the loops end.
* `TextLaws` (`StringDataLaws`, `OidOrder`, `CStringLaws`), `NumbersPortable`,
  `SizeRemembered`: the functions against their reference definitions, with NULs, empty
  strings and all byte orders. Of `stripTrailing()` the law says what the code does: it throws
  on a NUL (`str.h:130`) and drops the characters wherever they stand; its comment says
  otherwise (below).
* `BoundingBoxes` (`BoxTight`, `NullBoxOnlyEmpty`): boxes are the smallest, also cached and
  copied; a null box is dereferenced for an empty collection only (the code has no
  check for it).
* `GeoDocuments` (`GeoRoundTrip`, `ParserExact`): documents read back; what is refused is
  malformed or has an int among its numbers, which `Double()` does not take; the examples in
  the headers are such documents (below).
* `StreamLaws` (`StreamAsSaid`, `StreamRefusals`): the document is what the `<<` say; they
  throw only for a label without a name.

Runs that show a disagreement between the code and its documentation; each
finding of `PROJECT.json` quotes both sides:

| Run | What happens |
|---|---|
| `ReconnectNoAuth` | the first connect fails, the driver connects later, nothing authenticates |
| `NullCursor` | a query lost with its link is followed by a successful reconnect, and its null cursor is read |

Both are the instance of a passing run made small, with the one condition that matters
changed.

More is visible in the models without a run of its own. The first seven contradict a
text of the repository, the others are worth knowing:

* **Two databases.** `Authenticate` runs once per connection, for the database of the first
  write; a write to another database then leaves unauthenticated
  (`ThreadCommon_cpp.cgt:19`). `dbclientinterface.h:835`: "Authentication is separate for each
  database on the server". No run writes to two databases.
* **Lost errors.** The server refuses the first write of a tuple, building the second document
  throws (`Throw` in `assign`), and the error tuple is lost (`Insert_cpp.cgt:91`), though the
  output port is there "to propogate returned errors downstream" (`Insert.xml:15`).
  `WriteContract` calls such writes abandoned, so that no property excludes it.
* **Shutdown under work.** `PrepareToShutdown` of any operator of the PE terminates the driver
  while threads are in `process()`, of the others too (`MongoOperator_cpp.cgt:27`); "Once the
  driver has been terminated, it cannot be initialized again" (`init.h:59`). What such a thread
  meets in the driver is not modelled.
* **Unchecked names.** `AppendValue` of `appendAs()` or `appendUndefined()` takes a name with a
  NUL (`bsonobjbuilder.h:132`, `:579`), though the others
  assert that a "field name cannot contain null bytes" (`:47`) and the format asks for a
  `<cstring FieldName>` (`bsonobj.h:54`).
* **Huge appends.** For more than half the range of int, the doubling of `GrowLoop` wraps, to a negative
  number and then to 0, before the limit is tested, and never ends (`builder.h:281`), although the
  code says "past the 64MB limit" to it (`:286`). `MaxAppend` is below that in the run; with a
  larger one `CallsEnd` fails.
* **`stripTrailing()`** removes the characters in front of others too (`str.h:233`; `:226`
  "remove trailing chars in place").
* **Ints in geometries.** `Double()` throws on an int (`geometry.h:106`, `boundingbox.h:194`), so the examples
  of `point.h:61` and `boundingbox.h:98`, made of int literals, are refused; they are the first two
  documents of `MCDocs`.

* `BuildFindQuery`: `findQuery` reads the attributes of another port's tuple
  (`QueryCommon_cpp.cgt:27`, a `static_cast` without a test).
* `Convert`: the server's error document is converted as a result
  (`Query_cpp.cgt:119` uses `next()`, not `nextSafe()`).
* `submit` of two threads at once: the answers to two tuples, window markers included,
  mix on the port. `Query.xml:78` says that the operator keeps a single-threaded context, not that
  it makes one, so this contradicts no text; `ResultStream` speaks of one answer.
* A document whose fields have the template's values gives no tuple (`Query_cpp.cgt:149`).
* `SetAsIs` can only crash unless an earlier write of the same tuple failed, as
  `otuplePtr` is null until then (`Insert_cpp.cgt:53`).
* `ReplyLost` fails an open link to a slow server, though `Insert.xml:132` calls the
  timeout a connection timeout.
* A geometry constructor accepts a document with any string in `type` (`geoobj.h:67`).

**Bounds.** Two threads are enough for one to disturb another, and no action of the
operators relates three. Two tuples let a thread come back to
a connection the first left behind; two faults let a server stop and, after it is
back, a link fail again. Two assignments give an earlier and a later write of one
tuple. `MaxTuples` and `MaxFaults` are the only bounds, in the guards of `Receive`,
`ServerStops` and `LinkLost`. `MongoQuery` adds `MaxDocuments`, in `FirstBatch`: two
documents are the least that make a second batch, a copy after a copy, and an error
in the middle of an answer. In `Lifecycle`, `MaxCopies` bounds one call of `process()`: two
copies let one thread drop a document while another takes it. In `BuilderMemory`,
`MaxAppend`, `MaxDepth` and `MaxOom` bound a call, the nesting and the failures; the
sizes keep the order of the real ones (first allocation < buffer < limit < int) and
allow several growths. In `BSONDocument`, `MaxCalls` is two appended values, or one
with two builders around it; the other writers' values include every BSON type, the
SPL values every SPL type at both ends of its range. In `WireMessage`, `MaxText`, `MaxDocs`
and `MaxBatches` allow a message of three buffers and a put-back across two batches.
In `LibraryValues`, `MaxText`, `MaxNumber`, `MaxGeo` and `MaxSaid` allow a box cached
before and after a copy, a part made into a whole, and a label after a label after
a name. The proofs need none of these bounds; that a message is whole needs `MaxText` and
`MaxDocs` below what a signed length can count (`SizesAssumption`).

**Fairness.** `FairSpec` is weak fairness of `process()` of each thread: a runtime
thread inside an operator is scheduled. Nothing is assumed of the server, the
network or the source. A wait for an answer ends because the timeout lets
`ReplyLost` happen: with `HasTimeout = FALSE`, the default of the parameter,
`Returns` does not hold, and no property says it does. For Query the fair steps
include `Submitted`: downstream operators run on the submitting thread, and are
assumed to return. `AtomicWord` has weak fairness of each thread inside an operation; with finitely
many calls a loop can fail only finitely often. `BuilderMemory` has weak fairness of
what a thread does by itself once it is inside the library (`Busy`) or unwinding
(`Leaving`). None of these assumes that anybody calls an operation.

## 4. Proofs

`MongoWriterProofs` proves, for every number of threads, tuples, ports and
assignments, every output clause and all values of the parameters:

* `Invariance`: `IInv` always holds;
* `TypeCorrect`, `Attribution`, `Accounting`, `ErrorTuples`, `Settled`: `TypeOK`,
  `ErrorAttribution`, `TupleAccount`, `ErrorTupleTrue` and `NoLimbo` follow from it;
* `Refinement`: `Spec => ImplementsContract`;
* `MetricCorrect`: `MetricExact` always holds;
* `Authentication`: `WritesAuthenticated` always holds without `autoReconnect`, when the
  server rejects no login or an exception ends the PE (`RejectionIsFinal`), and one
  database is written to (`OneLogin`). Each condition is needed, as `ReconnectNoAuth` and section 3 show. `AuthInv` says of a connection that is past its login that it is granted
  what the thread writes to or flagged as failed, and that it is granted it while a
  request is on the wire; `isFailed()` is what takes a thread from the one to the other.

The assumptions are `DriverAssumption` and `WriterAssumption`, the types of the
constants. None restricts the number of anything.

*The argument.* `ErrorAttribution` is not inductive: that the message is the
outcome of the thread's own write depends on what the connection carried when it
was read, and so on every step since the request left. `InFlight` says, for each
step from the assignment to the metric, what is known of the current write: not
issued; pending and, if not yet executed, not held; executed, with the server's
last error for this connection as its verdict; the verdict read. `Place` says that
the current write exists and is of the thread's port, `Numbers` that no two
threads process the same tuple, so the writes of one are no business of the other
(lemma `Others`), `Held` ties what is said of a write to what the server holds.
`IInv` is their conjunction with the properties themselves. There is one lemma per
action; steps that look alike share `TowardsSend`, `LoopStep`, `WriteStep` and
`ThrowStep`. The refinement follows step by step: `Send` is `Issue`,
`ServerAnswers` is `Apply` or a stutter, `Count` is `Confirm` or a stutter,
`Finish` is `Report`, an exception or a crash is `Abandon`. The metric moves with
`Confirm` only, and a confirmed write was not counted before.

`MongoQueryProofs` proves, for any threads, tuples, documents and parameters:

* `QueryInvariance`: `IInv` always holds;
* `QueryTypeCorrect`, `TemplateIsolation`, `AnswerComplete`, `AnswersClosed`: `TypeOK`,
  `TupleTrue`, `WholeAnswer` and `NoneLeftOpen` follow from it;
* `StreamRefinement`: `Spec => ImplementsResultStream`;
* `CursorAlwaysThere`: `CursorIsThere` always holds without `autoReconnect`. `CursorInv`
  says that a thread with a null cursor has a failed connection, on which `getLastError()`
  throws before the cursor is used.

The assumptions are `DriverAssumption` and `QueryAssumption`. `WholeAnswer` needs
to know, at the end of the loop, that what was gone through is what was found:
`Reader` carries it as an equation, documents gone through + documents at hand +
documents left with the server = documents found, from the first batch on, and says
that `docFound` is true exactly when something was gone through and that the
thread's template holds its tuple. `Numbers` again keeps threads apart; lemma
`ThreadStep` uses it once for all actions: a step that leaves other threads' locals
and other tuples' answers alone need only keep its own thread's part.

`OperatorLifecycleProofs` proves `CountExact`, `NoUseAfterFree`, `NoLeak` and `MemberAlive`
for any operators, threads, handles and blocks (`ExactCounts`, `MemorySafe`, `NothingLost`,
`MemberOutlives`). `RefCountAssumption` asks that a count cannot overflow: fewer slots than
values of the word. The invariant counts owners: `CountInv` says that the count of a
live block is the number of slots that own one of it, that a slot still being
copied has a source that keeps the block alive, and that a block at count 0 is
being freed by exactly one handle. Each step adds or removes one slot of one block,
so the cardinality changes by one; `LifeInv` adds that a member is untouched while a
thread is in its operator.

`BuilderMemoryProofs` proves `DoneCannotFail`, `OwnedOnce` and `NoWildAccess` for any sizes,
limits, nesting, number of blocks and failed allocations (`ReservedByte`, `Ownership`,
`MemorySafety`). `Shape` ties the program counter to the members: a buffer exists
until an exception or `obj()` takes it, a growth knows what it was asked for, a
builder that is done is the innermost one. `DoneCannotFail` is an equation, reserved bytes
= builders that are not done, so that each step accounts for its own byte.

It also proves `SizeRemembered` of `SizeTracker` (`TrackerRemembers`), for any number of sizes
kept. The array is a ring: the invariant `Tracked` says that the sizes given last, newest
first, are its places from the one before `_pos` backwards and around, so `got()` overwrites the
oldest (`GotTracked`), and all places together are the last sizes. That the loop of `getSize()`
finds the largest is shown by induction on its counter (`LargestIs`).

`AtomicWordProofs` proves `RegisterRefinement`, `Spec => ImplementsRegister`, for any
threads, word size, calls and builds. An operation takes effect in `TakeEffect`: at its
one instruction, or at the comparison of its loop that finds the word as expected
(`EffectStep`). Every other step inside an operation, the rounds of a loop and the two
halves of a wide word among them, only changes what the thread expects, and is a stutter
of the register (`HiddenStep`). The rest is that the generated code computes what the
register does; for `fetchAndSubtract`, which adds the negated operand, that is arithmetic
modulo the size of the word (`SubtractIsAdd`).

`WireMessageProofs` proves `OwnedOnce` for any blocks, sizes, texts and replies
(`MessageOwnership`). "Exactly one party frees it" is not inductive, because it says
nothing of a message that only looks at a buffer: `Ownership` adds that such a message
looks at buffers of the caller (`Exclusive`), that what a message owns is not the
caller's nor another message's, and that nothing allocated is without an owner
(`Accounted`). `reset()`, `concat()` and `=` then move or free a set of blocks that meets
no other.

It also proves `MessageWhole` (`WholeMessages`). The invariant is `Contents`, together with
`Ownership`: the buffers of a message, one after the other, are a header and the text it was
given (`Carries`), the length field of the first says how long that is, the sizes in the
vector are those of its buffers, and no two messages share a buffer, not even one they only
look at (`Apart`), or writing one's header would change another's. `appendData()` needs both
halves: it takes the size of the first buffer from its header, which is right only as long as
that buffer is alone (`AloneLength`), and adds to a header that is still the first of the
vector (`CarriesReheaded`, `CarriesMore`). What FlattenSeq and SizeOf compute, recursive
functions, is shown by induction on a set of numbers, from the library's `WFMin` (`Induction`).
`SizesAssumption` asks that a header and the longest text, buffer or reply stay below
`LengthLimit`, half of what four bytes count: 2 GiB in the code, which accepts messages of up
to 48000000 bytes (`message.h:36`); beyond it the length would be negative, and nothing in
`appendData()` prevents that. TLC evaluates it for the constants of the run.

On top of the two it proves `ObjectsInOrder` (`DocumentsInOrder`): what `next()` hands out is
what the server sent, in order and each document once, for any batches, documents and calls of
`putBack()`. The property says nothing of the documents behind the next one, so the invariant,
`Deliveries`, follows all of them: each object held or put back shows its document (`Shows`),
as a copy of its own or at its place in the batch, and the documents not handed out yet lie
one after the other from where the cursor stands, as many as `nReturned - pos` (`Delivered`).
One lemma for each way the cursor moves (`TakenAgain`, `TakenFromBatch`, `Returned`,
`Consumed`, `NewBatch`) keeps it. `next()` steps over a document by the size it reads in it,
which is the size the server wrote (`DocSize`, from the lemmas on four-byte numbers), and an answer
is a header of 36 bytes with the documents at multiples of six (`ReplyDocs`). The batch has to
be alone too: no call on another message, and nothing the caller builds or frees, changes or
frees the bytes the objects point into (`BatchAlone`, `BatchKept`), which is `Apart` again.

`ByteOrderProofs` proves `NumbersPortable` (`NumbersTravel`) from `EveryNumberPortable`: a
number of any width, signed, unsigned or floating, written by a build of one byte order is
read by any build of either, and the bytes of the two orders mirror each other, for bytes of
any even number of values, at least four. Its functions are recursive, so that each is first
shown to exist as far as any number (`Recurrence`) and then followed step by step, by
induction on a set of numbers (`Induction`). A number is its digits (`NumberOfDigits`) and
digits a number (`DigitsOfNumber`), because dividing twice is dividing by the product
(`Twice`); so the built-in swap mirrors the digits (`BuiltinMirrors`). The swap by shifts
has, after i bytes, added what the other reads from the last i of the mirrored digits, times
the weight of the bytes to come (`SlowIsBuiltin`). The sign moves by the size of the word
(`SignedUnsigned`, `BitsOf`), and a single byte has no order (`OneByte`). The weights are a
recursive function, `Powers`, because the provers know nothing of `^` with a variable base.
`WireMessageProofs` uses these lemmas for the length field of a header.

*Model-checked only*: liveness (`Returns`, `QueryReturns`, `CallsEnd`,
`SpinsEnd`), which is out of the prover's reach; the properties of `BSONDocument` and, of
`LibraryValues`, `TextLaws`, `BoundingBoxes`, `GeoDocuments` and `StreamLaws`, whose modules
declare recursive operators.

## 5. Not modelled

See the components of `PROJECT.json`. In `MongoWriter`: log messages, the content
of documents (building one may throw, if it is JSON); in `MongoQuery`: which fields of a
document an attribute takes, and a collision of the hash, which would drop a document
as a match of the template does; in both: the three `update` flags, `justOne` and
the limit of a query, which change what the server does and not what the operator
does; the backoff of reconnection; several operators in one PE, which share no
variable but the driver (`OperatorLifecycle`).

In the driver headers: everything whose body is in the binary library (sockets,
commands, bulk operations, GridFS, replica sets, comparison and printing of
documents), and what only declares or forwards to it. `BSONObjBuilder::abandon()`, after
which no call is allowed. The allocations inside a geometry collection: when a later
geometry is malformed, the earlier ones are lost (`geometrycollection.h:165`). Memory
order between different words. The code generation checks (Perl): they decide at
compile time what C++ is printed, among them that the port of an expression is found by a
substring test (`Insert_cpp.cgt:77`) and that two `RemoveDocument` attributes declare one
name twice (`Delete_cpp.cgt:64`).

## 6. Plan

1. `MongoWriter`, `DriverConnection`, `WriteContract`, the proofs (done).
2. `MongoQuery`, `ResultStream`, the proofs (done).
3. `OperatorLifecycle`, `RefCount`, the proofs (done).
4. `ByteOrder`, `BSONFormat`, `SplMapping`, `BSONDocument` (done).
5. `BuilderMemory` with proofs, `WireMessage`, `AtomicWord`, `SizeTracker`, `LibraryValues` (done).
6. Further proofs: `AtomicWord` implements `AtomicRegister`, the three invariants of
   `WireMessage`, numbers of every width, the size tracker (done).
7. The port dispatch of the templates as a function of the expressions' text.
