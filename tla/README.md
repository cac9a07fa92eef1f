# Verification of the Wan library

TLA+ specifications of the Wan library (a header-only C++ library: a web server
and client on Boost.Asio coroutines, a transport layer, logging, and a set of
containers), checked with TLC and partly proved with TLAPS. Each module names
the source it is translated from; `PROJECT.json` maps every definition to its
lines.

## Contents

1. [The system](#the-system)
2. [Modules](#modules)
3. [Runs](#runs)
4. [Where the code and its documentation disagree](#where-the-code-and-its-documentation-disagree)
5. [Bounds](#bounds)
6. [Fairness](#fairness)
7. [Proofs](#proofs)
8. [Not modelled](#not-modelled)
9. [Plan](#plan)

## The system

| Component | State it keeps | Operations | What is hard about it | What makes it correct |
|---|---|---|---|---|
| Executor (`Web/Core/Executor.hpp`) | lifecycle, io_context, work guard, worker threads, first handler exception | Run, Join, Stop, DrainStopped, destructor | calls from several threads and from handlers on the executor's own workers; thread creation that fails half-way | Joined only when no thread is left; no stop lost; every exception reported once |
| Server (`Web/Server/Server.hpp`) | start and stop flags, acceptor, drain timer, connection counter, registry | Start, Wait, BeginGracefulStop, ForceStop; accept loop; drain timer | decisions under one mutex whose effects are dispatched later to strands; stops during start-up; errors at any await | the limit holds, a graceful stop abandons nobody, every stop finishes, nothing survives Wait |
| Connection (`Server::HandleConnection`, `ConnectionRegistry.hpp`) | socket, handler flag, cancellation signal, request count, slot, registry entry | launch, handshake, read, handle, write, close | a close operation interleaved with the coroutine at every await; failures between acquiring slot, entry and gauge | slot, entry and gauge taken and given back once; cancellation reaches the right handler only |
| Application (`Web/Application/Application.hpp`) | lifecycle state, failure, server | Start, Stop, Wait, State, destructor | Start holds the lifecycle mutex while the server starts, and handlers want it | the published state is never ahead of the server; documented state machine |
| Router (`Web/Router/Router.hpp`) | a radix tree per method, frozen flag | registration, freeze, match | overlapping static, typed and greedy edges; nodes split by later registrations; backtracking over captured parameters | a match is what reading the accepted registrations one by one gives |
| Middleware (`Web/Middleware`, dispatch in `Server.hpp`) | list by priority, the index of a running chain | Use, Run, Next | a Next called twice, not at all, or followed by an exception | each middleware once, in order; errors contained by the error handler |
| Session store (`Web/Session/Session.hpp`) | sessions with expiry | Create, Get, Set, Destroy, CleanupExpired | expiry between the steps of several threads; capacity occupied by expired sessions | an expired session is gone for everybody at once |
| HTTP client (`Web/Client`) | TLS context made on demand | Get, Post by host or URL | chains of redirects; a deadline at every await; concurrent first use of TLS | no forbidden redirect, no repeated body, every call ends |
| Log (`Chronicle/Log.hpp`) | open files by path, settings; the files and archives on disk | FileWrite, CloseFile, Shutdown, settings | an entry of the map held across an await; rollovers that fail half-way; archives whose age is their name | a record reported as written is kept, in order |
| Ordered containers (`Base.hpp`, `Tree.hpp`, `Map.hpp`, `Set.hpp`) | linked nodes with colours or heights | insert, erase, find, iterate, copy, move, clear | rebalancing after long histories; a copy that fails | balance, search order, the abstract map |
| Hash containers (`Base.hpp`, `Bloom.hpp`, `Map.hpp`, `Set.hpp`) | buckets, insertion list, bits | the same, rehash | a rehash that fails; load factor at its limits | chains and list agree; no false negatives |
| Sequential containers (`Vector.hpp`, `List.hpp`, `String.hpp`, `Queue.hpp`, `Stack.hpp`) | a block, a ring of nodes, a buffer, a heap | insert, erase, grow, copy, move | an element operation that throws in the middle; arguments inside the container | storage, terminator and order; the abstract sequence |
| Transport (`Transport/Transmission.hpp`, `Reliable.hpp`) | a socket that can be closed or released, a completion handler | read and write, whole or once, Cancel, Close, ReleaseSocket | short reads and writes, an end of the socket between two rounds, a handler that throws | the right bytes in order, each call answered once |
| Wire protocol (`Network/Agreement`) | header with length and checksum, body, cached text | setters, ToString, FromString, ToJson, FromJson, copy, move | a text that is kept while header and body change; two parsers of one text | a text says what its message says; a message is taken over whole or not at all |
| Scheduling pool, smart pointers | — | delegations to Boost.Asio and the standard library, ownership of one pointer | — | — |
| Cryptography, JSON, fault codes | — | wrappers over OpenSSL, Boost.JSON, `std::error_code` | — | — |

How they interact: an `Application` owns a `Server`; the server owns an
`Executor`, spawns its accept loop on a strand of it and one coroutine on a
strand of its own per connection; handlers, which run inside those coroutines on
the executor's workers, may call back into the application (`Stop`, `State`) and
into the server (`ForceStop`, `BeginGracefulStop`). Shared state is guarded by one
lifecycle mutex per class, but every class acts outside its critical sections, by
dispatching to strands or by joining threads; the interesting interleavings are
between such a section and its effects. Router, middlewares and session store are used by the
server's connections; client and log are used by applications and share nothing
with the server, and so do messages and transports. The containers are used by nobody else in the library.

## Modules

```
Application ── abstracts ──> Server ── abstracts ──> Executor ── implements ──> WorkerPool
                               │
                               ├── implements ──> SlotPool
                             Connection ── implements ──> SlotPool

MCServices ──> Pipeline ──> MiddlewareChain
                  └── uses ──> RouteTree
           ──> SessionStore ── implements ──> SessionPromise
           ──> HttpClient
           ──> Log ── implements ──> LogPromise
           ──> Message ── implements ──> MessagePromise
           ──> Transport

MCContainers ──> KeyedContainers ── implements ──> Dictionary
                 ── use ──> RedBlackTree, BalanceTree, BinaryTree (SearchTree),
                            HashTable, Adapters, BloomFilter
             ──> SequenceContainers ── implements ──> Series
                 ── use ──> Vector (with the heap and the stack), List, StringBuffer
```

**Executor** models `Executor.hpp`. A critical section is one step; everything
between two sections interleaves. `MemberState`, `MemberStopRequested`,
`MemberWorkers` and `MemberWorkerFailure` are the members of that name,
`workGuard`/`iocStopped` the work guard and `io_context::stopped()`, `joining[o]` the
local vector of a `Join`, `joinable` the `std::thread`s not joined yet, `pc` where
each thread is. Owners call `Run`, `Join`, `Stop`, `DrainStopped` and the
destructor; workers poll, run a handler, record its exception. Handlers may call
`Stop` and, where the instance allows it, `Join`.

**WorkerPool** is what users of the executor rely on: open, halted, closed; a thread
leaves only when halted, and closed means no thread is left.

**Server** models the lifecycle of `Server.hpp`. A section under
`MemberLifecycleMutex` is one step and leaves the calls the function still has
to make in `todo[a]`, worked off one step at a time: `ForceStop` sets the flags
in one step and then cancels the timer, closes the acceptor, closes the
connections and looks whether the stop can finish, while everybody else moves.
`strand` is the task queue of the accept strand, shared by `Run`, the drain timer's
coroutine and dispatched operations. A connection is reduced to where its
coroutine is, its socket and its slot.

**Connection** models one connection in detail: `pc[c]` follows
`LaunchConnection` and `HandleConnection` await by await, `strand[c]` is the
queue of the connection's strand ("co" resumes the coroutine, "close" is the
close operation of `CloseAll`), `handlerActive[c]` is `IsHandlerActive`,
`cancelled[c]` a delivered cancellation, `served[c]` is `RequestCount`.
`closeAsked` is a history variable.

**SlotPool** is the promise of both: a connection takes one of `MaxConnections`
slots at most once and gives it back at most once.

**Application** models `Application.hpp` over a server reduced to the
consequences that Server and Executor check. `mutex` is `MemberLifecycleMutex` only
where it is held over several steps (`Start`); the short sections are single
steps that need it free. `outcome` and `destroyed` are history.

**RouteTree** is the radix tree of one method as a value: a node is a record
that holds its children. `Insert` splits, descends and sorts as `RadixTree::Insert`
does and reports a conflict as the code throws; `Search` tries the children in
their order and erases a parameter when a branch fails.

**MiddlewareChain** is `MiddlewareChain` with the built-in middlewares. `stack` holds the
coroutines that wait for one another (frame 0 is the handler), `Index` is the index that
all `Next` functions of a chain share, `thrown` an exception on its way out, `ran` what was
entered so far. A middleware of the application calls Next a number of times and may throw
after that; the three built-in ones are as in `Builtins.hpp`. The list is kept in order by
the place that push_back and stable_sort give to what is added (`Place`).

**Pipeline** extends it by the router, which keeps a tree per method and, as history, the
accepted registrations, and by the part of `HandleConnection` between reading a request and
writing the response: `Dispatch` looks the route up and begins a chain or answers 404.
`Expected` reads the registrations one by one, without a tree.

**SessionStore** models `Session.hpp`: a step per critical section, and one for the part
of `Create` before its lock. `MemberSessions` keeps expired sessions until somebody
comes across them. **SessionPromise** has only live ones: there an expired
session vanishes at the tick of the clock.

**HttpClient** models `DoRequest`, `SendRequest` and `SendHttpRequest` await by await;
`deadline` says that a timer runs for the current await. A URL is scheme, user
info, host and port.

**Log** models `CoroutineLog` and the directories it writes to. FileWrite up to its only
waiting await is one step: `Opened` and `RolledOver` give the possible outcomes of its two
parts, failures included. `WriteCompletes` is the end of `async_write`,
`FileWriteResumes` what follows it. A file is the sequence of the numbers of the calls whose
bytes it holds; `node` and `handle` identify the map's node and the file object a
suspended call holds on to. `stream_file` throws from its constructor, so the code's
tests of `is_open()` after construction always pass. **LogPromise** sees a log
as a sequence of volumes.

**Message** models requests, responses and their headers (`Protocol.hpp`, `Assist.hpp`): `message`
holds the objects of a program, `cached` the text an object keeps (none while
`MemberFullCacheValid` is false), `sent` the last text or JSON object, `verdict` what became of a
reading when that was the last call. The first line is a sequence of words, for the parser splits it at
blanks; a checksum is the body itself, or nothing for the kind Custom. The field lines of a text are a function from keys, read
in the order of their bytes: `OwnLines` name the header's owner, `FieldLines` its fields, and of two that are trimmed to one key the last counts. `Trimmed` is the parser's `SafeTrim`, which takes the blanks
around every key and every value, that of User-Agent or Server included. **MessagePromise** has no
cached text, length or checksum: a text is made of what the message says at that moment. There setters may change one message
in any way, but a reading is a step of its own (`verdict` is "read") and gives exactly what the text or object tells.

**Transport** models `AsyncRead` and `AsyncWrite` round by round, the single reads and writes
with a handler of `Reliable`, and those that `Transmission` builds by bridging to its awaitables.
A byte is its position, so that a gap, a repetition or a swap shows. `phase` of a transfer is
"waiting" at the socket, "answered" with the continuation queued, or "done"; `held` and `called` are the
handler in `CompletionState` and how often it was called. `layer` is a Reliable or a transmission of the
program's own, which may answer anything or throw.

**MCServices** puts these six side by side: a behaviour is about one of them. It also leaves out combinations that
say nothing new: three routes are looked up but not served, middlewares are put around one route that stands for any, and
of threads, identifiers, writers and transfers that are alike the first free one moves first; no field of a message has blanks around both its key and its value.

The containers are operators on values. **SearchTree** is what the three trees share (a
tree is a record of functions on nodes); **RedBlackTree**, **BalanceTree** and
**BinaryTree** translate insertion, removal and copying case by case, one operator standing for the two mirrored
halves of the C++ code. **HashTable** is the chained table with its insertion
list, **Adapters** the sets and maps over both, **BloomFilter** the bit set and the filter.
**Vector** is a block of raw and constructed places with the heap and the stack
over it, **List** the ring with its sentinel, **StringBuffer** the terminated buffer.
Operations that can fail take a budget: how many allocations, constructions or
assignments succeed before one throws. **KeyedContainers** and
**SequenceContainers** have one action per operation on two named objects of one kind
(**ContainerWorld**), of which **MCContainers** lets only one grow when they differ (`OneGrows`); **Dictionary** and **Series** are what their users rely on.

`MC…` modules give TLC the functions and sets a .cfg cannot write. Operators
marked `Mutant:` are deliberate errors, used to see that a property notices
them: they are part of no specification.

## Runs

| Run | Shows |
|---|---|
| `executor` | lifecycle, thread ownership, handler exceptions and the refinement of WorkerPool, with failing thread creation and joining handlers; a stop or an escaped exception ends every worker, every Join is answered but for one deadlock (`JoinsItself`) |
| `server_safety` | admission, shutdown order, start and failure reporting and clean-up under every injected failure, with two waiters; SlotPool is implemented |
| `server_live` | every stop finishes, every Start and Wait returns, thread creation and the spawning of the timer failing or not |
| `server_force_misses_launch` | (violation) a forced stop may miss the connection that is being launched |
| `connection` | slots, gauge, registry, close, cancellation, strand and keep-alive limit; a connection taken by ForceStop is cleaned up although the client is silent; timeouts and limits bring every slot back; SlotPool is implemented |
| `connection_cancel_lost` | (violation) a handler started after the close operation is not cancelled |
| `application` | a published state is never ahead of the server, failures are kept, the documented state machine but for two races; a destructor leaves nothing running; handlers that call Stop or State are answered, Start and Wait return |
| `application_handler_deadlock` | (violation) a handler's Stop or State during a failing Start is never answered |
| `services` | routing against the reference matcher (RequestsHandled), order and error containment of the chain (ChainRight), the session store implements SessionPromise, redirects and deadlines of the client, sizes of the log's files, and it implements LogPromise; messages implement MessagePromise; the bytes and handlers of transfers, which end once their transport is closed |
| `log_newest_archive_removed` | (violation) a clean-up removes the newest archive and keeps an older one |
| `message_text_refused` | (violation) a message does not take in its own text |
| `containers` | shape of trees and tables, exact lookup, storage after every failure, nothing leaked but one node that is named (a part of ShapesExact); Dictionary and Series are implemented |

Deadlock checking is off where a behaviour really ends: when an executor has been
destroyed, a server stopped and its calls returned, every connection of the
bound has been closed, a client's calls have returned, a bound of the log is
reached. Properties with many parts are conjunctions of named ones, each with its
own comment in the module. Each run takes about a minute on two cores.

## Where the code and its documentation disagree

Five runs end in a counterexample to a sentence of a comment or document. Each
property quotes the sentence; `PROJECT.json` has the lines.

* `Server::ForceStop` between `Run`'s last check of `MemberStopping` and `RegisterClose`: the connection is registered after the registry was emptied and nobody closes it.
* A close operation between the completion of a read and the resumption of the coroutine closes the socket, but the handler that is then started is not cancelled.
* A handler that calls `Application::Stop` or `State` while thread creation fails waits for a mutex that `Start` holds while it joins the handler's thread.
* Three rollovers of a log file within a second, under a limit of one archive: the clean-up after the second frees the archive name without suffix, the third archive gets that name, sorts before the one with a suffix and is removed at once.
* `FromString` of a request or response hands the header on without the empty line that ends it, and the header's own `FromString` insists on that line: every text is refused, also the one `ToString` has just made. A header's text read by a header, and JSON, are not affected.

Further departures the models contain and no run states as a property:

* `Executor::Join` from a worker while `Run` fails to create a thread is documented to throw (Executor.hpp:154) and instead waits for `Run`, which joins that worker; PoolEnds excuses the case as `JoinsItself`.
* A server drained before the timer's coroutine has begun to wait sits out its `DrainTimeout`: the cancellation (Server.hpp:954) found nothing to cancel. StopFinishes holds because the deadline expires.
* A `ForceStop` that `Wait` overtakes dispatches the close of the listening socket (Server.hpp:980) to a context that no thread runs any more.
* A read or handler aborted by an intended stop is counted as a server error (Server.hpp:704).
* With thread creation failing, the clean-up of `Start` may end before a concurrent `BeginGracefulStop` spawns the drain timer's coroutine, which then stays queued (Server.hpp:1271). A Wait of a third owner that began before Start meets the same state. WaitLeavesNothing names it (`SpawnedTooLate`).
* `Application::Wait` between the two sections of `Start` publishes Stopped, and Start turns it into Failed; a `Stop` that cannot spawn the timer publishes Failed even after Stopped (Application.hpp:269). LegalTransitions names both races (WaitOvertakesStart, LateFailure) and nothing else.
* A `Stop` that throws inside `~Application` skips `Wait` (DestroyedMeansGone names the case).
* A middleware that calls Next twice goes past the inner ones the second time, also past one that had blocked the request, and past the error handler (Middleware.hpp:103).
* `CorsMiddleware` answers OPTIONS, but the server answers 404 before the chain runs, because no route exists for that method.
* A string parameter before a static suffix takes as much as it can and never gives back (Router.hpp:434): such a route matches nothing. The reference reading does the same.
* A registration that conflicts is refused before anything was changed; the code does not promise it, the runs found no exception.
* The client throws away a complete response when the TLS shutdown after it fails or times out (Client.hpp:549).
* Calls of FileWrite on one file may overlap, or a CloseFile or Shutdown may come during one. It resumes on the caller's executor and not on `SerialExec` (Log.hpp:304), with an iterator from before the await. If the entry has been erased it is used all the same (Log.hpp:309), which is undefined behaviour; if another call has rolled the file over, the bytes are added to the size of the new file (Log.hpp:313). The strand is there to serialise operations and access to the state (comment at Log.hpp:463), and here it does not. `Log` has these behaviours when `Overlap` is TRUE (`undefined` records the first); nothing can be promised after them, so SizesKnown, LogKept and OldestGoFirst are stated for callers that await each call on a file, and nothing is claimed of the others.
* A setter called on a reference that an earlier `Header()` returned does not invalidate the cached text: with `KeepsReferences = TRUE` in `Services.cfg` TLC shows MessagesKept violated. `Header()` says that it is the call that invalidates.
* A status message or target with a blank in it, "not found" of `CreateNotFound` included, makes a text whose first line no header reads back (Protocol.hpp:1452). More than 90 fields are refused. A key with blanks around it may be refused: it is all blank, becomes a reserved one, or there is no room for it. Readable in MessagePromise names these cases and nothing else.
* A key or value comes back from a text without the blanks around it (Protocol.hpp:1340, 1534), the User-Agent or Server too, though the setters accept them; a key that then is the header's own gives the name, and two that become one key give one field. HeaderOf in MessagePromise says exactly this. JSON keeps the blanks.
* The copy constructor of HashTable allocates a node and then calls the hash functor (Base.hpp:1747-1748), which may throw (Base.hpp:1729): the node is in no chain yet, and the clean-up of the failed copy leaks it. ShapesExact names it (`KnownLeaks`).
* Requests and responses compare their headers as they are, so that two equal ones differ after `ToString` or `ToJson` of one, which sets its length and checksum.
* `ProtocolHeader` declares its destructor, so a moved-from header keeps its fields and numbers.
* `Cancel` of a Reliable ends the operation that waits, not the transfer: between an answer and its continuation there is none, and the next round waits again. Close has no such gap.
* A bridged read or write hands on what the awaitable says it has moved, also more than the buffer holds; only AsyncRead and AsyncWrite check it (Transmission.hpp:387).
* Assigning a list of values to a map or set merges it in (Map.hpp:163, Set.hpp:90). Dictionary says so.
* Some operations of Vector and List leave a partial change behind when they throw; Series says which.

Where such a behaviour would also spoil an unrelated property, that property's
run leaves it out by name: the bound is in the .cfg (`Faults`, `MayCall`, `Overlap`,
`SameSecond`, `KeepsReferences`), or the property excuses it by a named condition (`JoinsItself`,
`StopFailed`). `server_safety` has no failing thread creation; the theorems about its properties
cover any faults. `server_live` has no injected accept errors, which would quadruple its states: Run's retry after one
(Server.hpp:347) is a step of `server_safety`, and no liveness is checked with it.

## Bounds

| Constant | Values | Why enough |
|---|---|---|
| `Owners` | 1–2 | every pair of calls that may overlap; calls exclude each other by one mutex. A third caller adds little (one case of `SpawnedTooLate`, found by the proof); the theorems cover any number |
| `Workers`, `Handlers` (Executor) | 2, 3 | a worker that exists while the next one cannot be created; first failure, second failure, and a handler that joins. What depends on threads alone is proved for any number |
| `Conns`, `MaxConnections` | 1–2, 1–2 | one connection refused because of another; one closing while another is launched |
| `MayCall` | per run | each owner makes each call at most once, in any order |
| `maxRequests` | 1–2 | one request that is kept alive and the last one; with TLS, whose extra awaits are before and after the requests, one |
| `Configs` | plain and TLS, each with keep-alive and without, one without metrics | each branch on a configuration flag, in every step that has one |
| `Faults` | per run | each failure at each place it can occur, any number of times |
| `Handlers` (Application) | 2 | one in a call while another runs |
| `Routes`, `MaxRoutes` | 13 patterns, 5 malformed ones, up to 3 registrations | every way two edges of the tree can overlap, a third route through a node that two have split; what is served and what surrounds it is checked with fewer, for it depends only on the route that was found |
| `Targets` | every path of up to three characters over four, with and without query | longer than any pattern by one character |
| `UserMiddlewares`, `MaxMiddlewares` | Next called zero to two times, 3 | one outside and one inside of a middleware that blocks, throws or calls Next twice; any number is proved |
| `Ids`, `MaxSessions`, `MaxTime`, `Ttls` | 3, 2, 3, {0, 1, 2} | a full store, a third identifier, sessions that expire at different times, lifetimes beyond the clock |
| `Calls`, `LimitsOf` | 2, up to 2 redirects | two calls at once that need the TLS context, with up to one redirect; alone, a rewritten request that is redirected again |
| `MaxCalls`, `MaxChanges`, `MaxSecond` (Log) | 3, 2, 1 | a third volume, so that a clean-up has something to remove; any two of failures, settings and restarts together; same and different seconds |
| `Roots` | 2 | two files written at the same time by two coroutines |
| `Names`, `MaxEdits`, `MaxFields` (Message) | 2, 2, 2 | a text kept over a change, a copy or move and another change; two lines trimmed to one key, a key trimmed to nothing or to the header's own, padded values; first lines of two and three words. More fields than `MaxFields` take a third edit and are left to the proof |
| `Transfers`, `Sizes`, `MaxArrivals` | 2, {0, 2}, 2 | a transfer in two rounds with an event between them, one beside it in the other direction or after it |
| `Keys` (containers) | up to 6 | every case of removal and rebalancing needs at most six keys in some order, five in the AVL tree; hashes collide and bits lie in several words |
| `Elements`, `MaxSize`, `ListNodes` | 2, 4, 3 | growth of a full block, a failure at each place, a ring that lends nodes to another; of two unlike objects one has at most one element (two in blocks and strings), which is all that a call with two objects looks at besides the whole of the other |

## Fairness

Threads that can move do (`WF` on the steps of owners, workers and strands):
the operating system's scheduler. Completion of an operation on a closed socket
and of a cancelled handler is assumed too: Asio completes aborted operations,
and a cancelled awaitable ends. That is all `ForceSpec` assumes in Server and
Connection. `Timeouts`/`IoEnds` add that reads, writes and shutdowns end, which
`SetStreamTimeout` brings about, and `HandlersEnd` that handlers do, which is up to
the user's code. The strong
fairness of `ConnClose` (Server) stands for `MaxKeepaliveRequests`, which
Connection models; the strong fairness of a handler's end (Executor,
Application) for a handler that calls Stop, Join or State on its way and ends
nevertheless. Nothing makes an owner call anything. In the client only
deadlines are fair (`TimesOut`): nothing is expected of servers, so that CallsEnd says that
every await has one. Of a transport only the executor is (`Resume`): a peer may be silent, so
that CallsEnd says that Close leaves no transfer waiting for it. PoolEnds excuses one deadlock by name,
`JoinsItself`.

## Proofs

`ExecutorProofs` proves, for any set of owners and handlers and any finite
non-empty set of workers, `TypeCorrect`, `JoinedSafe` (JoinedMeansExited),
`RunningServes` (RunningMeansServing), `ThreadsOwned` (ThreadOwnership, of which
JoinedMeansExited is a part) and
`ImplementsPool` (PoolSpec). None of these invariants is inductive alone:
JoinedMeansExited needs to know that a Join that publishes Joined has taken
every thread, which depends on which call may hold threads in which lifecycle
state. `IInv` adds three parts to the types: `LifecycleInv` (the context is stopped
exactly when the state says so), `CallInv` (each lifecycle state names the one call
that may be inside its multi-step section) and `ThreadInv` (which vector holds
the live threads).
A second invariant on top of it, `FailInv`, gives `FailuresConserved` (FailureConserved):
`HandlerInv`, a handler runs on one thread at a time and throws once; `PlaceInv`, the places
its exception may be in exclude one another; `FoundInv`, one that was raised and not yet
rethrown or discarded is in some place; `DestroyInv`, a destructor is
alone, so its Join is never refused and what it drains is really discarded.

`ServerProofs` proves, for any owners, any finite set of connections, any limit,
calls and faults, `TypeCorrect`, `AdmissionExact` (Admission) and
`ImplementsSlotPool` (SlotSpec). The counter alone is not inductive: that a
connection gives its slot back once depends on what its coroutine still has to
do, and that Wait's reset changes nothing on there being no connection left.
`IInv` adds to the types: `AcceptInv`, the accept loop hands over one connection at
a time and it is a new one; `SpawnInv`, the loop is spawned once, by the owner
whose Start claimed the server; `CloseInv`, a closing connection has exactly
the removal and the release before it, and nobody else has a release to make; and
`CountInv`, the counter is the number of holders and within the limit. Three
lemmas on the shape of a step (`StrandMoves`, `TodoMoves`, `ClosingStep`) spare
the forty-six actions a proof of each part; `SlotStep` sums up what each does to the
slots, and `PoolStep` and `PoolCounts` draw the refinement and the count from it.

Its second half goes on from there to how the server stops, for the same constants:
`StopsOrderly` (StopOrderly: the executor is stopped only when drained, nobody is closed under
their client but by force), `ResultsTrue` (ResultsTruthful: what Start and Wait
return is so) and `WaitLeavesNothingBehind` (WaitLeavesNothing). Forty-six actions times ten parts are too many
proofs, so a first group of lemmas says once what any step may do to one piece of the state,
and the parts are proved from these: `TodoSources`, which operations a step may give to whom;
`FlagMoves`, `TimerMoves` and `RunMoves` (lemma `MovesHold`) and `ExecMoves` (`CallStep`), which way the
flags, the timer's coroutine, Run, the executor and the callers may go; `QueueMoves` (`QueueMovesHold`), what the
strand holds. An actor owes an operation while its `todo` is not a sequence of the other
operations, so no proof reasons about places in a queue. The parts of the invariant are: `CallInv`, how far the executor's life
has gone by where the callers are; `TimerInv`, the timer's coroutine is spawned at most once,
for a stop that was asked for, and `MemberDrainTimerActive` holds as long as it can run; `ClosingInv`, connections are closed only
by a forced stop of a started server; `StopInv`, whoever is to stop the executor has seen the
server drained, and it stays drained; `SocketInv`, a registered or open connection still has its slot;
`ListenInv`, the acceptor of a started server is open
until a stop begins; `AskInv`, a server that Start has brought up stops because somebody asked for it or it failed;
`EndInv`, a server that was never started, could not be, or has been waited for has no connection. None of the three
theorems follows from types and counter alone: the executor is stopped in a later step than
the one that found the server drained, which needs StopInv, and what a Wait leaves behind depends on what everybody else
still owes.

`ConnectionProofs` proves, for any finite set of connections, any limit and any
set of configurations, `TypeCorrect` (the counters never go below zero),
`ImplementsSlotPool`, `GaugeExact`, `RegistryMissesNobody`, `CloseArrives`,
`CancellationAimed`, `NeverResumedTwice` and `LimitKept`, and of these `AccountsKept` (AccountsExact)
and `StrandKept` (StrandExact). `IInv` consists of:
`CountInv`, both counters equal the number of connections in the places they count
(from it follow the types, by the cardinality lemma `CountMove`); `CloseInv`,
a close request is in `taken`, on the strand or carried out; `ResumeInv`, the
coroutine is on its strand exactly once while it waits to be resumed (from it
that a close operation that completes a read cannot queue it twice); and
`LimitInv`, while the request loop may go on the limit is not reached. The queues are
dealt with by two lemmas on `Append` and `Tail`.

`ApplicationProofs` proves, for any owners and handlers, any calls they may make and
any injected faults, `TypeCorrect`, `StoppedIsGone` (StoppedMeansGone),
`RunningServes` (RunningMeansServing), `FailuresKept` (FailureKept), their conjunction
`StatesMeanWhatTheySay` (StateTruthful), and `DestroyedIsGone` (DestroyedMeansGone, which
excuses a destructor whose Stop has thrown). They hold in particular of the calls and faults that no single run combines. `IInv`
adds to them: `MutexInv`, the mutex is held exactly through the server's start
and its clean-up, in state Starting; `StartInv`, one owner at most is between the
sections of Start and nobody is stopping a server that has not been published;
`ServerInv`, which threads, listener and handlers there may be by where Start is
(the listener of a failed start stays open until its Wait, which is why Stopped
must not be published before it); `ListenInv`, while Start waits for the
listener the server is as it was started or has failed; `DestroyInv`, the
destructor runs alone.
`StateMovesLegally` (LegalTransitions) rests on a further `RecordInv`: an application is
starting as long as some Start is under way, a failed listener is recorded by the Start that
waited for it, and only a Wait that found such a failure reports one.

`ServiceProofs` proves three things. `StoreKeepsPromise`: for any callers, identifiers, keys, values,
lifetimes and limits, SessionStore implements SessionPromise. The refinement mapping
is the map without the expired sessions, so each lemma says what an operation on the map
does to that restriction: removing an expired session is unseen (`ExpiredUnseen`), a
sweep is unseen (`CleanupUnseen`), a new or changed session appears as such
(`InsertSeen`), a deletion as one (`EraseSeen`). `IInv` is only the type of the map and
the lifetimes of the creations under way; the rest is one refinement step per action.
`ChainIsRight` (ChainRight): for any middlewares, priorities, numbers of calls of Next and exceptions, the
order of the chain and the containment of errors. ChainRight looks at what was entered and how the chain
ended, and says nothing of who is waiting for whom; `ChainInv` adds that. `ListInv`: the list is in order and
no name is one that is still to be given, which an insertion at `Place` keeps (lemma `Inserted`). `FrameInv`: whoever is passed, on the stack
or in the list, has called Next, and the handler is on top of everybody. `RanInv`: what was entered is the beginning of the list,
then only the handler. `PassedInv`: a middleware that was passed goes on, or somebody outside of it called Next twice.
`CoverInv`: down to an error handler that nobody outside of it can lead past, frame k is middleware k, and an exception
on its way is still above it; that is what contains it. `FailInv`: after an exception nobody goes further in
unless somebody calls Next twice, so that the error handler's answer stays. One lemma per action; the three ways out of a frame share `LeaveStep`.
`ChainsFollowed` (RedirectsFollowed): for any calls, URLs, statuses, limits
and settings, what a client may do with redirects. RedirectsFollowed looks at what was sent and is not inductive: the invariant `Sound` of each call adds what
the next request may be. `SentRight` is the property of the requests sent; `NextRight`, the request under way goes where its
Host header says, has a body only if all before it had one, and comes after none it must not follow; `Counted`,
the number of redirects is the number of requests sent before this one, within the limit; `GivenBack`, why the chain has
ended. `ParseRight` and `ResolveRight` say that what the parser of URLs and the resolution of references let through has a host
and a port; then one lemma for each way a call goes on (`BeginSound`, `WritingSound`, `AnsweredSound`, ...), one step for each action.

`WireProofs` proves, for any transfers, sizes of buffers and streams, `TransfersTrue` (TransfersRight) and
its first two parts, `HandlersCalledOnce` and `TotalsWithinBuffers`. These two follow from one invariant of
each transfer: it goes on, with its handler held and not called, its total within its buffer and, over a
Reliable, its answer within the rest of it; or it has ended. The bound on the answer is what a
single read or write needs: `Round` tests what it was answered, a bare handler is just told. There is a lemma for each way a
transfer may go on (`AskSound`, `RoundSound`, `FilledSound`, `AbortedSound`, `CompleteSound`) and one step for each
action. For the bytes `BytesInv` says of each transfer how many it has moved: `Due`, what has been counted of them in each phase, and
`Carries`, that a read under way ends with the last byte taken from the stream, and what was sent is the beginning of its buffer. It needs `Alone`: with two reads
at a time the next byte of the stream would not be the next one of either. `Follows` is what every step without a byte does, with a
lemma for each; `ReceiveMoves` and `SendMoves` are the two steps that move some, over lemmas on pieces of the stream
(`StreamsJoin`, `NextPiece`) and on a longer wire (`WireGrows`).

Its second half proves of messages, for any first lines, agents, keys, values, bodies, times, numbers of fields and
objects, `MessagesKeepThePromise` (MessagesKept): Message implements MessagePromise; `CachedTextsAreFresh`:
the text that an object keeps is the one it would make now; and `NoTextIsTakenIn`: no reading of a text
is ever accepted, and it changes nothing, which is what the run message_text_refused finds on one text. The refinement
forgets cached texts, lengths and checksums, so what has to be shown of each text is that it says what the message
says *now*. `MessageInv` is what this needs: headers and texts are well formed (in particular the fields of each are a function of
keys none of which is the header's own), what was sent is a whole text or JSON object, and `CacheFresh`, that a text kept has the length and the checksum of its
body in its header and is made from both. `ChecksumSound` says that setting length and checksum keeps a header sound and what it says, `ToldByText` that a
text told is taken in as it is told: `LinesRead` that every field and the name have the value of a line, for of several lines with
one key there is a last (`OneIsLast`); `UnpaddedRead` and `ReadableRead` that a readable text is read,
`RefusedText` that a message's reader refuses it; then one lemma for each action. The first theorem has the hypothesis `~KeepsReferences`, which is what
callers owe: with a reference that Header() returned a program changes the header behind the kept text, and
the run would violate MessagesKept.

`LogProofs` proves, for any directories, names, sizes, limits, callers and faults of files, `SizesExact`
(SizesKnown), `OldestFirst` (OldestGoFirst) and `RecordsKept`: the log implements LogPromise (LogKept). The hypothesis
of all three is `~Overlap`, which the code leaves to its callers: no file is used again before a call on it has returned; the other two need `~SameSecond`,
that no file is rolled over twice in a second under a limit. Neither is for the proof's convenience: the code does not
see to them, and the run log_newest_archive_removed shows what happens without the second.
What FileWrite makes of the map, the files and the archives up to its await is one lemma for each stage: `OpenedWorlds`,
what opening the file ends in with every fault; `RolledWorlds`, what a rollover ends in; `FileWriteBegins` sums them up as `Undertaken`, and `StoreHappens`
the end of async_write as `Stored`. SizesKnown is not inductive. `EntriesInv` adds to it and the types that a call has its file
for itself (`Alone`) and finds its entry again (`EntriesStay`), both from the hypothesis, and where the size in the map is while it has one: behind the file by
what has been written and not been settled (`SizesFollow`).
For the other two, `OrderInv` adds what the names of archives say. `Named`: they have a strict order, none is of a later
second, and a suffix of this second is given only when all smaller ones are, which is what a clean-up within the
same second would break. `Ordered`: text is in the order of the names, and the file comes after them. `WritesNewest`: what is about to be written is
newer than all that is there. `NewestIsNewest` then says that the first free name comes after all others, `CleanupKeepsNewest` that
a clean-up leaves the last ones of the list; `InOrder`, a list of the archives in the order of their names, takes the place of counting.
The refinement maps that list and the file to the volumes of LogPromise: `PrunedVolumes` says that what CleanupOldArchives leaves is what LogPromise's
Pruned leaves, `LastVolume` that async_write adds to the last volume; then one step for each action.

`SequenceProofs` proves, for any names and elements, any capacity, any nodes and any place at which an operation
throws, `StorageIsExact` (StorageExact): the storage of each Vector, Stack, PriorityQueue, List, Queue and String is exact after every
operation. `IInv` says of each object what it `Held`. `VectorIs`: the constructed elements are the first places of the block
and nothing is lost; `HeapIs` adds that no element is less than those below it. `RingIs`: there is a list `r` of nodes, all different, that the links follow in both
directions, it has as many nodes as the counter says, and all other nodes are unlinked. `StringIs`: a buffer with its terminator at the size, or
none. `OwnersDiffer`: no two lists have one sentinel, without which an iterator that Insert or Erase accepts need not be of that list.
StorageExact itself is not inductive: it does not say which list an iterator belongs to, nor anything of the links of free nodes, over
which the reading of a ring is defined too, or of the bytes behind a string's size.
There is a lemma for each operation of the four, for both outcomes where it may throw, and one per action above them (`ExtendedKeeps`, ...).
A heap's two loops and the reading of a ring are recursive functions. What these compute is not proved by induction over data but
from two facts, `Smallest` and `UpTo` (a set of numbers that has its first and with each the next has them all): the function exists
(`RisesIs`, `SinksIs`, `PathExists`), so that it satisfies its equation, and the least index at which it would be wrong cannot be (`Risen`, `Sunk`).

Assumptions are those the modules state (`ExecutorAssumption`, `ServerAssumption`,
`ConnectionAssumption`, `ApplicationAssumption`, `SessionAssumption`, `ChainAssumption`, `TransportAssumption`, `MessageAssumption`, `ClientAssumption`, `LogAssumption`, `SequenceAssumption`).
They give the types of the constants, that workers, connections, objects and list nodes are finitely many, that different things have
different names, and that there is a sentinel for every list and one to spare. Only model-checked: all
liveness properties, which are out of the prover's reach; RouteTree (RequestsHandled), the trees and hash tables
(ShapesExact, LookupExact, Dictionary), which are written with recursive operators; and that the sequential containers
implement Series, which says what they hold and not how.

## Not modelled

`PROJECT.json` lists every component with the reason. Out of scope: cryptography (calls into
OpenSSL), JSON and HTTP wrappers (calls into Boost), fault-code tables, TLS
configuration, static files (one decision around file-system calls), scheduling pool (one-line
delegations to Boost.Asio), smart pointers (one owner of one pointer, or wrappers over the standard
library's), and the conversions of `Conversion.hpp`. Abstracted inside the modelled parts: the content of
requests and responses, paths and queries of URLs, log levels and formatting, byte and
duration metrics, length limits and checksum functions of messages, ownership of the server object, iterator classes.

## Plan

Done, in this order: Executor with WorkerPool; Server with SlotPool; Connection;
Application; the proofs of all four; the containers; router, middlewares, session store
and client; the proof of the session store; the log; messages and transports; the proof of the transports;
the proofs of how the server stops, of the executor's exceptions, of the application's transitions,
of the client's redirects and of the log; those of the messages, of the chain of middlewares and of the storage of the sequential containers. What could follow:

1. A worker thread as an owner in Server, for handlers that call Wait.
2. A log on a context with several threads, where FileWrite resumes off its strand.
