# kcmex: a TLA+ model of the daemon

kcmex (`kcmexd`) is a KCM credential-cache daemon: it keeps a user's Kerberos
ticket-granting ticket (TGT), renews it, reloads it from the `FILE:` ccache
that `kinit` writes, and answers clients (libkrb5's KCM protocol over a Unix
socket) with service tickets it fetches itself, without ever handing out the
TGT's session key.  This directory models the part of it that is hard to test:
what concurrent requests, the background loop, the user's `kinit` and the clock
can do to the shared state, how the process starts and stops around them, and
what the bytes on a connection make it do.

## 1. Inventory

| Component | State | Operations | Talks to |
| --- | --- | --- | --- |
| `krb5c.Client` (`krb5c.go`, `ops.go`, `tgt.go`) | the `MEMORY:` working cache (principal, credentials), the held TGT `c.tgt`, `lastFileCheck`, `renewRetryAt`/`renewBackoff`, `renewing`, all under the RWMutex `c.mu` | `Open`, `Retrieve`, `ListEntries`, `EntryByUUID`, `RemoveByUUID`, `RemoveMatching`, `Store`, `Initialize`, `DefaultPrincipal`, `maintain` (reload, renew, sweep), `Run`, `Close` | libkrb5, the KDC, the source file |
| policy (`policy.go`) | none | when a TGT is renewable, due, expired; backoff; the loop's next wake-up; what a local TGT is | used by `Client` |
| `flightGroup` (`flight.go`) | the map of flights, one channel and result per flight | `do` | called by `Retrieve` under the read lock |
| context pool (`krb5c.go`) | the channels `c.sem` and `c.free` | `acquire`, `release`, `Close` | around every operation |
| server (`server.go`) | connections; the cache's name and UUID | `Serve`, `handleConn`, `dispatch`, `handle` | one goroutine per connection, calls `Client` |
| listener (`listener.go`) | the socket and its path | `Listen`, `peerUID` | the file system, other daemons on the path |
| daemon (`main.go`) | life cycle, the maintenance goroutine, the signal goroutine | `run` and its deferred calls | server, `Client` |
| `kcmproto` | none | framing, principals, match-credentials, UUID lists, opcodes | server |

What is hard here:

* *Interleaving.* Requests decide under the read lock and act under the write
  lock, or outside it; `now` is read once, before all of it.  A renewal talks to
  the KDC with no lock held.  A `RETRIEVE` can be answered by another request's
  flight.  `sweep`'s scan and removals, and the two reads of the source file,
  are not atomic with respect to what goes on around them.
* *Failure.* The KDC refuses or times out; the file is missing, without a TGT,
  truncated or replaced between two reads; a context cannot be created; any step
  of the start-up fails; a peer hangs up anywhere in a request or a reply.
* *Time.* Half-life renewal, minimum ticket life, throttled file checks, backoff,
  a timer set from the state one round leaves behind.
* *Waiting.* Joiners wait for leaders while holding the read lock and a pool
  slot, a waiting writer keeps new readers out, and shutdown waits for the loop
  and for every operation in flight while new requests keep coming.
* *Bytes.* A match-credential has seven optional fields, none of them
  delimited: one wrong length moves all that follow.

`PROJECT.json` lists these as hazards, each at its line with the properties
that watch it.

## 2. Modules

| Module | Models |
| --- | --- |
| `TicketPolicy` | `policy.go` and `sweep`'s eviction rule, as operators on credentials and times |
| `LibKrb5` | external: the `MEMORY:` cache operations and what the KDC grants |
| `Krb5Client` | `krb5c.Client`: state, every operation, the loop, the file, the clock |
| `MCKrb5Client` | the small instances TLC checks |
| `Krb5ClientProofs` | type correctness of `Krb5Client`, for every instance |
| `Krb5ClientSafety` | its lock, renewals, flights, answers and evictions, for every instance |
| `Krb5ClientIdentity` | whose TGT is held, and which TGTs and flags the cache and the answers have |
| `Krb5ClientTimes` | how long the held TGT lasts, refusals, duplicate tickets, and that the loop renews in time |
| `FlightGroup` | `flightGroup.do` at the grain of critical sections and channel operations |
| `ClientCalls` (extends `FlightGroup`) | every `Client` call as its sequence of sections of `c.mu`, Go's RWMutex, `matchKey`, `UnparseName` and `buildMatchTemplate` |
| `ClientCallsProofs` | the safety theorems of `FlightGroup`, that `ClientCalls` uses it as specified, and the safety theorems of `ClientCalls` |
| `MCClientCalls` | its match-credentials for TLC |
| `ContextPool` | `acquire`, `release`, `Close` over the two channels |
| `ContextPoolProofs` | its safety theorems and its refinement of `BoundedService` |
| `BoundedService` | what the pool promises: an abstract specification that `ContextPool` implements |
| `Daemon` (extends `ContextPool`) | `run` of `main.go`, `Listen`, `Serve`, `handleConn`'s use of the pool, the loop `Run`, signals |
| `DaemonProofs` | that it uses `ContextPool` as specified, and the order of its shutdown |
| `SharedPath` (extends `Daemon`) | a second kcmexd on the same socket path |
| `KcmProto` | `kcmproto`: every encoder and decoder, on byte strings |
| `KcmServer` (extends `KcmProto`) | one connection, byte for byte, between a KCM client and the `Client` |
| `KcmServerProofs` | what a connection promises, for any requests, results and division of the bytes |
| `MCKcmServer` | its requests and answers for TLC |

The same calls are seen at four grains.  `Krb5Client` says what a critical
section *does*; `ClientCalls` says how calls *wait* for each other inside the
`Client`, `Daemon` how they wait for a context and how the process ends around
them; `KcmServer` says which call a message *means* and what comes back.  What
one takes as a free choice another decides: `ClientCalls` leaves open which of
`maintain`'s sections are entered, `Daemon` whether a call succeeds, `KcmServer`
what a `Client` method returns.

### Krb5Client

A principal is `[realm, comps]`, a credential a record of principals, times and
flags (only *renewable* matters).  A credential's bytes, session key and
enctype are abstracted; an answer's entry records whether it carries the key.
The cache's contents are a set: a lookup may return any match, which covers
every list order.

Each thread has a `pc` naming the code it runs next.  A step is one critical
section of `c.mu`, or one exchange outside it:

| `pc` | Code | Action |
| --- | --- | --- |
| `maintain` | `maintain` under the read lock (tgt.go:129-132) | `Maintain` |
| `reload`, `adopt` | `loadNewerTGT` up to its decision; from `krb5_cc_initialize` on, the lock kept | `Reload`, `Adopt` |
| `renew`, `exchange`, `install` | `renewTGT`'s two critical sections and the exchange between them | `RenewStart`, `RenewExchange`, `RenewInstall` |
| `sweep`, `evict` | `sweep`'s scan, then its removals under the same read lock | `Sweep`, `Evict` |
| `lookup` | `tgtError` and the first critical section of `flights.do` | `Lookup` |
| `lead`, `tgs`, `land`, `joined` | `getCredentials`: cache lookup, TGS exchange; the end of `do`; waiting for it | `Lead`, `Tgs`, `Land` |
| `list` | `ListEntries`, `EntryByUUID` | `Enumerate`, `List` |
| `reply`, `refused` | the result is computed and not yet returned | `Return` |
| `destroy` | between DESTROY's two calls | `Destroy`, `DestroyInitialize` |
| `kinit` | between the INITIALIZE and the STORE of a `kinit` into the KCM: cache | `KinitKCM`, `KinitStore` |
| `sleep`, `plan`, `skipped` | `Run`'s timer and `nextWake`, after a round or after one that got no context | `Wake`, `Plan` |
| `panic` | a nil dereference; the process is gone (`Running`) | none |

The RWMutex is read off the `pc`s: `Reading` are the places where a thread
holds it for reading, `adopt` is the one place where it is held for writing
across steps, and an action that takes and releases it in one step needs it to
be free (`canRLock`, `canLock`).  TGT records have addresses (`Ptrs`) because
`renewTGT` compares pointers; an address is reused only when nothing refers to
it, as the garbage collector guarantees.  `time.Time{}` is a time at least
`FileCheckInterval` before any other, which is all the code uses of it.

Abstractions worth knowing: `forEachEntry` sees the cache in one step, although
another reader may store a ticket during the walk; a failure of a libkrb5 call
on the `MEMORY:` cache itself (out of memory) is left out; an unreadable file
and one with the wrong owner are both `Nil`; `matchKey` keeps the client and
the server of the template, not the enctype, user-to-user and second-ticket
fields; a request that gets no context from `acquire` returns an error before it
has done anything, and is left out.  For the loop that case matters (tgt.go:429):
the round is skipped, the timer set all the same.  It may happen at the times
`SkipTimes` names, and the history variable `skippedAt` remembers the last one.

The constant `Prompt` says whether time passes only when every request has been
answered and the loop sleeps: it states the assumption under which
`RenewedInTime` can be asked at all (`faults`), and is FALSE elsewhere.

### FlightGroup and ClientCalls

`FlightGroup` separates what `Krb5Client` does in one step (`Land`): the
deletion of the key, the closing of the channel and each joiner's read of the
result.  `ClientCalls` puts it where it runs, inside the last read section of
`Retrieve`, and has the lock `Krb5Client` reads off the `pc`s as the RWMutex it
is: a writer that has announced itself keeps new readers out (`blocked`), writes
once the earlier ones are gone, and lets the blocked ones in before the next
writer.  `sec` is the section a caller is in or waits for, `follows` the order
they come in.  Which requests meet in a flight is decided by `matchKey`, a
string: characters are modelled there, because quoting is what keeps `a/b` of
one component apart from `a/b` of two.  (The words of a key, `enctype=`, `skey`
and `second=`, are single symbols, and so is an enctype; a name may contain
them, which makes the keys harder to tell apart, not easier.)
`buildMatchTemplate` makes its principals of the same names with
`krb5_parse_name` (external), which undoes the quoting and gives a name without a
realm the default one.  A principal with neither
components nor realm, which a peer may send, has the empty name and so the key
of a request that leaves it out, and yet another template: section 5.

### ContextPool and Daemon

`ContextPool` takes each channel operation as a step, lets creation fail, and
models `Close` as the loop it is.  `c.free` is a set of contexts, as their order
does not matter.  `Daemon` gives its workers something to do: `at` is a
goroutine's place outside the pool, `pc` inside.

| `at` | Code | Action |
| --- | --- | --- |
| `hello` ... `notify` | `run` from its first `Client` call to `signal.Notify`, one place per step that can fail | `BeginCall`/`EndCall`, `Spawn`, `MkdirAll`, `Remove`, `Bind`, `Chmod`, `Notify` |
| `serve` | `Serve`'s accept loop | `Accept`, `ServeReturns`, `AcceptFails` |
| `stop`, `join`, `close` | the deferred calls: `stopMaint`, `<-maintDone`, `krb.Close` | `StopMaint`, `Join`, `CloseClient`, `Exit` |
| `round`, `wait`, `stopped` | `Run`'s loop | `BeginCall`/`EndCall`, `Timer`, `Done` |
| `backlog`, `check`, `read`, `write` and the calls | a connection | `Connect`, `Accept`, `Check`, `Read`, the calls, `Write` |

Every failing start-up step leaves through the deferred calls, with code 1.  A
signal before `signal.Notify` kills the process (`Kill`).  A crash or a SIGKILL
is a behaviour that just stops; what it leaves behind is the `stale` socket
`DaemonInit` may start from.  A reply with an error code makes one more call,
for the text to log (`ErrorMessage`): `log.Debug`'s arguments are evaluated at
every level.  The one call made at debug level only (`SummarizeCredential`, in
`requestAttrs`) is left out.  `Daemon` assumes that what a call does with its
context ends; that is `OperationsReturn` of `Krb5Client`, and `NoWaitCycle` of
`ClientCalls` for calls of every kind.

### KcmProto and KcmServer

`KcmProto` is the format: big-endian integers of 16 and 32 bits, strings with a
length, principals, match-credentials with a header of bits.  A failed decoder
leaves `Truncated`, and going on from there fails too, which is what the early
returns do.  `KcmServer` adds a client that speaks MIT's protocol (`params`,
`MarshalMatchCredential` and `readReply` are external: what libkrb5 sends and
expects), two byte streams, and `handleConn`, `dispatch` and `handle`.  Histories
record what was sent, called, returned and received, message by message, so that
both ends can be compared.  Status codes are small naturals, of which the properties need only
equality.  Lengths and counts of 2^31 and above, and the memory the code sets
aside for a count it has read, are left out.  At its end `KcmServer` states
`ListsDecoded`, what the theorems suppose of an instance's requests and results.

## 3. Runs

| Run | Instance | Distinct states | Shows |
| --- | --- | --- | --- |
| `retrieve` | two clients, one service, TGT of 4 ticks renewable to 6, clock to 4, the file replaced, removed or truncated at 1 and 3 | 853,000 | `RenewalsNeverOverlap`, `FlightsHaveLeaders`, `NoDuplicateTickets`, `RefusalFollowsFileCheck`, `MaintenanceNeverShortens`, `EvictsOnlyStale` |
| `identity` | two clients that INITIALIZE, STORE TGTs, list and RETRIEVE, two users, RETRIEVEs of a foreign service (so that cross-realm TGTs reach the cache) and of a TGT, the file replaced at 1 | 609,000 | `TGTMatchesPrincipal`, `OneTGTCached`, `HeldTGTCached`, `AnswerForCurrentPrincipal`, `TicketsNotRenewable`, `ListingShowsHeldTGT`, `NoTGTKeyInReplies` |
| `faults` | one client that asks for entries, REMOVEs them and runs `kinit` into the cache, the loop, TGTs of 4 and of 8 ticks, clock to 6, rounds skipped at 2 and 3, every kind of match-credential, the file changing, disappearing or truncated at any point of time 4 | 1,513,000 | `TypeOK`, `RenewedInTime`, `HeldTGTCached` |
| `liveness` | two clients that RETRIEVE a service, a config entry or nothing, and DESTROY, `FairSpec` | 95,000 | `OperationsReturn`, `RenewalEnds` |
| `calls` | three callers of every kind, three match-credentials, one of them with an empty client, flight records reused | 833,000 | `TypeOK`, `OneRunPerKey`, `AnswersAreComplete`, `WaitersHaveALeader`, `NoChangeInFlight`, `SharedAnswerFits`, `NoWaitCycle` |
| `daemon` | two connections, the loop and `run`, two contexts, `DaemonFairSpec` | 108,000 | `DaemonTypeOK`, `ContextsExclusive`, `PoolBounded`, `ReleaseNeverBlocks`, `CloseWaits`, `LoopStopsBeforeClose`, `CleanExit`, `ImplementsService`, `ExitsAfterSignal` |
| `codec` | two requests out of every kind, whole or short of a byte, or announcing too much | 678,000 | `ExecutedAsSent`, `RepliesAsGiven`, `NoReplyMissing` |

Five more are expected to end in a violation, see section 5.

### What some of them say

* `RenewedInTime` (`faults`): a renewable TGT, whether loaded, renewed, stored
  or reloaded, runs out only after a failed renewal, or when a round no more than
  `Second` before its end got no context.  It is about `nextWake`, computed once a
  round from what that round left behind, while requests may reload, renew or
  fail to renew, or bring in a shorter TGT, during the sleep.  After a skipped
  round a due TGT is still due, and `nextWake` comes back after `Second`: only the
  last chance counts.  It needs short operations, a punctual timer, and TGTs that
  live at least twice `MaxSleep`: the shorter of the two lifetimes is exactly that.
  `MaxTime` is 6, the end of a TGT renewed, or brought in by `kinit`, at 2; the
  rounds at 2 and 3 are the two a TGT of time 0 has left when it comes due.
* `AnswerForCurrentPrincipal` (`identity`): a client may INITIALIZE the cache and
  then RETRIEVE, joining a flight the other client has started.  Were a flight
  not inside a read section, the INITIALIZE could come while it is at the KDC and
  the joiner be given a ticket of the principal before.
* `RefusalFollowsFileCheck` (`retrieve`): also when the reload another thread has
  made found the file truncated and left the cache without a TGT.  The daemon
  goes on, and consults the file again as soon as the interval allows.
* `HeldTGTCached` is an action property: only a client's REMOVE takes the held
  TGT's copy out of the cache, and a new TGT always comes with its copy.  That
  a REMOVE can do it is the code's choice;
  every RETRIEVE then fails until the TGT is due for attention.
* `SharedAnswerFits` (`calls`): callers in one flight built the same template,
  except where one of them came with an empty principal (`namesNobody`), which
  the code does not tell from an absent one.  The instance has such a request,
  and ASSUMEs of `MCClientCalls` compare keys and templates over all combinations
  of optional fields, show that the exception is needed, and compare
  `krb5_parse_name` with names spelled out.
* `NoWaitCycle` (`calls`): `waitsFor` is the wait graph of lock, writers and
  flights; every set of callers has one that waits for nobody in it.  A leader
  that had to queue for the read lock behind a writer, which waits for the
  leader's joiners, would close a circle; the code has the lock before `do`.
* `ExitsAfterSignal` (`daemon`): once a signal has been delivered the process
  ends, with requests queued for a context, peers that never read and
  connections that stay open.  `CleanExit` says in which state.
* `ExecutedAsSent`, `RepliesAsGiven` (`codec`): what is called is what was sent,
  what is received is what was returned, request by request.
  `NoReplyMissing` is a statement about quiescence: when neither side can read
  a whole message, nothing is owed.  Every step of either side brings some
  request further, so no fairness is needed to say that a client gets its reply.
  `MCKcmServer` has TLC evaluate `ListsDecoded`, the hypothesis of the theorems
  about these three.  Another ASSUME there cuts every request at every byte: none but STORE
  (whose parameter has no length) and a UUID list cut at a boundary still makes
  a call.

### Bounds

Two threads are enough for every race the hazards of `Krb5Client` name: all of
them are between one thread's step and one other's, or the user's.  `calls` has
three callers so that a reader, a writer and a reader behind it can meet, and
a new flight can start while a joiner of the old one has yet to read its result.
Three TGT addresses cover the held TGT, a renewal's start and a replacement.
`FileTimes` and `MaxTime` bound the clock; the lifetimes are chosen so that
within it a TGT passes its half-life, is renewed or expires, and tickets fall
below `MinLife`.  `SkipTimes` are the times at which a round may be skipped.
`FileRaces` and `Damage` say whether the file may change while a reload is under
way and whether it can be truncated.  `daemon` has more
goroutines than contexts, so somebody waits.  In `codec`, `MaxRequests` is 2, so
that a request can disturb its neighbour, and `Chunk` 6 splits a frame inside
its body; `Cuts` is how many bytes a request may lack.

Deadlock is checked except in `faults`, where a panic ends the daemon, in
`daemon` (and `socket_taken`), which exits, and in `codec`, where the connection
ends.

### Fairness

`FairSpec` of `Krb5Client` is strong fairness of each thread's own next step:
Go's RWMutex lets no waiting writer or reader starve (a waiting writer holds new
readers back, and the readers waiting go before the next writer; `ClientCalls`
models this), and libkrb5 bounds its exchanges with the KDC.  No fairness is
assumed of the clock, of the user, or of clients sending requests; the STORE of
a `kinit` is such a request, so it is not part of `Continue`, and a client that
never sends it leaves no operation unfinished.

`DaemonFairSpec` assumes that goroutines are scheduled (weak fairness) and that
what a call does ends.  It is strong in two places.  `BeginCall` of `run` and of
the loop, and `Drain` of `Close`, send on a channel others send on too: a
channel serves its blocked senders in order, so whoever waits gets its turn.
`Done` competes with the timer in a `select`, which chooses at random among what
is ready.  Nothing makes a peer connect, send or read, and no signal need come.

## 4. Proofs

| Theorem | States, for every value of the constants | Under |
| --- | --- | --- |
| `Krb5ClientProofs!TypeCorrect` | `[]TypeOK` | |
| `Krb5ClientSafety!RenewalSafety` | `[]RenewalsNeverOverlap` | |
| `Krb5ClientSafety!FlightsSafety` | `[]FlightsHaveLeaders` | |
| `Krb5ClientSafety!AnswerSafety` | `[]AnswerForCurrentPrincipal` | |
| `Krb5ClientSafety!KeySafety` | `[]NoTGTKeyInReplies` | |
| `Krb5ClientSafety!EvictionSafety` | `EvictsOnlyStale` (an action property) | |
| `Krb5ClientIdentity!HeldCopySafety` | `HeldTGTCached` (an action property) | |
| `Krb5ClientIdentity!OneTGTSafety` | `[]OneTGTCached` | `~Damage` |
| `Krb5ClientIdentity!ListingSafety` | `[]ListingShowsHeldTGT` | `~Damage` |
| `Krb5ClientIdentity!IdentitySafety` | `[]TGTMatchesPrincipal` | `OneOwner` |
| `Krb5ClientIdentity!RenewableSafety` | `[]TicketsNotRenewable` | `OwnTicketsOnly` |
| `Krb5ClientTimes!LengthSafety` | `MaintenanceNeverShortens` (an action property) | `~FileRaces`, `LivesOrdered` |
| `Krb5ClientTimes!RefusalSafety` | `[]RefusalFollowsFileCheck` | `SameIdentity`, `LivesOrdered` |
| `Krb5ClientTimes!DuplicateSafety` | `[]NoDuplicateTickets` | `OnlyCoalesced` |
| `Krb5ClientTimes!RenewalInTime` | `[]RenewedInTime` | `TimelyLoop` |
| `ClientCallsProofs!FlightTypes`, `FlightSafety`, `AnswerSafety`, `WaiterSafety` | `[]TypeOK`, `[]OneRunPerKey`, `[]AnswersAreComplete`, `[]WaitersHaveALeader` | |
| `ClientCallsProofs!CallsUseFlights`, `CallsFlightSafety` | `CallsSpec => Spec` of `FlightGroup`, hence its safety | |
| `ClientCallsProofs!FlightsUndisturbed` | `[]NoChangeInFlight` | |
| `ClientCallsProofs!SharedAnswers` | `[]SharedAnswerFits` | |
| `ClientCallsProofs!NoDeadlock` | `[]NoWaitCycle` | |
| `ContextPoolProofs!PoolTypes`, `ExclusionSafety`, `BoundSafety`, `ReleaseSafety`, `CloseSafety` | `[]TypeOK`, `[]ContextsExclusive`, `[]PoolBounded`, `[]ReleaseNeverBlocks`, `[]CloseWaits` | |
| `ContextPoolProofs!PoolImplementsService` | `ImplementsService`, the refinement of `BoundedService` | |
| `DaemonProofs!DaemonUsesPool`, `DaemonPoolSafety`, `DaemonImplementsService` | `DaemonSpec => Spec` of `ContextPool`, hence its safety and refinement | |
| `DaemonProofs!DaemonTypes`, `LoopStopped`, `ExitSafety` | `[]DaemonTypeOK`, `[]LoopStopsBeforeClose`, `[]CleanExit` | |
| `KcmServerProofs!CallsAreTheRequests` | `[]ExecutedAsSent` | `ListsDecoded` |
| `KcmServerProofs!RepliesAreTheResults` | `[]RepliesAsGiven` | `ListsDecoded` |
| `KcmServerProofs!NoReplyIsMissing` | `[]NoReplyMissing` | `ListsDecoded` |

All of them rest on the named assumptions about constants: `PolicyAssumption`
(the durations are positive, the minimal backoff is not above the maximal one),
`ClientAssumption` (the sets have their types, `Nil` is none of the values,
`krbtgt` is a name), `FlightAssumption` and `CallsAssumption` (`Nil` is no key,
record, value or caller; the keys are the match-credentials', whose fields are
sequences of symbols), `PoolAssumption`
(goroutines and contexts are finitely many, there is a slot and a context),
`DaemonAssumption` (the goroutines are the connections, `run` and the loop) and
`ServerAssumption` (error codes are not 0, a read returns something).  TLC
evaluates each in the runs of its module.  Nothing is assumed about sizes: the
theorems cover any number of connections, principals, keys, contexts and
requests, and any clock.

### Hypotheses

Some theorems hold only for some instances, and say so as a hypothesis.  Each
hypothesis excludes a behaviour in which the code really does not have the
property, and each is met by the instance of the run that checks it.

* `~Damage` (`identity`): the source file is never truncated.  When it is,
  `loadFrom` fails half-way, after it has copied a TGT into the cache and before
  `c.tgt` is set: the copy is one of no held TGT.
* `OneOwner` (`identity`): if the file may be replaced in the middle of a reload,
  all of its owners are the same.  `loadNewerTGT` initialises the cache with the
  principal it peeked at and loads what the file holds then; a `kinit` of
  another user in between gives a cache of the one with the TGT of the other.
* `OwnTicketsOnly` (`identity`): no program has put a service ticket of its own
  into the source file or the cache, and no RETRIEVE names a client.  A program
  that uses the file itself may leave a renewable ticket there, which a reload
  takes over and RETRIEVE hands out as it is; and a RETRIEVE that names the
  client of a stored foreign TGT has its ticket fetched with that TGT.
* `LivesOrdered` (`retrieve`): a TGT is renewable at least until its end.  Since
  `renewTGT` renews whatever is held when it gets the lock (`renew_twice`), a TGT
  with less would be renewed at once and cut short.
* `~FileRaces` (`retrieve`): with a file replaced between the peek and the load,
  the comparison is about a TGT other than the one adopted.
* `SameIdentity` (`retrieve`): no INITIALIZE, DESTROY or `kinit` into the cache
  takes the TGT away between `maintain` and `tgtError`.  If TGTs are STOREd, the
  file is whole and does not race: a request may have gone by a good TGT, a STORE
  may bring a shorter one, and a failing reload may take that away.  And a config
  entry whose server looked like a TGT's would be a TGT without a lifetime.
* `OnlyCoalesced` (`retrieve`): no STORE, RETRIEVEs that all name a client or all
  do not, services of the clients' realm.  A client may STORE a second ticket;
  a key with the client spelled out and one without are different flights for the
  same ticket; and the cross-realm TGT of a referral is stored by each of two
  flights for different services.
* `TimelyLoop` (`faults`): `Prompt`, one loop, TGTs that live at least twice
  `MaxSleep`, and no TGT among the services of stored tickets (which live as
  long as tickets do).  `MaxSleep` alone is not enough: with a sleep of 5 and
  lives of 6 and 8, TLC finds a request that adopts, early in the loop's sleep,
  an old TGT of the file that is not yet due; it comes due and ends before the
  timer fires.  In the code `maxSleep` is ten minutes,
  and a TGT usually lives for hours.
* `ListsDecoded` (`codec`): each principal, UUID list and match-credential that
  a request or result of the instance contains is decoded to what was encoded,
  and is not decoded when it is cut short; and all of them fit into a message.
  Lists are folds over bytes, and what a fold returns for every input needs
  induction over data, so TLC checks this value by value.  Numbers, frames,
  headers, names, opcodes, what is left of a request cut anywhere, the order of
  requests and replies and where the reads divide them are proved.

### Krb5Client

*Type correctness.*  `TypeOK` alone is not inductive: `Adopt` initialises the
cache with `seen[p]`, `RenewExchange` reads `started[p].cred`, `Land` indexes
`flights` with the request's key.  `LocalsSet` says each of them is set where it
is used, that a flight is only ever for a server that is no TGT, and which
places the loop and the requests can be in; `TypeInv` is the two together, and
every later invariant is inductive relative to it.

*Renewals and flights.*  `StepKinds` sorts every step into three: *quiet* ones
(outside `renewTGT` and `flights.do`), the steps of those two, and steps that
move no thread.  Both invariants are preserved by quiet steps for the same
reason, so only the seven interesting actions need an argument.

*The lock.*  `LockExclusive` (while a thread is in `adopt` nobody is in
`Reading`) shows the RWMutex read off the `pc`s is one.  With it, `WriteFrame`:
as long as anybody reads, neither the cache's principal nor the held TGT
changes.  `LocalFrame` adds that a thread's locals change only by its own steps
and by the landing of its flight.

*Answers.*  `AnswerForCurrentPrincipal` speaks of replies; its inductive form
`AnswersFit` starts where a leader has the answer and has not yet shared it.  The
cases are the thread's own fetch (`FreshAnswer`), the landing (the joiner's key
is the leader's, so the template is the same) and everybody else's steps
(`WriteFrame`).  `NoTGTKeyInReplies` uses the same cases with `LocalsSet` for the
fetch and `ListedWithoutKey` for the listings.  `ReplySources` names the steps
that bring a thread to its reply; the later theorems about replies use it too.

*Evictions.*  `DoomedAreStale` carries the verdict of the scan to the removals:
`WriteFrame` keeps the TGT, `LocalFrame` the thread's `now`.  What an exact match
removes has the principals and end time of something doomed, so the verdict is
the same.

*The held TGT and its copy.*  `CacheSteps` names the steps that change the cache
or the TGT.  `HeldTGTCached` needs that what is held is a local TGT
(`HeldAreTGTs`), which `sweep` spares, and that what it dooms is stale.
`OneTGTCached` is inductive with `FileWhole`: every way in goes through
`storeTGT`, which takes the old copy out.

*Identity.*  `TGTMatchesPrincipal` needs three facts about what is under way:
a renewed TGT is its start's client's (`RenewalFits`), the file's TGTs are its
owner's (`FileOwned`), and the principal a reload has read is that of the file
it will load (`AdoptsOwner`).  A renewal is installed only over the TGT it
started from, and addresses in use are not given out again, so the client is the
one of the TGT it replaces.

*Renewable.*  Every service ticket of the cache is plain (`CachePlain`) because
the KDC derives it from a copy that is, the file brings in no other
(`FilePlain`), and an answer comes from one or the other (`AnswersPlain`).

*Times.*  `TimesSound` says every TGT there is, in the file, held, or in a
renewal, was issued in the past and is not renewable short of its end; so a
renewal never ends earlier than its start.  `AdoptsLonger` carries the reload's
comparison to the adoption.

*Refusals.*  `CheckedFirst` says that from `maintain`'s decision to the lookup
either the file has been checked recently enough or the held TGT is good for the
request's `now`.  If TGTs are STOREd it is inductive as it stands: whoever
replaces the TGT in between puts a longer one there, by the same argument.  If
not, a reload may leave no TGT, and the stronger `AttendedFirst` is: the held TGT
needs no *attention* at the request's `now`.  A thread in `adopt` has noted its
check, and its TGT needed attention then (`AdoptNoted`); a TGT that needs
attention goes on needing it (`AttentionLasts`), so whoever went by it took up
its request early enough for the check to count.  A renewal keeps it because the
renewed TGT needs attention no earlier (`LaterAttention`).

*Duplicates.*  `StillMissing` is the invariant coalescing is for: as long as a
leader is at the KDC for a ticket, the cache has no valid one with those
principals.  Only another leader could add one, and it would have the same key.
That it has needs `UsersOnly` (the cache's principal is a user's), `LocalOnce` (the held
TGT's copy is the one local TGT) and, for what a reload brings, `FileSingles`.

*The timer.*  Every renewable TGT is `LongLived`: both halves of its life are at
least `MaxSleep`.  Time passes only between operations, so a round decides and
acts in one instant (`Instant`, `RenewedNow`).  The loop sleeps at most
`MaxSleep` (`SleepBounded`), so a TGT that is not yet due outlasts any sleep.  A
TGT that is due when it is adopted is valid (`AdoptsValid`), and whoever adopts
it goes on to renew it, with nobody in the way (`AdoptsAlone`): a renewal is
begun only where the file has just been checked (`ConsultedLately`), and then no
other thread checks it again in that instant.  `DueAttended` says that while the
loop is past its decision, or a renewal is under way, a due TGT has somebody to
renew it; `WakesInTime` that the loop, asleep, wakes before the end of the held
TGT unless somebody renews it, or a skipped round was its last chance.  Both
speak of TGTs for which no renewal has failed, whose renewal nothing holds back
(`NotHeldBack`): a round that finds one due sets the timer `Second` ahead.  `RenewedInTime` is
inductive together with these two, given the rest (`TimerInv`).

### FlightGroup and ClientCalls

The properties of `FlightGroup` need the correspondence of the map, the leaders
and the records: a leader that has not deleted its key is the one the map knows
(`MapKnowsLeaders`), every entry has one (`MapHasLeaders`), no two leaders share
a record (`RecordsUnshared`), a led record is open (`OpenWhileLed`), and a value
is written before the channel is closed and read after (`WrittenBeforeClosed`,
`ReturnedFromClosed`).

`ClientCalls` adds the lock: `LockInOrder` (active and blocked readers are in
read sections, the writer in a write section), `FlightsUnderLock` (whoever is in
`do` is an active reader in `Retrieve`'s last section), `OwnKeys` and
`OneKeyPerFlight`.  What is left of `SharedAnswerFits` is that keys tell templates
apart.  A name has no NUL (`NameText`, from `Flatten`: a flattened sequence has
only the symbols of its parts), so the first NUL of a key ends the client's name
and the next one the server's (`TextEnds`, `FieldsApart`); the words after them
say which of the optional fields follow (`KeyFields`), the last of which may be
anything.  Equal names give equal principals whatever `krb5_parse_name` does with
them, and an absent principal is told from one with a name (`KeyTemplate`).
`NoWaitCycle` then follows by rank: an active reader that is
no joiner waits for nobody, a joiner only for such a one, the writer only for
active readers, and everyone else only for the writer; so no non-empty set of
callers is closed under waiting.

### ContextPool and Daemon

The pool's invariant is three counts.  `TokensCounted`: a token in `c.sem` for
each goroutine between `acquire` and the end of `release`, and for each that
`Close` has put there.  `LiveCounted`: an allocated context is idle or in use.
`PlacesCounted`: a goroutine about to create one has its place already, which is
why contexts released meanwhile do not make the pool grow.  `ReleaseNeverBlocks`
and `PoolBounded` are arithmetic on these; `CloseWaits` follows because
`MaxConcurrent` tokens of `Close` leave none to anybody.  The refinement maps
`busy` to the goroutines between getting and giving back a context: every step
is one of `BoundedService` or a stutter.

`DaemonInv` says that a goroutine is in the pool only while its place outside is
at a call (`CallsFromOutside`), that `run` is past a deferred call only when it
has done its work (`DeferredInOrder`), and how the listener, the path and the
signal follow from how far `run` is (`ListenerInOrder`).  That the daemon's steps
are steps of the pool (`DaemonUsesPool`) brings the pool's theorems over.

### KcmServer

The format comes first: a number is found where it was put, a frame is read when
it is whole and not before (`ReadFrame`, `ReadHuge`, `ReadReply`), a name ends
at its zero byte and nowhere else.  From these, `RequestServed` says what
`dispatch` makes of any request, whole or cut within its header, its name or its
parameters, and `Resumed` what `handle` makes of the `Client`'s result.

A stream is described by what is still to be read from it: `Requested` and
`Replied` name, for each message not yet read, the bytes from there to the end,
each being that message followed by the next.  Reading takes the first piece off
(`Split`), writing lengthens every piece at its end, and neither needs induction
over the stream.  The invariant `Connection` says so of both streams (`Upwards`,
`Downwards`) and ties the pieces to the requests sent and the results returned
(`Executed`, `Doing`).  What a client that hung up did not write is kept as a
witness, so that the last, incomplete request is still the beginning of one.
`NoReplyMissing` follows because a stream with a piece left has a whole message
to read.

### Only model-checked

* Liveness and whatever depends on fairness or ENABLED: `OperationsReturn`,
  `RenewalEnds`, `ExitsAfterSignal`.  These need temporal reasoning the prover
  does not do.
* What single lists of the wire format are decoded to (`ListsDecoded`): induction
  over data with a fold.  TLC evaluates it over the instances' values.  Where an
  induction is on numbers and about membership only, it can be done as an argument
  about a least counterexample, as in `Flatten`.
* What `krb5_parse_name` computes, which no theorem needs.

Every invariant and every action property of the passing runs is stated by a
theorem.

## 5. Where the code and its documentation disagree

Five runs are expected to end in a violation:

* `reload_race`: `loadNewerTGT` peeks at the file and then loads it.  If it is
  replaced in between by a cache without a TGT, `loadFrom` returns no TGT and
  no error, and tgt.go:330 dereferences the nil result: the daemon dies, where
  krb5c.go:176 says such a cache is accepted.
* `destroy_race`: DESTROY reads the principal and re-initialises the cache with
  it in two critical sections; an INITIALIZE in between is undone, although
  DESTROY is documented to keep the current principal.
* `short_ticket`: `-min-ticket-life` is documented as "never hand a client a
  service ticket with less than this much lifetime left".  A renewal by another
  thread between `sweep` and the lookup, or joining an older flight, defeats it.
* `renew_twice`: `renewTGT` does not repeat the decision `maintain` took under
  an earlier lock.  A second thread renews again at once, also after a failure,
  ignoring the backoff just set.
* `socket_taken`: `Listen` is documented to remove a stale socket file.  It
  removes whatever is at the path, also the socket of a daemon that serves on
  it; and the older daemon, when it ends, unlinks the path of the newer one.

Three more were met while modelling and are not kept as runs:

* A reload between the INITIALIZE and the STORE of a `kinit` into the KCM: cache
  can make the STORE one for a foreign principal, which is not adopted.
* A client that STOREs a config entry puts one into the cache ops.go:347 says
  never holds any.
* ops.go:365-367 says that two requests with the same key "would build the same
  match template".  A client principal with neither components nor realm, which
  `UnmarshalPrincipal` accepts, has the key of no client, and `krb5_parse_name`
  makes of its empty name a principal of the default realm where the other
  request has the cache's; an empty server has the key of an absent one, for
  which `buildMatchTemplate` fails.  Two such requests in flight at once share one
  answer.  `EmptyClientHasNoKeyOfItsOwn` in `MCClientCalls` states the first, and
  `SharedAnswerFits` names the exception.

## 6. Not modelled

Left out for good: log formatting (`names.go`, `describe.go`, `requestAttrs`),
test helpers (`synth.go`), flag parsing, the choice of paths and the ownership
check at start-up (`main.go`: plain I/O before anything is shared), the bytes of
credentials (`krb5c` hands them to libkrb5 as they are), failures of memory
allocation, and the content of libkrb5.

What is modelled is proved as far as the prover reaches; what remains is listed
under "Only model-checked".
