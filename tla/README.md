# Verification of nx-cache-server

TLA+ models of the Nx remote cache server, checked with TLC on small instances.
Their safety properties are also proved with TLAPS, for every value of the
constants. Paths are relative to the repository.

## 1. The system

A client (Nx in CI) sends `GET`, `HEAD` and `PUT /v1/cache/{hash}`; the server
authenticates it, and reads or writes one S3 object per hash. Several server
tasks share the bucket and nothing else. Each task is one tokio process: requests
run as concurrent futures that interleave at their awaits, and a future is
dropped when its client disconnects.

| Component | State | Operations | Hard part |
|---|---|---|---|
| Existence cache (`server/probe_cache.rs`) | hash -> `Slot` (a `OnceCell`, a creation time) | `present`, `slot`, `sweep`, `mark_present` | concurrent callers, a leader that fails or is dropped, results overtaken by writes, three TTLs, a bounded map |
| S3 upload (`infra/aws.rs`) | part buffer, upload id, part number, completed parts | `store`, `fill_part`, five S3 calls | part boundaries, calls executed without a reply, retries, cleanup, crash between calls |
| Handlers over the cache (`server/handlers.rs`) | where each handler is, its status | `retrieve_artifact`, `store_artifact` with `present` and `mark_present` | what a status means when S3 fails for someone else, a client leaves, a body breaks off, other tasks write and objects are deleted |
| Storage contract (`domain/storage.rs`) | the object of a key | `exists`, `store`, `retrieve` | an error does not say that nothing was written |
| Request handling (`server/{mod,middleware,handlers,error}.rs`) | one handler per request | authenticate, validate, store, retrieve, drain, answer | answering before the upload was read, races of two PUTs, S3 failing on every path |
| Startup and self-probe (`bin/aws.rs`, `domain/config.rs`, `infra/aws.rs`, `server/mod.rs`) | configuration, boot progress, a background task | two validations, region lookup, startup probe, bind, periodic probe | outage or refusal at boot, restarts, a background task nobody watches |
| Hash validation (`server/validation.rs`, axum's `Path`) | none | percent-decoding, `validate_hash` | one key in several encodings, bytes against characters |
| Region and credential providers (`infra/aws.rs`) | none | found or not, each time they are asked | an answer that changes between two calls of one boot |
| TLS client, access log, error texts, release workflows | none of their own | | not modelled |

Interaction: `auth_middleware` runs before either handler. `retrieve_artifact`
calls `ProbeCache::present`, which calls `exists`, and then `retrieve`.
`store_artifact` calls `exists` (not through the cache), `store`, and
`mark_present` on both of its successes (`200` and `409`). The cache's mutex is
never held across an await. `S3_TIMEOUT` links the storage configuration to the
cache's `UNRESOLVED_TTL`; `S3Storage::new` only warns when it is longer. The
startup probe writes the object that the self-probe looks for.

What makes each part correct: for the cache, one `HeadObject` per key at a time,
one per key and TTL over time, read-after-write on one task, a bounded window of
stale misses, no waiter left behind and a bounded map; for the handlers over it,
that these hold of the HTTP answers and that one request's failure is nobody
else's miss; for the upload, no object but a whole body, and cleanup of what
failed; for request handling, an upload read before it is refused, no `5xx`, no
S3 call under a key that validation is to keep out, statuses that tell the truth,
and no request that hangs for a reason of ours; for the boot, never serving what
validation rejected and never exiting for an outage. `PROJECT.json` lists under
`hazards` where each can go wrong.

## 2. Modules

    ProbeCache ---------- CacheServer
       |                      |
    ProbeCacheProofs --- CacheServerProofs

    HashValidation ------ RequestHandling --implements, key by key--> ArtifactStore
                              |                                            ^
                          RequestHandlingProofs                            |
                                                                           |
    S3StoreProofs ------- S3Store --implements-----------------------------+

    StartupProofs ------- Startup

A line joins a module to one that extends it. `MCProbeCache`, `MCCacheServer`,
`MCS3Store`, `MCRequestHandling` and `MCStartup` extend the module they are named
after and give it instances.

Definitions named "Mutant" in a comment are bugs the code could plausibly have
and does not; they take no part in any specification. Each is the seeded fault
that some property is known to detect.

### ProbeCache

`slots` is the map; `present` the `OnceCell` of each slot; `permit` the one
semaphore permit inside the cell. A request makes at most one call into the
cache, so a slot is named by the request that allocated it and its `created` is
that request's `entered`. `Slot`, `Sweep`, `Live`, `MarkPresent` are the methods;
each is one action because its body runs under the mutex without an await. (The
clock is read just before the mutex is taken; the wait for the mutex is
microseconds against TTLs of seconds and is not modelled.)

`present` is `Slot`, then one of `ReadCell`, `Enqueue`, `Acquire`; a request with
the permit sends its own `HeadObject`. `HeadObject` is the moment S3 evaluates
the call, `ProbeOk` and `ProbeErr` are its return: the verdict may be overtaken
by writes, marks and sweeps. An error leaves the cell unset and hands the permit
to any one waiter (tokio is FIFO; leaving the order open allows more). `Cancel`
drops a handler at either of its awaits.

`PutSettled` is a PUT learning that the object is there, `MarkPresent` the mark
in the same poll. `UnseenPut` is a write this cache never hears of: another task,
a lost reply, a dropped handler. `Expire` is a deletion. Time is a counter. It
cannot pass an SDK deadline (`operation_timeout`, and the attempt timeout between
S3's verdict and its arrival), nor pass while a request is between `slot` and the
cell, where the code does not await. `storedAt`, `seeded`, `owed` and `led` only
record history.

### CacheServer

The two handlers composed with `ProbeCache`, whose variables and actions it takes
as they are: a step of a handler is a step of the cache, or leaves it alone,
together with what the handler makes of it. So `Get` is `Slot`, `GetAnswered` is
`ReadCell` or `ProbeOk` with `unwrap_or(false)` applied, `Conflict` and `Created`
are `MarkPresent`; `ServerImplementsCache` (section 4) is that statement. `stage`
is the await a handler is in, `status` what it answered. GetObject (`Retrieve`)
finds the object, finds it gone, or fails; the body it streams (`Stream`) ends or
breaks off after the `200`. `ExistsYes` and `Stored` are S3's verdict and S3's
write; the handler may still be dropped while the reply is under way, and then
marks nothing. `ExistsNo` also stands for an `exists` that fails. A `store` that
fails leaves it open whether S3 writes (`UnseenPut`, which also is what other
tasks on the bucket do); its `403`, like the `409`, follows a drain at which the
handler may be dropped too. The upload is left to `S3Store`, tokens and keys to
`RequestHandling`. `kept`, `due` and `faulty` record which PUTs have an object to
vouch for, which GETs came after the answer of one, and which GETs had a call of
their own fail.

### S3Store and ArtifactStore

A body is its length; a part is the span of it that the part holds, so loss,
repetition and reordering of bytes are all visible and the bytes are not needed.
`ReadChunk`, `BodyEnds`, `BodyFails` are the three arms of `fill_part`, together
with what `store` does next in the same poll. `pending` is the call S3 may still
execute. S3 executes a call zero, one or more times (the SDK's retries), also
after the caller was told of an error or was dropped; Ok needs an execution whose
reply arrived. A part that timed out may reach S3 while the upload is being
aborted, or after `store` returned (`late`, `LatePart`). The S3 operations are modelled from how the code uses them:
whole-object visibility, parts by number, the least part length and the largest
part number.

`ArtifactStore` is the contract of `StorageProvider::store` for one key: the key
holds nothing or the whole body of one caller, Ok means the body was put there,
`ClientAbort` means it was not and never will be. `S3Store` refines it with
`content` taken from the object and `status` from the control state.

### RequestHandling

One action per stretch between two awaits of the middleware and the handlers,
with the client's side of the upload (`sending`, `sent`, `broken`) and S3's late
execution of a write. A request is a method, a token and a
path segment. `Gate` is the auth middleware, `Handle` the router, the `Path`
extractor and the handler up to its first await. `exists` and `retrieve` may fail
at any time. The probe cache's answer is left open: any of present, absent,
failed. `PUT`'s writes follow the contract of `ArtifactStore`. Requests meet at
the key that their paths decode to. Objects are not deleted in this module; a read
that no longer finds its object is in it.

`Contract(key)` maps it to `ArtifactStore`: the content is the object under the
key, the callers are the requests whose paths decode to it, and what a call
returned is what its client was told (`Outcome`: `200` is Ok, `400` for a broken
upload is `ClientAbort`, `403` an error that says nothing). So the two
modules meet at the same contract, `S3Store` from below, the HTTP interface from
above; `KeysKeepContract` is the second half.

### HashValidation

A path segment is a sequence of pieces, each a character as it is or
percent-encoded, or an encoded byte that is not UTF-8. `Decodable` and `Decode`
are the `Path` extractor, `Valid` is `validate_hash`. Characters that the code
treats alike are one: ASCII alphanumerics, `-` and `_`, letters beyond ASCII (two
bytes each), `.`, `/`. `Bytes` is `String::len`.

### Startup

`main` as a sequence of phases, each of which continues or exits. S3 is up, down
or refusing, and changes at any time; a task that is killed or exited restarts at
any time with the same configuration. A region that is not configured may be
found by one lookup and not by the next, and credentials that are not configured
may be found or not, which makes the probe fail before it is sent. The self-probe
runs beside the server; a bucket that refuses writes may answer its `HeadObject`
all the same.

## 3. Runs

| Run | Instance | Shows |
|---|---|---|
| `probe_cache` | 3 requests, 1 hash, clock to 5 | single flight, one probe per TTL, read-your-writes, the stale-miss bound, no stranded waiter |
| `probe_cache_sweep` | 3 requests, 2 hashes, cap 0 | the map's entries stay within one `POSITIVE_TTL` above the cap; no live slot is lost |
| `cache_server` | 2 GETs and 1 PUT, 1 hash, clock to 2 | read-after-write over HTTP, failures stay with the request that had them, every GET is answered |
| `s3_store` | 2 uploads, bodies of 0, 1, 2, 5 with parts of 2, at most 2 parts | whole objects, acceptable completions, buffer bound, cleanup, refinement of `ArtifactStore`, `store` returns once its body is read |
| `request_handling` | 2 requests; every method and token with 4 paths, GET and PUT with 7 more | uploads read before answers, no 5xx, inert keys, only whole authorised bodies, true statuses, refinement of `ArtifactStore` under every key, only a stalling upload stays open |
| `startup` | every configuration | no configuration that validation is to reject is served with, exits have a cause, the self-probe goes on |
| `probe_outlives_slot`, `stale_beyond_negative_ttl`, `s3_store_uncleaned`, `upload_unread`, `undocumented_hash`, `failed_write_declined` | as above | six comments or documents that the code does not bear out, section 5 |

**Bounds.** Three requests on one hash are a leader, a follower and a third party
(a writer, or the next leader); the invariants speak of at most two requests and
one mark. In `probe_cache` the times are ordered as in the code: the attempt
timeout (10s) is longer than `NEGATIVE_TTL` (5s) and `S3_TIMEOUT` (30s) shorter
than `UNRESOLVED_TTL` (60s). `MaxTime` of 5 lets a slot expire and its successor
age past the negative TTL. With a cap of 0 two entries are already more than one
above it, so insertions sweep. In `cache_server` two GETs are the one whose call
fails or breaks off and the one that must not suffer, and a PUT is what either may
follow; a clock to 2 is one negative TTL more than the one an absence lives. Bodies of 0, 1, 2 and 5 with parts of 2 are an empty body, one below a part,
exactly one part, and one that needs a part too many; chunks of 1 and 2 make parts
that overshoot. Two writers are enough for a race on a key. Requests interact only
through the object, for which two suffice; with `MAX_BYTES` of 2 the paths lie
below, at and above the limit, in bytes and in characters. The safety properties of
all passing runs are proved without these bounds (section 4); the instances are
there for the liveness properties, and to see that every action and every seeded
fault is reached.

Deadlock is checked where the environment never stops (`ProbeCache`,
`CacheServer`, `Startup`).
`S3Store` and `RequestHandling` end when every call has ended.

Symmetry (of requests and of hashes) is used in the `ProbeCache` runs only; they
check no liveness.

**Fairness.** `ProbeCache`: the runtime polls a task that was woken, and the SDK
ends each call, at the latest with its operation timeout; waiters get the permit
once it is theirs. `CacheServer`: the same of GETs, and GetObject ends with a
status; nothing makes a response body come to its end. `S3Store`: the same of the
SDK; the client need not send and S3 need not execute anything.
`RequestHandling`: handlers that can move do, and the drain's timer fires; the
client owes nothing, which is why `OnlyUploadsStall` excepts an upload that stops
while `store` reads it. `Startup`: `main` and the timer go on. Nothing is assumed
of clients, other tasks, the network or the bucket.

## 4. Proofs

`ProbeCacheProofs` proves, for any sets of hashes and requests (infinite ones
too) and any times that satisfy the assumptions:

| Theorem | Property |
|---|---|
| `TypeCorrect` | `TypeOK` |
| `SingleFlightHolds` | `YoungProbesAreUnique` |
| `ProbesAreSpaced` | `OneProbePerTtl` |
| `SeededReadsHit` | `ReadYourWrites` |
| `StaleMissesAreBounded` | `StaleMissBound` |
| `WaitersAreNotStranded` | `NoStrandedWaiter` |
| `LiveSlotsAreKept` | `LiveSlotsStay` |
| `MapIsBounded` | `SweptSpread` |

and `CacheServerProofs`, for any set of PUTs among the requests:

| Theorem | Property |
|---|---|
| `ServerTypeCorrect` | `ServerTypeOK` |
| `ReadAfterWriteHolds` | `ReadAfterWrite` |
| `FailuresArePrivate` | `FailuresStayPrivate` |

Assumptions: `NoRequest` is not a request; PUTs are requests; the times are
positive naturals, the cap and the clock bound naturals; `NEGATIVE_TTL` and
`UNRESOLVED_TTL` are at most `POSITIVE_TTL` (5s, 60s, 60s in the code). Nothing
relates `S3_TIMEOUT` to `UNRESOLVED_TTL`: the theorems hold under a configuration
that the server only warns about, too.

No property is inductive by itself. The common invariant `Inv` says that a slot
nobody allocated yet is unset and has its permit, that an active GET holds a slot,
and that verdicts and answers exist only where they should (`Fresh`); that
everyone who refers to a slot is about the hash it was allocated for
(`SlotsMatch`); that no recorded time is in the future (`Times`); and that a
request that probes holds the permit of its cell, which is unset (`Permits`). On
top of it:

- *single flight*: a young unset slot that somebody holds is the one in the map,
  or a mark no older than it took its place, and it is the only such slot of its
  hash (`SingleFlight`). The mark matters: a marked entry outlives every unset
  slot it replaced, so no second one is allocated meanwhile. This is where
  `UNRESOLVED_TTL <= POSITIVE_TTL` is used;
- *one probe per TTL*: a slot that may still be probed was made by a GET
  (`Allocated`); of the probes on one slot at most one runs or got a verdict
  (`Leaders`); and the slots GETs made for one hash are a shortest TTL apart,
  because until then the map has an entry for the hash that is no older
  (`Spacing`);
- *read-your-writes*: while a hash is seeded its object is stored and its entry, if
  it has one, does not say "absent" and no verdict on its way will make it; the
  same holds of the slot of every GET that entered after the mark (`SeedsHold`,
  `Clean`). A probe from before the write holds a slot that is no longer in the map;
- *stale misses*: an "absent" verdict, in flight or in a cell, was given no later
  than the object was stored, and whoever can still read it entered within
  `NEGATIVE_TTL` or one attempt of that moment (`MissesAge`, `Window`);
- *waiters*: a permit that is out is held by a live request at that cell, and the
  permit of an unset cell that is waited for is out (`Holders`);
- *sweep*: an insertion above the cap leaves only live entries, and a live entry
  is younger than `POSITIVE_TTL`; the map is finite (`Swept`).

`CacheServerProofs` first shows that every step of the server is a step of
`ProbeCache` or leaves it alone (`ServerImplementsCache`), so the invariants above
hold of the server too (`CacheInv`). To them it adds `Handlers`: the stage of a
handler tells where its call of the cache is (`PutsFollow`, `GetsFollow`), and a
PUT that learnt of its object has it in the bucket and, once it marked it, seeded
(`KeptHold`). Then a GET that came after the answer of such a PUT entered the
cache after its mark (`DueHold`), so no cell tells it "absent" and GetObject finds
its object; and any other miss is a verdict within the stale window, an object that
was not there when GetObject looked (and so was stored after the GET entered), or
a failure of the request's own.

`ServerIsACache` states the first fact as a refinement: the server, seen through
the cache's variables, satisfies `Init /\ [][Next]_vars`.

`S3StoreProofs`, for any number of callers (infinitely many too), any body
lengths, any chunks up to `MaxChunk` and any part size:

| Theorem | Property |
|---|---|
| `TypeCorrect` | `TypeOK` |
| `ObjectsAreWhole` | `ObjectIsWhole` |
| `CompletionsAccepted` | `CompleteIsAcceptable` |
| `BoundedBuffer` | `BufferBound` |
| `LeaksHaveCause` | `LeakNeedsUnexecutedCall` |
| `StoreImplementsArtifactStore` | `StoreSpec`, the refinement |

Assumptions: `Nothing` is not a caller; lengths are naturals, the part size and
`MaxChunk` positive; a part is at least as long as S3's least part length (8 MiB
against 5 MiB in the code). The largest part number is any value.

Each property is about one moment of an upload; what makes it true is spread over
all that came before. `CallInv` says of one call how far it has read and what it
buffers (`Counts`); what each place of `store` implies of the end of the body, the
upload id and the call awaited (`Stages`), and what S3 may still execute after
`store` has gone on or returned, a late part only of an upload that was given up
(`InFlight`); that a part to be uploaded is full,
or not empty and the last (`FullPart`); that the acknowledged parts tile the body
up to `base` and all but the last are full (`Prefix`); that S3 holds these, or
also the one under way (`Uploaded`: a retried part overwrites itself); that an
upload whose completion or abort was answered is closed, and none is left without
either (`Cleanup`); and that only a body read to its end is put in place, before
Ok is returned (`Commits`). A step is one call's, or S3's on its behalf, and leaves
the others' variables alone (`OthersAlone`), so each part is proved for the caller
that moved, under all of `CallInv` of that caller; the object is the only thing
shared, and `WholeStep` shows that whatever S3 puts there is a whole body. The
refinement is then read off step by step (`StoreStep`): S3's two committing calls
are `Commit`, the returns are `Return`, everything else stutters.

`RequestHandlingProofs`, for any number of requests, any paths and `MAX_BYTES`:

| Theorem | Property |
|---|---|
| `TypeCorrect` | `TypeOK` |
| `UploadsAreRead` | `UploadReadBeforeAnswer` |
| `NoServerErrors` | `NeverServerError` |
| `KeysStayInert` | `KeysAreInert` |
| `BodiesAreWholeAndAuthorised` | `OnlyWholeAuthorisedBodies` |
| `StatusesAreTrue` | `PutStatusIsTrue` |
| `ContractIsKept` | `KeysKeepContract`, the refinement |

Assumptions: a path segment is a sequence of pieces and not empty (the router's
`{hash}` matches no empty segment), requests have one of four methods and three
tokens, `Nothing` is not a request, `MAX_BYTES` is a natural.

The invariant says, of each request, which gates a handler in that place has passed
and what it has read (`Place`); what it decided when it began to drain, and that
the reason of a `409` is still in the bucket then (`Drain`); that whatever S3 has,
or may still execute, is a whole body of an accepted PUT (`Sent`); and what the
answers told (`Told`). `KeysAreInert` rests on lemmas about the operators: a path
decodes to as many characters as it has pieces, which have at least as many bytes
(`DecodedLength`), so what `validate_hash` accepts is inert (`ValidIsInert`).
Another request's step disturbs at most the object, and never makes it nothing
(`OthersKept`). `ContractStep` maps each step, under each key: an answer is
`Return` (`TellsStep`), S3's execution is `Commit`, and under any other key the
step stutters.

`StartupProofs`, for any set of configurations and any number of restarts:
`TypeCorrect` (`TypeOK`), `ServedWasPassed` (`ServesOnlyWhatPassed`) and
`ExitsAreCaused` (`ExitsHaveCause`). The phase tells which validations this boot
passed, that its last region lookup found one and that the bucket did not refuse
it (`Passed`); an exit keeps its cause. `ServesOnlyWhatPassed` spells out, item by
item, what the two validators are to keep out, and does not use them.

All invariants were model-checked before they were proved. Each proof has one step
per action.

Only model-checked: the liveness properties `GetsAreAnswered`, `StoreReturns`,
`OnlyUploadsStall` and `SelfProbeGoesOn`, which are out of the prover's reach, and
the counterexamples of section 5.

## 5. Where comments and code disagree

None of these lets the server give a wrong artifact.

- `probe_outlives_slot`: the comment on `UNRESOLVED_TTL` says that past it "no
  probe can still be running". A slot whose first probe failed stays in the map
  and the next caller starts a new probe on it, which may run past the slot's age
  limit; the next GET then starts a second concurrent one.
- `stale_beyond_negative_ttl`: `NEGATIVE_TTL` is said to bound the stale-404
  window. A GET that joins a probe in flight takes a verdict that may be as old as
  one attempt, 10s. `StaleMissBound` is the bound that holds.
- `s3_store_uncleaned`: "any failure" is said to reach the abort of the upload. A
  failed `CompleteMultipartUpload` does not.
- `upload_unread`: every refusal is said to read the upload first. A PUT whose path
  is not UTF-8 is refused by the `Path` extractor, before the handler and its drain.
- `undocumented_hash`: hashes are said to be `[A-Za-z0-9_-]{1,128}`.
  `char::is_alphanumeric` takes any Unicode letter or digit, and a PUT under such a
  hash is stored and answered `200`. The purpose, to keep `/` and `.` out, is met
  (`KeysAreInert`).
- `failed_write_declined`: two comments (`handlers.rs:30-31`, `mod.rs:444-445`) say
  that a failed write is a genuine `500`. It is answered `403`, as `README.md:11`,
  the comment at `handlers.rs:70-77` and the test at `mod.rs:462-479` say;
  `NeverServerError` follows these.

Three more comments are overtaken by the code; each concerns one line, and no run
is spent on it:

- The comment on `SWEEP_THRESHOLD` (`probe_cache.rs:61-62`) says a sweep drops what
  is "both expired and resolved". `sweep` keeps what is `live`, so it drops expired
  slots that never resolved as well, as the comment on `live` explains. The comment
  describes the seeded fault `SweepKeepsUnresolved`, under which `SweptSpread` fails.
- `S3Storage::new` says validation already ensured that the region exists
  (`aws.rs:212`). It looks it up again (`ResolveRegion`), and without a configured
  region the second lookup may find none: the boot exits, as it does when the first
  finds none. `ServesOnlyWhatPassed` and `ExitsHaveCause` say what holds: it never
  serves without a region, and a configured region never ends a boot.
- A test comment (`mod.rs:262-264`) says the self-probe relies on its key never
  existing. The startup probe writes an object under it (`aws.rs:310-318`), and
  `SelfProbeOnce` can find it.

## 6. Not modelled

- The order of the SDK's region and credential providers, the TLS client: wiring
  without state; whether they find something is in `Startup`.
- Headers, content types, message texts: no state, and the repository's router
  tests cover them case by case. The access log: a line per answer, and none for a
  handler that is dropped.
- `/health`: a constant answer.
- The framing by which a client notices a response body that broke off: hyper's.
- Signals: the server installs no handler; a kill is `Restart` in `Startup` and a
  dropped caller in `S3Store`.
- A poisoned cache mutex: nothing under it can panic but the allocation.
- The end-to-end tests and workflows.

## 7. Plan

Done: the modules above, and the proofs of every safety property that a passing run
checks. Next, in this order:

1. Action properties with theorems of their own: that an acknowledged part never
   changes while its upload is open, and that a `200` or `409` is sent only after
   the mark that later GETs rely on.
2. The stall that `OnlyUploadsStall` excepts, as a safety property: which requests
   can be waiting for their client, and with what they hold.
3. The composition of `S3Store` under `RequestHandling`, if one module over both can
   be kept small; at present they meet at `ArtifactStore`.
