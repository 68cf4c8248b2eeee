# A TLA+ development of tamga-go

tamga-go is the Go SDK of the Tamga licensing service. It is a library: an
application links it, creates one `Client`, and calls its methods from any
number of goroutines. Nothing is persisted. What makes the code hard is what
surrounds it: a server that answers late or not at all, other installations of
the same license, signing keys that rotate, processes that die between two
calls of one flow, and bytes that two programs in two languages must build
alike.

This directory holds the components modelled in TLA+, the TLC runs that check
them, and TLAPS proofs about ten of the modules. The definitions keep the
names of the source where TLA+ allows it; `PROJECT.json` maps every one of them
to the lines it models. The server is not in the repository. It is modelled
from what the SDK's doc comments and tests rely on, and those definitions are
marked external.

## Inventory

| Part of the system | Source | State | Interacts with | Hard because of | Correct when |
|---|---|---|---|---|---|
| Machine activation | `machine.go`, `machine_read.go` | locals of a flow of up to five calls | the server's table of rows, shared by all installations | races for a seat, lost and late calls, crash and restart, paged search | the limit holds, no row is orphaned silently, a restart finds its own row and destroys nothing |
| Request execution | `client.go` | attempt, body, delay of one call | every method of the SDK runs through `doWith` | 429 retries, lost responses, timeouts, cancellation | creates are applied at most once, attempts are whole, calls are bounded and return |
| Response handling | `client.go`, `errors.go`, `release.go`, `artifact.go` | who owns the body of a response | `doWith` below, the methods above, the storage host beside | a body passes through up to three owners; redirects; a second request | every body is closed once, a helper reports what the server did |
| Entitlement cache | `entitlement.go` | `Client.entitlements`: one map under a mutex | goroutines; `ListEntitlements` | the lock is dropped for the HTTP call | every answer was true recently; an invalidation takes effect |
| Keyset lists | `machine.go`, `process_read.go`, `artifact.go`, `entitlement.go` | the caller's cursor | rows that come and go | page boundaries, a limit the server clamps | complete, nothing twice, the walk ends |
| Offline files and signing keys | `checkout_*.go`, `signing_key.go` | the `SigningKeySet` an application holds | the account's rotations; check-out | stale sets, retired and unusable keys, clocks, order of refusals | genuine files are not called forgeries, accepted ones are genuine |
| Heartbeat scheduler | `machine.go`, `policy_read.go` | one goroutine, its ticker | `PingHeartbeat`; the server's DEAD rule | lost and slow pings, cancellation racing a tick, odd windows | the machine stays alive, `Run` returns when cancelled |
| Processes | `machine.go`, `process_read.go`, `policy.go` | a row per process, never reaped | pids of the operating system; `max_processes` | crash before `Dispose`, late creates and deletes, pids used again | rows without a process are only those a fault left |
| Offline activation proof | `proof.go` | none | serde_json on the server | two JSON encoders that disagree on two characters | what the server signs is what the SDK rebuilds |
| Machine fingerprint | `fingerprint.go` | none | the seat a fingerprint takes | separators, padding, order | one machine, one fingerprint |
| Usage counters, validation, check-in, policies, releases | `entitlement.go`, `license.go`, `validation.go`, `policy*.go`, `release.go` | none | one request each | | |
| Transports, health, crypto, examples | `transport.go`, `health.go`, `internal/crypto`, `examples` | none | | | |

`PROJECT.json` lists for every part whether it is modelled and why not, and
under `hazards` each thing that can go wrong in a way a unit test would hardly
reach, with the properties that would catch it.

## Modules

Each component has a module with its state, actions and properties, an `MC`
module with the constants of its runs, and its configurations. The proofs are in
eight `_proofs` modules; `Requests_proofs` is about both `RequestRetry` and
`ResponseDecoding`, `Canonical_proofs` about `OfflineProof` and
`MachineFingerprint`. Definitions marked "Mutant of ..." are plausible bugs of the
definition after them: substituting one must violate the property it is listed
for in `PROJECT.json`.

    RemoteCall  <=(refines)=  RequestRetry  <-(EXTENDS)-  ResponseDecoding
    PolicyLimits  <-  ProcessSlots
    StringOrder  <-  OfflineProof, MachineFingerprint  <-  MCCanonical
    MachineActivation, EntitlementCache, KeysetPaging,
    OfflineVerification, HeartbeatScheduler: each on its own

### MachineActivation

One flow per installation (`Clients`): `pc` is the call it is about to make,
`mach` the machine in its hand, `page` the page of its search. One action per
call and outcome: `CreateSucceeds`, `CreateRefused` (422), `CreateConflicts`
and `CreateConflictResolved` (409), `CreateFails`; `ValidateAnswers`,
`ValidateFails`; `RollbackDone`, `RollbackFails`; `GetAnswers`, `SearchHits`,
`SearchMisses`, `LookupFails`; `RevalidateAnswers`, `RevalidateFails`. Each is
atomic because the SDK holds nothing shared between two calls: what matters is
the order in which the server handles them. `table` is the server's rows, with
its uniqueness check before its limits. `late` holds creates and deletes a
client gave up on and the server may still handle. The application holds the
machine its last flow returned; it deactivates, crashes, or learns from a 404
that its row is gone. `faults` bounds failures, late calls and crashes;
`excused` and `steady` are history variables the properties need.

`meta.machineId` of a 409 names a row of the caller's own license (`NamedBy409`),
as `errors.go:171-173` documents; the SDK re-checks its fingerprint and not its
license, so that half of `HoldsOwnSeat` rests on the server's contract. No
fingerprint of the model is empty, so the local refusal of an empty one is left
out.

- `SeatsWithinLimit`: the machines whose activation returned VALID never
  outnumber the limit, although every create may pass the create-time check.
- `HoldsOwnSeat`: no application is handed a row of another license or
  fingerprint.
- `NoSilentOrphan`: a row is known to someone unless a fault, a crash or the
  application lost it.
- `RecoveryDestroysNothing`: a flow that met a 409 for its own row deletes
  nothing.
- `RestartFindsOwnSeat`: while the own row stays, the 409 is not raised again,
  on whatever page of the listing the row is and whatever is created during the
  search. The listing is newest first (`Before`), so a create moves a row away
  from the pages already turned and a delete of a row on them (`Walked`) moves it
  towards them: `RemoveRow` excuses the searches such a delete hits, and no other.
- `FlowReturns`: every activation returns.

### RequestRetry and RemoteCall

`doWith` for one call per element of `Calls`: `Send`, `SendRefused`,
`Answered`, `NetFails`, `Retry`, `WaitCancelled`, with `Cancel` by the caller
and the other end's `Handled`, `Rejected`, `Throttled`. `body` is the state of
`req.Body`, which an attempt consumes. A failed or throttled request may have
been applied all the same. A request whose caller is gone may still arrive.
`elapsed` counts timeouts and waits; an attempt lasts no time or the whole
timeout, which are the extremes. `RemoteCall` is what a call promises: applied
within its budget, "ok" only if applied, and it returns. The budget is one for
everything not retryable.

- `CreatesAtMostOnce`, `EveryAttemptIsWhole`, `TimeBounded`.

### ResponseDecoding

What becomes of the response `doWith` returns, on top of `RequestRetry` and
without a step of its own in it. `received` and `closed` count bodies:
`doWith` owns a body until it returns (`DecodedAnswered` closes those it
retries), then the helper, `mapError` on the error path (`MapError`), and at
the end the caller of a download, who gets the stream open. `Decode` is the
2xx path of every helper; `RefusedLocally` is a call refused before a request
exists: an option that is not valid, a body or URL that cannot be built.
`Redirected` is a server or proxy that answers a download with a 303 although
`redirect=false` was asked for; `noRedirectClient` hands the 303 to the helper
as the answer. `FetchFails` and `FetchAnswered` are the second, plain request of
`DownloadArtifact`.

- `BodiesClosedOnce`: received = closed + what someone still owns.
- `HelperIsRemoteCall`: a helper, second request included, implements
  `RemoteCall` (the refinement mapping is `HelperStatus`), liveness included.

### ProcessSlots and PolicyLimits

`PolicyLimits` is `EffectiveOverageStrategy` and `Allows`: which counts a raw
strategy and a maximum permit, with the float products as integer comparisons.
`ProcessSlots` is the life of process rows under it. A program starts with a
pid no live process of its machine has (`Start`), creates its row
(`CreateSucceeds`, `CreateRefused`, `CreateFails`), runs its scheduler until it
is cancelled or a ping says 404 (`RunReturns`, `PingNotFound`), and disposes
(`Dispose`, `DisposeAnswers`, `DisposeFails`), or forgets to
(`NeverDisposed`), or crashes. `late` again holds calls that may still be
handled. Pids and programs are used again, rows are not.

- `LeaksCounted`: rows without a process never outnumber the faults.
- `TakenOnlyByLeak`: `PID_TAKEN` is only ever due to such a row.
- `RunningKeepsRow`: no delete of another process, late ones included, takes a
  running process's row.
- `SlotFreed`: without a fault every row is freed again and again.

### EntitlementCache

`HasEntitlement` is split where it drops the lock and around the list call:
`Hit`, `Miss`, `ServerLists`, `FetchFails`, `Receive`, `Store`; and
`Invalidate`. `changed` and `overAt` remember when the server's list last
changed or exceeded a page, so `AnswersWereTrue` can say that an answer was
true at some moment of the last `TTL + Latency`.

### KeysetPaging

The four listings share `ServerPage` and differ in `NextCursor`; a caller feeds
`NextCursor` back until it is nil while rows are added and deleted, the one the
cursor names included. `CompleteWalk` and `WalkEnds` are about the three keyset
lists, `NothingTwice` about all four, `CompleteBelowCeiling` about
`ListEntitlements`, which has no cursor.

### OfflineVerification

A file is what the checks can tell apart: kind, encoding, algorithm suffix,
format, signer, `kid`, `exp`, damage. Verifying changes no state, so `Verify`
and `VerifyWithKeySet` are operators: sequences of checks of which the first to
refuse decides, in the order of the code. The state is what surrounds them:
rotations, deleted keys, a key list under way, the set held and the server's
clock. Rows and entries are sets, for their order only decides which of two
entries with the same key is returned. Damage (`Copies`) and the caller's clock,
license key, fingerprint and scheme (`Inputs`) are inputs: the properties ask
about every copy of every file, with every input, in every state.

### HeartbeatScheduler

`Run`'s loop: a ticker with room for one tick, a ping that takes time while
ticks are dropped, `onTick`, and a `select` that takes either of two ready
cases. Time is in thirds of a second so that window/3 is a whole number. The
server compares the truncated age with the window; `MaxAge` is where the model
stops telling ages apart, above every window (`ConfigOK`). A ping blocks the
loop for up to `PingTime`, several intervals, before it answers or fails; the
ticks the loop misses meanwhile (`Overslept`) count as unserved beside the one
of a lost ping. `missed` is how many in a row, which `StaysAlive` compares with
the losses `HeartbeatInterval`'s table tolerates.
`ProcessHeartbeatScheduler.Run` is the same loop without a status to keep.

### OfflineProof, MachineFingerprint and MCCanonical

Pure functions over sequences of numbers: code points in `OfflineProof`, bytes
in `MachineFingerprint`; `StringOrder` is the order both sort by, and `Sorted`
the enumeration of a set that increases. `OfflineProof` writes the payload
twice, as encoding/json does and the scanner of `serdeCompatMarshal` repairs it,
and as serde_json does. Both sort the keys of every object and write a key as
they write any text, the names of the caller's dataset among them; the five
names of the payload itself are represented by their first letters, which order
them alike. `MachineFingerprint` is `CanonicalFingerprint` up to the hash: trim,
validation, order, separators.
Each module also has a reader (`TextsOf`, `ReadBack`) that inverts the writer
and is the reference the properties compare with. `MCCanonical` enumerates
inputs piece by piece.

- `GenuineProofVerifies`: the SDK rebuilds the signed bytes exactly, whatever
  the fields and the names of the dataset hold (an escaped backslash before
  `u2028` included).
- `ProofBindsTuple`: a payload can be read back, so it fits one tuple.
- `FingerprintIsIdentity`: the canonical form can be read back, and neither
  order nor padding changes it.

## Runs

| Run | Instance | Shows |
|---|---|---|
| `Activation` | two installations, one seat, create cap of two, one fault, three rows, one row per page | `SeatsWithinLimit`, `NoSilentOrphan`, `RestartFindsOwnSeat`, `RecoveryDestroysNothing`, `FlowReturns` |
| `ActivationWide` | three installations, two licenses, uniqueness across licenses, two rows, one fault, one page | `HoldsOwnSeat` |
| `Retry` | a call of each kind through every helper that sends it, three retries, 45 s, `Retry-After` 0, 86400 or absent | at most once, whole bodies, bounded, bodies closed once, `HelperIsRemoteCall` |
| `Entitlement` | two goroutines, one license, two codes, pages of one code, eight instants, three changes | `AnswersWereTrue` |
| `EntitlementRace` | two licenses, one change | `InvalidateForcesRefetch` **violated** |
| `Keyset` | five ids, limits -1 to 3 with a maximum of 3, three changes | complete, nothing twice, ends |
| `KeysetOverLimit` | a limit of 4 | `CompleteWalk` **violated** |
| `Offline` | three keys, one row undecodable, four kinds of file, one file, a clock of five, drift of one either way | the five properties of verification |
| `OfflineMislabelled` | the first key's row holds the second key | `GenuineNeverForged` **violated** |
| `Heartbeat` | windows null, 0 to 4 s, fallback 6 s, pings of up to 2⅓ s, three ticks in a row unserved | stays alive, stops, revives |
| `Processes` | three programs on two machines, two pids, one row licensed with twice that allowed, three rows, one fault | the four properties of process rows |
| `Canonical` | tuples whose texts and dataset names hold up to four of nine pieces, no two alike; up to two components of five labels and values of up to two bytes | both canonical forms |

Each module's `TypeOK` is checked with its first run (`MCCanonical` keeps only
its inputs).

Why the bounds are enough. A race for a seat needs two flows and a cap one above
the limit; a third row lets a late create meet both. Two licenses with one
fingerprint are what the wider uniqueness adds. One fault at a time reaches
every failure path, and its late call meets every state of the other flow; a
failure after a failure is outside the runs (not outside the proofs, which hold
for any number of faults). In `Activation` the fault may be the crash after
which an installation meets a 409 for its own row, and one row per page makes
every boundary of its search occur, with rows created in front of it and deleted
behind it. Calls share nothing, so one call of every kind is
every call; two `Retry-After` values and none are the three branches of
`retryDelay`. A cached list is read, changed and asked for by a second
goroutine within three instants, and eight instants hold a whole TTL and a
response after the last change; two codes are one more than a page. Three keys
give a retired key between two others; the properties of verification are about
one file, and a clock of five passes its expiry with skew and drift. Five ids
and pages of three give a full, a short and an empty last page. Windows of one
to four seconds are on either side of the floor, and the fallback of six stands
for 600 as the first window whose third exceeds it clearly. A ping of seven thirds
outlasts two of the shortest intervals, so a ticker drops a tick and one ping
costs two. Two programs of one
machine and one of another share two pids, so a pid is used again while a
neighbour runs; three rows are one more than the policy allows. Four pieces hold
an escaped backslash in front of what looks like an escape, with a text on each
side; two components are what an order, a duplicate or a separator takes.

Deadlock is checked in the activation, retry, entitlement and process runs. It
is off for the keyset runs (a finished walk), the offline runs (clock and keys
used up), `Heartbeat` (a stopped scheduler) and `Canonical` (no more inputs),
which do stop.

### Fairness

- `MachineActivation`: weak fairness of each flow. Every call ends, because the
  server answers or `DefaultTimeout` makes it an error; the application, the
  world and the late calls owe nothing.
- `ResponseDecoding` (and `RequestRetry`): weak fairness of each call's own
  steps: timers fire, `hc.Do` returns within `http.Client.Timeout`, and a helper
  that has its response goes on. The server owes nothing. A caller who passes an
  `http.Client` without a timeout has no such guarantee.
- `ProcessSlots`: weak fairness of each program's calls: a create ends, and a
  program that shut down goes on to dispose. When a program starts or shuts
  down, and whether late calls arrive, is open.
- `KeysetPaging`: the caller asks for the next page while it has a cursor.
- `HeartbeatScheduler`: the goroutine is scheduled and time passes. `onTick` is
  assumed to return at once; `MaxMissed` bounds the ticks in a row no ping
  served, which is what `DeadIsRevived` needs: a network that never delivers
  revives nothing.
- `EntitlementCache`, `OfflineVerification` and `MCCanonical` have safety
  properties only.

### What the violations show

Each is a disagreement between the code and a sentence of its documentation,
quoted in `PROJECT.json` under `findings`:

1. A fetch under way when `InvalidateEntitlementCache` is called stores its
   list afterwards, so the next call does not refetch.
2. A `Limit` above 100 is clamped by the server, the page of 100 is not "full"
   by the SDK's comparison, and `NextCursor` is nil.
3. A row published under the id of one key that holds another makes genuine
   files of the first read as forgeries.

Three more limits were met while modelling. They are conditions of a property
rather than runs:

- `FindMachineByFingerprint` walks offset pages. A row deleted from a page it has
  turned moves the caller's own row onto a page already read, and the 409 is
  raised again; `RestartFindsOwnSeat` excuses that one case.
- `HeartbeatInterval`'s table speaks of lost pings, and the interval of a third
  holds what it says while a lost ping ends within the interval. `Run` is blocked
  by its ping, which `DefaultTimeout` and the waits of a 429 let last many
  intervals: such a ping costs every tick it makes the loop miss, and two of them
  in a row may be more than the window tolerates. `StaysAlive` counts ticks, not
  pings, for that reason.
- `machine.go:645-649` and `730-734` say that "a dead process row is deleted
  immediately"; `process_read.go:62-66` says that the reaper is dead code and a
  row lives until a client deletes it. `ProcessSlots` models the second, which
  is what `Dispose` is for.

## Proofs

TLAPS proves, for every value of the constants (under each module's `ConfigOK`):

- `MachineActivation_proofs`: `TypeCorrect`, `LimitHolds`, `OwnSeatOnly`,
  `NoOrphans`, `RecoveryIsHarmless`, `RestartHolds`, `FlowAdvances`. The
  invariant `Inv` adds two facts. `FreshIds`: ids from `nextId` on are unused
  and unknown, so a new row is nobody's. `FlowOwnsItsMachine`: the row a flow
  is about to validate or delete is its own, the row it is about to fetch is of
  its license. `HoldsOwnSeat` then follows from what each return hands over.
  `SeatsWithinLimit` is inductive because a seat becomes granted only in a step
  in which the server counted at most the limit, and no step grants another
  (lemmas `StepsOfTable`, `StepsOfApp`, `StepsOfFlow` say what a step may do to
  each part of the state). `NoOrphans` is proved action by action: a step that
  lets go of a row hands it over, deletes it or excuses it. `RecoveryIsHarmless`
  is an action property: the one step that deletes a row for a flow is the
  rollback, and no flow after a 409 is there. `RestartHolds` needs `SteadyInv`:
  a license never has more rows than its create-time cap (`SeatsCapped`), so a
  flow that met a 409 for a row that stays (`SteadyAfter409`) has it on the page
  it is about to fetch or behind it (`SteadyIsAhead`: a row has at least as many
  before it as the pages turned hold, which a create only adds to and only a
  delete among them takes from), and what its last flow returned is that row
  (`OutcomeOfLastFlow`). The theorem assumes that every cap is below the offset
  ceiling of 100,000 rows, where the search gives up.
  `FlowAdvances` is the safety half of `FlowReturns`: `CallsLeft`, the calls a
  flow can still make, falls with each of its answers and rises with no other
  step. A page is never beyond the offset ceiling (`PageBelowCeiling`), so the
  search ends there however many rows appear meanwhile; the step to a next page
  reads that off `LastPage`.
- `Requests_proofs`, of `RequestRetry`: `TypeCorrect`, `AtMostOnce`,
  `WholeBodies`, `LongestCallHolds`, `Implements`. `AppliedOncePerAttempt` counts
  applications against attempts and ties a second attempt to a retryable request;
  `BodyRestored` says a spent body is never on the wire; `TimeByAttempts` bounds
  the time by the attempt number. `Implements` is the safety part of the
  refinement: initial states map to initial states and each step to a step of
  `RemoteCall` or a stutter.
- `Requests_proofs`, of `ResponseDecoding`: `ImplementsRetry` (every step of a
  helper is a step of `RequestRetry` or a stutter), `BodiesClosed` and
  `HelperImplements`, the safety part of
  `HelperIsRemoteCall`. `DecodingInv` adds that an outcome exists only once
  `doWith` returned, so no body is counted as owned by two, and that it is "ok"
  only if `doWith` returned a response, so no helper reports a success the server
  did not apply. `HelperImplements` maps a return of `doWith` to a stutter and
  the helper's own last step to `Return`.
- `ProcessSlots_proofs`: `TypeCorrect`, `RunningKeeps`, `TakenByLeak`,
  `LeaksPaid`. `Hands` says that live processes of a machine have different
  pids, that no row is in two hands, and that a row in hand is the process's own
  or gone. `LeaksCounted` alone is not inductive, because a late create makes a
  leak without a fault of that moment: `Paid` counts creates still under way
  together with the leaked rows.
- `EntitlementCache_proofs`: `TypeCorrect`, `AnswersTrue`. `CachedTruth` and
  `FetchedTruth` say that an entry was true when the server read it and was
  stamped at most `Latency` later; `TruthSurvivesChange` carries that through a
  change of the server's list.
- `KeysetPaging_proofs`: `TypeCorrect`, `NothingTwiceHolds`,
  `CompleteWalkHolds`, `CompleteBelowCeilingHolds`, `WalkAdvances`. `Inv` says that what is
  listed lies at or below the cursor and holds every stable row that does
  (`KeysetWalk`), and that a nil cursor means no stable row is left
  (`KeysetDone`). `PageFacts` derives what a page of the first n rows holds from
  the definition of `Min`, by counting (`Extrema`). `CompleteWalkHolds` assumes
  that no limit exceeds the server's maximum, which `KeysetOverLimit` breaks.
  `WalkAdvances` is the safety half of `WalkEnds`: every page lowers `Distance`,
  the number of ids a walk has not passed, and no change on the server raises it.
- `OfflineVerification_proofs`: `TypeCorrect`, `AcceptedHolds`, `ExpiryHolds`,
  `SetExtendsHolds`, `RotationSurvivesHolds`, `GenuineNeverForgedHolds`. The
  lemmas from `TwoParts` to `SetOutcome` turn a sequence of checks into the
  formula of its outcome; three theorems follow from them in every well-typed
  state. The last two need `Inv`: rows and entries are those of the account's
  keys, every file was issued under its kid, and a set read after a file was
  signed holds its key unless that was deleted. `GenuineNeverForgedHolds`
  assumes that a row holds its own key or an undecodable one, which
  `OfflineMislabelled` breaks.
- `HeartbeatScheduler_proofs`: `TypeCorrect`, `FewTicksHolds`,
  `StaysAliveHolds`. `CancelInv` counts calls of `onTick` after a cancellation
  together with those still due. `AliveInv` bounds the age of the last ping by
  the intervals of the ticks that went unserved, the ones the ping under way has
  used up and what the ticker has counted since; that stays below the window and
  the second of grace that truncating the age gives, for every `PingTime`.

- `Canonical_proofs`: `SerdeCompatible`, `GenuineProofIsAccepted`,
  `ProofNamesOneTuple`, and the run's invariants `GenuineProofsVerify` and
  `ProofsBindTuples`, for texts of any length over any code points and datasets of
  any finite set of names. The scanner walks a document token by token, so
  everything is said of a walk that meets a piece, wherever the piece stands:
  `Rewrites(a, b)` says that a is repaired to b on its own, `Reads(a, text)` that
  inside a string it is read as text, and `Shows(a, texts)` that outside of
  strings it yields these texts. Each holds of the empty piece and of two pieces
  side by side, hence of every flattened sequence (`FlattenRelated`). What is left
  is one element, one escape (`RewritesChar`, `WholeSerde`; the digits of an
  escape tell the character, `EscapeDigits`), one string, one key, one object.
  For `ProofNamesOneTuple`, `PlacesOfTuple` says where the account, the machine and
  the fingerprint are among the texts of a payload, counted from its two ends, and
  `FieldTextsName` that what stands between them names the dataset: its names in
  order take turns with its texts (`NamesAndTexts`).
- `Canonical_proofs`, of `MachineFingerprint`: `FingerprintReadsBack`,
  `OneFingerprintOneMachine`, `FingerprintIgnoresOrder`,
  `FingerprintIgnoresPadding`, and the run's invariant `FingerprintsIdentify`,
  for any number of components of any length. Bytewise order is total
  (`BytewiseOrder`), so a finite set of strings has an increasing enumeration
  (`IncreasingExists`) and sorting keeps exactly the parts (`SortedParts`). The
  reader cuts a form into stretches from separator to separator; no accepted part
  holds one, so the stretches are the parts (`OneMorePart`, `FormReadsBack`), and
  no label holds `=`, so the first one splits a part (`PartReadsBack`). Two lists
  with one form therefore have the same labels and trimmed values. Conversely the
  form depends on the set of parts and on the verdict, which neither order nor
  padding (`TrimPadding`) changes (`SameIdentity`).

The provers cannot instantiate an induction theorem that takes a predicate.
`Canonical_proofs` states induction with a set in its place, from the
well-foundedness of `<` (`Induction`, `Descent`, `Ascent`), and shows of each
recursive function that its recursion has a solution (`UnescapingFrom`,
`ReadingFrom`, `FindingFrom`, `FlatteningFrom`) before it unfolds one.

Only model-checked: all liveness (`FlowReturns`, `WalkEnds`, `RunReturns`,
`DeadIsRevived`, `SlotFreed`, the fairness part of `HelperIsRemoteCall`),
because liveness under fairness and ENABLED are out of the prover's reach. Of
`FlowReturns` and `WalkEnds` the measure is proved (`FlowAdvances`,
`WalkAdvances`); that the fair step stays enabled until the end is TLC's part.
Recursion is written with recursive functions and folds, never with RECURSIVE
operators.

## Abstractions to know of

- Formatting, headers, URLs, JSON (but for the offline proof) and PEM are left
  out, and with them the refusals of an argument before any request in the
  components whose state they do not touch: an empty fingerprint
  (`machine_read.go:304-306`), a TTL out of range (`checkout_machine.go:93-97`).
- Redirects of requests other than the downloads are left out: the API's other
  routes answer none, and `net/http` would follow one inside `hc.Do`.
- The texts of an offline proof are valid Unicode, as JSON strings of the server
  are; the values of its dataset are texts. A payload without `meta`, which the server does not write into a v2 file,
  is not modelled.
- Signatures and authenticated encryption are perfect, SHA-256 is injective. Of
  the five schemes, Ed25519, RSA PKCS1 and the refused JWT scheme are modelled;
  PSS and ECDSA follow the path of PKCS1 with another primitive.
- Jitter is its two extremes; so is the time of an attempt.
- The server's limits and verdicts are those the flows react to.
  `WideUniqueness` is UNIQUE_PER_POLICY and UNIQUE_PER_ACCOUNT.
- `meta.page.size` equals the size asked for.
- A successful process ping is left out of `ProcessSlots`: no property reads
  `last_heartbeat_at` of a process, and the server acts on it nowhere.

## Not modelled

- Authentication transports and headers, health: they set headers on one
  request or read one answer and keep no state; there is no order of steps.
- Cryptographic primitives: wrappers of the standard library, assumed perfect.
- Usage counters, validation, check-in, policies and releases are one request
  each: their retry class and decoding are in `RequestRetry` and
  `ResponseDecoding`, the counters and verdicts are the server's.
- Error values: `Error.Is`, `As` and `UnmarshalJSON` compare or decode one
  value; the UNKNOWN fallbacks of `mapError` are in `ResponseDecoding`.
- Numbers in the dataset of an offline proof, whose formats may differ between
  the two encoders, as `proof.go` documents, and its other literals and nested
  values.
- Examples and package documentation.

## Plan

1. Done: activation, retry and response handling, entitlement cache, keyset
   lists, offline verification, heartbeat scheduler, processes with the policy's
   overage, both canonical forms; proofs about all of them.
2. Composition: the heartbeat's ping as a `ResponseDecoding` call, so that the
   time of a ping is derived (`LongestCall`) and not a parameter;
   activation's creates as `RemoteCall`s, and its create-time cap from
   `PolicyLimits`.
3. Done: proofs of every safety property the runs check, and measures for the
   flows of `MachineActivation` and the walks of `KeysetPaging`.
4. Usage counters: concurrent `Increment` and `Decrement` against the limit of
   an entitlement, once the server's rule is documented beyond its error codes.

New runs that answer the same question as an older one replace it.
