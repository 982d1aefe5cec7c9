# Lido Circ Supply: specifications, model checking and proofs

The service answers one question over HTTP: how many LDO, stETH and wstETH
circulate. Behind it a worker follows the chain, and for LDO it has to know
every vesting there is, which it learns from contract events. This directory
models the worker, the LDO service with everything it calls, the arithmetic, the
chunked event queries, the HTTP side over the stored data, and the script that builds
the snapshot the service starts from; it checks them with TLC, and proves the main
results with TLAPS.

Paths in this text are below `src/` of the repository, `scripts/` beside it.

## 1. Inventory

| Part | State | Operations | What makes it correct |
|---|---|---|---|
| Update worker, `worker/worker.service.ts` | `lastBlock`, the flag of `@OneAtTime` | a cycle: latest block, `isNewBlock`, `getTokenInfo` of every token, save, `lastBlock` | cycles end and are tried again; `lastBlock` only moves forward and only when all is stored |
| Token storage, `tokens/tokens.service.ts`, `storage/` | `tokensData`: token to data and block | `saveTokenData`, getters, 503 without data | data is true of its block, blocks do not go back, data stays |
| LDO service, `ldo.service.ts`, `vesting.service.ts`, `treasury.service.ts` | none | fork and join of reads, two scans, two fetches, a calculation | all data of one block |
| Address scans, `vesting-members.service.ts`, `ldo-burns.service.ts`, `ldo-events.ts`, `ldo-snapshot.ts` | set of addresses, cursor `lastFetchedBlock` | scan the events since a few blocks before the cursor, merge, move the cursor | no address is lost |
| Member vestings, `vesting-vestings.service.ts` | cache `membersVestings` | whom to fetch, fetch, merge | the cache holds every member, as of the block calculated |
| Balances, `ldo-balance.service.ts` | none | balances of burned holders | there is one for every burned member |
| Vesting arithmetic, `vesting-calcs.service.ts` | none | linear vesting with a cliff, burned tokens | exact, rounded up, never growing |
| Chunked queries, `common/provider/query-filter-in-chunks.ts` | permits shared by the process, waiters; per call: next chunk, failure, results | acquire, query, release, fail | no permit leaks, no chunk is lost, calls settle |
| stETH, wstETH, `tokens/steth`, `tokens/wsteth` | none | two reads by block hash | (as a token of the worker) |
| Supply endpoints, cache, throttler guard, readiness, `http/`, `common/health` | cached answers | refuse, answer from cache or storage; probe | no 503 while traffic is routed; bounded staleness, also when answers get into the cache late |
| Snapshot script, `scripts/ldo-snapshot.ts` | a file | build, write and compare the snapshot | the file is exact, and about blocks no reorganisation reaches |
| Counting of the throttler, Cache-Control headers, bootstrap, configuration, metrics, logging, Swagger, Sentry | library state | | not modelled, section 8 |

How they interact. The cron job (and the boot) calls the worker; the worker calls
the token services in parallel and stores each answer as it comes. The LDO
service starts two scans and the reads of supply together, then the fetch of
vestings and of balances, then calculates. Everything is joined with
`Promise.all`: when one part fails the cycle ends at once, and **nothing is
cancelled**. The other parts, down to the saving of a token, run on beside the
next cycle and change the state all cycles share: the two address sets and
cursors, the vestings cache, the permits, the storage. The HTTP side reads the
storage at any time. All of this is in memory: a process that starts anew knows only the
snapshot file it was built with, which the script made from the same scans.

Hard behaviours, therefore: requests that outlive their cycle, failures of one
part of several, reorganisations between two queries by block number, caches and
cursors that survive a failed cycle, live sets read after an await, permits
handed over between calls, restarts, and a snapshot built by thousands of requests that
are repeated when they fail. `PROJECT.json` lists each hazard with its line and the
properties that look at it.

## 2. Modules

| Module | Models | Built on |
|---|---|---|
| `AddressScan` | one address-collecting service with overlapping calls and restarts, against a chain that may reorganise | |
| `SnapshotScript` | the script's two commands, the file, deployments and crashes of the service | extends `AddressScan`, and refines it |
| `VestingCalcs` | the arithmetic, as operators; a small machine lets the block time go on | |
| `ChunkedQuery` | permits and workers of `queryFilterInChunks`, one action between two awaits | |
| `QuerySet` | abstract: what a caller of `queryFilterInChunks` sees | refined by `ChunkedQuery` |
| `UpdateWorker` | worker and storage; what a token service does is opaque | |
| `Serving` | HTTP side over the storage of `UpdateWorker` | extends `UpdateWorker` |
| `EthChain` | external: blocks by hash, the followed branch, events, vestings and burns | |
| `LdoService` | one `getTokenInfo` call per slot and all the state calls share | extends `EthChain`; two instances of `AddressScan` |
| `CircSupply` | the whole update side, and its properties | extends `LdoService`; an instance of `UpdateWorker`; refines `AddressScan` twice |
| `SupplyFeed` | abstract: a feed of blocks in order, of true data until something fails | refined by `CircSupply` |
| `MC*` | instances for TLC | |
| `*Proofs` | theorems | the module they are named after |
| `SumTheorems` | theorems about the sum over a finite set, which vestings and members are added up with | |

**State and actions against the code.** Variables have the names of the fields they
stand for. A slot in `Runs` is a cycle with its requests: `request[r][t]` in
`UpdateWorker`, `call[r]` in `LdoService`, `scan[r]` in `AddressScan`. A slot may be
used again when nothing of its cycle is left, so one slot means that cycles do not
overlap with what failed ones left, two slots that they may. An action is the code
between two awaits:

- `StartCycle`/`StartCall`/`StartScan`: from the answer with the latest block up to
  the first await of each part;
- `ServeQuery`: one `eth_getLogs` is answered, with the branch the node follows
  then; `CompleteScan`: merge, cursor, return;
- `StartFetches`: after both scans; whom to fetch is decided on the set as it is then;
- `MergeVestings`, `ServeBalances`: a fetch is in. The requests of one fetch are one
  read: they ask one block by hash, which cannot change;
- `Calculate`: over the shared cache and the live set of burned holders as they are
  then, with the balances this call fetched; it fails where the code throws
  "Balance can't be null";
- `Fail*`: a part rejects and with it what waits for it; the rest runs on;
- `SaveTokenData`, `FailToken`, `EndCycle`: the callback of one token, the first
  rejection, the end of a cycle that went well;
- `Restart`: the process is gone with all it knew, and the new one has a snapshot.

In `SnapshotScript` a run is one execution of the script. `StartRun` reads the command and
asks for the finalized block; `ServeFinalized` is the guard on `toBlock` and the start of
the build; `ServeBuildQuery` and `FailRequest` are one request answered or failed, the
attempts counted as `RetryingProvider` does; `FinishUpdate` writes the file, `FinishCheck`
compares it. `Deploy` starts the service with a file that a run wrote or matched, `Crash`
with the snapshot it had.

In `Serving` a request first looks into the cache: `ServeCached`, or `Miss`. After a miss its
handler reads the storage in a step of its own (`Handle`, or `HandleUnavailable` when it throws
503), and `Fill` is the tap of the cache interceptor, which writes to the cache what was read
and sends it. Saves and other requests come between these steps: requests for one endpoint may
miss together, and an older answer may be written over a newer one. The guard runs before all:
`Throttle` answers 429 and looks at neither cache nor storage. Between the read and the write
the interceptor only waits for promises that are due at once, so the time that goes by there is
bounded by a constant of the environment, `FillTicks`.

**Abstractions.** In the composition a member's vestings are the amount not vested yet
and time does not pass: `VestingCalcs` has the time. Total supply and treasury are read
by hash from the block of the call and hold no state, so they only appear as a part that
may fail; the stored supply is represented by its locked amount. In `EthChain` a block has at
most one transaction: it grants a vesting with its tokens, revokes one, burns, or transfers a
token to a holder whose balance is below what is not vested. A locked token cannot be
transferred, so only a burn brings a balance there; every other transfer leaves the smaller of
balance and not vested amount as it is, and is left out. A getBlock that fails, or brings nothing new, changes nothing and
is a stutter.

## 3. Runs

All runs set `CHECK_DEADLOCK FALSE`: the number of blocks, failures or calls is bounded,
and a behaviour may stop at the bound.

| Run | Instance | Shows |
|---|---|---|
| `address_scan` | 2 overlapping calls, 5 blocks, overlap 1, chunks of 2, reorganisations of 2, restarts | type, `Coverage`, `ScanInv`: no address in a final block below the cursor is missed |
| `snapshot_script` | 3 blocks, reorganisations of 1, 2 attempts, chunks of 1 | a vetted file is exact and final, few errors do not fail a run, and the service with the script, deployments and crashes is that of `AddressScan` |
| `vesting_calcs` | 2 members with up to 2 vestings, all schedules in 3 times | bounds, linearity, that exactly the smaller of balance and not vested counts for who burned, and that the locked amount never grows with time alone |
| `chunked_query` | 3 calls of 3, 2 and 3 chunks, 2 permits | permits are counted, none idle while somebody waits, chunks claimed once, results complete, no query after a failure, every call settles, `ChunkedQuery` implements `QuerySet` |
| `serving` | 2 tokens, 2 overlapping cycles, a block and 2 forks on it reported in any order, one slot with a failed request at a time, 2 requests, entries live 2 ticks and take up to 1 to be written | readiness, order of `lastBlock`, tokens agree when a cycle ends well, no 503 while routed, bounded staleness |
| `circ_failures` | 1 member, 2 tokens, 1 failed request, overlap 0, 3 blocks | `CircSupply` implements `SupplyFeed` and both scans of `AddressScan`; every cycle ends, the service catches up; true data is followed by true data if nothing cached is older than the last save and the scan reaches back to it; nobody is left out |
| `circ_reorgs` | 1 token, reorganisations of 1 block, overlap 1, 5 blocks | wrong data for a block of the chain needs a dropped vesting event; nobody is left out; the service follows the new branch |
| `circ_strays` | 2 slots, 1 failure, overlap 0, 3 blocks | the cycle that executes has its balances; nobody is left out |
| `lost_vesting`, `dropped_vesting`, `stale_save`, `mixed_blocks` | as small as shows it | section 4 |

**Bounds and why they are enough.** `MaxReorgDepth` = overlap + 1 in `address_scan` is the
deepest reorganisation under which `Coverage` holds: the next scan starts at cursor −
overlap. Five blocks give three scans with chunks of unequal length. One member is enough
in the composition because nothing in the code relates two members but the sum, and the
safety properties checked with one member are proved for any number (section 5);
`MaxAmount` 1 with balance and snapshot chosen freely gives every case of granted, revoked,
burned and both. Three or four blocks give a save, a change, a failure and a next save,
which is also the length of the counterexamples; the fifth of `circ_reorgs` lets the new
branch outgrow the old one by a block. Three blocks in `snapshot_script` give files that
end at blocks 0 to 2, builds of no, one and two requests, and a head that is not final. Overlap 0 where failures are checked makes
an event fall out of reach as soon as possible. Two slots give one cycle and what one
failed cycle left; the theorems below hold for any number. In `serving` one endpoint is
asked, because endpoints share nothing but the storage. Its constraint (`Bounds`) makes a hash
that of one block and lets one request at a time be one that failed, which is what two slots
need to leave requests behind; its view leaves out the status of an answer, which no later step
reads. The theorems of section 5 have none of these bounds.

**What the properties say.** Each is stated in words above its definition. The ones worth
knowing:

- `IsTrueFeed` (refinement): without reorganisations and requests that outlive their
  cycle, blocks never go back, the storage keeps up with the chain, and each stored datum
  is the truth of the block it names until a request fails (finding 1 is about what may be
  stored after that).
- `ScansAreScans` (refinement): in the service, each of the two scans does only what
  `AddressScan` does, so what is proved there holds here.
- `CallsAreQuerySets` (refinement): with its workers and permits, `queryFilterInChunks`
  resolves with the answer to its last chunk or rejects before, as `AddressScan` and
  `SnapshotScript` take for granted.
- `VettedIsExact`: what the script writes, or finds right, has the addresses of all events
  up to a block that is final, and no other, whatever failed and was repeated meanwhile.
- `DeploymentsAreRestarts` (refinement): deployments and crashes are the `Restart` of
  `AddressScan`, which assumes a snapshot that is right. The script is what makes it right.
- `EventuallyServesHead`: once requests stop failing, the data served is that of the head;
  only while the branch is shorter than the one served may it be of the old one, because
  `isNewBlock` refuses a lower number. A branch of the same height is taken.
- `SaveKeepsTruth`: a failed cycle does no lasting harm as long as nothing in the cache is
  older than the block of the last save, and the scan of the next call that saves starts no
  later than the block after it. Under this condition finding 1 does no harm. That the last
  datum was true would not be enough: the amounts of two members may both be out of date and
  cancel out in its sum, and no longer in the next one. The property therefore speaks of the
  cache (`CachedBetween`). One member cannot show the difference; the attempt to prove the
  weaker form did.
- `TrueUnlessVestingDropped`: under reorganisations within the overlap, data of a block of
  the chain is true unless a dropped block had a vesting event (finding 2). A dropped burn
  does no harm: the holder is then capped by a balance that covers what is not vested.
- `CalculatedCoversMembers`: no failure, overlap or reorganisation makes a calculation leave
  out a member with a final event; in particular a member whose first fetch failed is
  fetched again.
- `ServedTokensAgree`: when a cycle ends well, the data of each token is of its block, or a
  request of a failed cycle has saved it since (finding 3 is what that does). Nothing else a
  failed cycle leaves survives the next one that ends well.
- `ServedIsRecent`: what is cached, or on its way there, was still in the storage less than the
  life of an entry and the time of a cache write ago. `recent` is a history variable for this:
  it has what was stored, and how long ago last, however many saves there were since.
- `RoutedIsServed`: it speaks of 503, the only error of the handlers. The 429 of the guard may
  come at any time.
- `CurrentCycleHasBalances`: without reorganisations the live set of burned holders never
  makes the calculation of the cycle that executes throw. (A failed cycle's own may; with
  reorganisations see the end of section 4.)

**Fairness.** `FairSpec` of `CircSupply` is weak fairness of each slot's progress and of
starting a cycle: every request is answered or timed out by the provider, promises that
are settled run their callbacks, and the cron job fires for ever. Failures are at most
`MaxFailures` in number; liveness is claimed from the last one on. `ChunkedQuery` assumes
the same of its queries. Nothing is assumed of the chain: mining may stop at any time,
also in the middle of a reorganisation, and `EventuallyServesHead` makes an exception for that.
`SnapshotScript` claims safety only: an operator may never run the script again.

## 4. Findings

Each is a run that TLC must find violated.

1. `lost_vesting` (`vesting-members.service.ts:54`). The cursor moves when the scan is in,
   although the cycle may still fail. The list of members to fetch again is in the failed
   call only, so when the next scan starts above the event, after more than ten blocks, the
   grant or revocation of a vesting of a *known* member is never read. `ldo-events.ts:32-36`
   says revocations are looked at "to make sure that vestings will be updated".
2. `dropped_vesting` (`vesting-members.service.ts:34`). The overlap is there "to avoid
   possible reorganizations", but it only finds new events. A vesting fetched for a block
   that is replaced stays in the cache if the member has no event on the new branch.
3. `stale_save` (`worker.service.ts:60`). `isNewBlock` "Checks if the block is newer than
   the cached one" (line 74) for cycles; a request left by a failed cycle saves when it
   resolves, after newer data.
4. `mixed_blocks` (`vesting-vestings.service.ts:49`). "Collecting data by blockHash ensures
   that all data is from the same block" (`ldo.service.ts:23`), but the vestings cache has
   no block: what a failed cycle fetched may be merged between the merge and the
   calculation of the next one.

3 and 4 need a request that is slower than its cycle and the start of the next; 1 needs
only an outage; 2 only a reorganisation.

A limit of `CurrentCycleHasBalances`, met while proving it: with both a reorganisation (or a
node that lags) and a burns scan that outlives its failed cycle, the property does not hold. A cycle
takes block 2 and fails while its burns scan goes on; the node falls back to block 1, which
the next cycle takes; a new block 2 with a burn is mined; the old scan, which asks by number
up to 2, adds the holder after the balances of block 1 were asked for, and the calculation of block
1 throws "Balance can't be null" (`vesting-calcs.service.ts:48`). That cycle fails, the next one
goes well. TLC shows it in seconds with the constants of `MCCircStrays.cfg`, but
`MaxReorgDepth` and `OverlappingReorgOffset` 1, and `OneInitSpec`. It is no run of its own.

## 5. What is proved

`tlapm` checks the modules `*Proofs` for every value of the constants.

**AddressScan** (`AddressScanProofs`; assumptions: overlap, chunk size at least 1,
reorganisations at most one block deeper than the overlap). Restarts are steps like others.

- `ChunksWithinRange`, `ChunksTile`: the chunks lie in the range, are not empty, and
  together hold each of its blocks.
- `TypeCorrect`, `CoverageCorrect`, `ScanCorrect`: `TypeOK`, `Coverage` and `ScanInv` are
  invariants, for any number of overlapping calls.

`Coverage` alone is not inductive: when a scan completes it says nothing of what the scan
found. `ScanInv` adds that what is final below the end of a running scan is collected, or
found by it, or in a query it still waits for. It needs that a scan starts low enough:
from its first block on everything is asked, and what is final below its first block is
final below the cursor (`Coverage`) or in the snapshot (`SnapshotCovers`). Reorganisations keep it
because they replace no block it speaks of (`NodeInv`, `CursorInv`). `IInv` is the
conjunction.

**Sums** (`SumTheorems`; a finite set). `SumFunction` of the community modules folds over a
recursive function that it chooses. That there is one, and what it computes, is shown without
induction over an operator: were it wrong somewhere there would be a smallest set where it is
(`MinimalSubset`, from the well-foundedness of strict inclusion), and one element less
contradicts that. From it follow that a sum of amounts is an amount, is monotone, is at most
the number of terms times their bound, and is the same over a part when the rest counts for nothing.

**VestingCalcs** (`VestingCalcsProofs`; a vesting has start <= cliff <= end, finitely many
members), for all amounts, times and numbers of vestings and members.

- `OneVestingBounds`, `OneVestingNeverIncreases`, `LinearAlways`: one vesting; the
  share of a running vesting is exact and rounded up.
- `GrantsBoundLocked` (`LockedWithinGrants`) and `LockedDecreases` (`LockedNeverIncreases`):
  the same of the sums, term by term with the theorems on sums.
- `BurnsSubtracted` (`BurnsAreSubtracted`): of a member who burned exactly the smaller of
  balance and not vested amount counts.

**ChunkedQuery** (`ChunkedQueryProofs`; a permit at least), for any calls, chunk counts and
concurrency. `TypeCorrect`, `PermitsCounted`, `NoPermitIdle`, `ResolvedComplete`,
`ClaimedOnce`, `FailureStopsQueries` are the run's safety properties, `QuerySetsRefined` is
the refinement of `QuerySet`. `QueryInv` adds to the properties what one call keeps
(`CallOK`): claims go up to `nextChunk`; a worker of a call that has not failed stops only
when nothing is left to claim; what is claimed is fetched or held by one worker. The lemmas
on permits (`StopPermits`, `NextPermits`, `StartPermits`) follow the permit from whoever
releases it to the first in the queue, and show that nobody else's chunk moves
(`OthersKeepOn`), so the steps of one call keep `CallOK` of the others. In the refinement
an answer is the last of its call exactly when no chunk is left to claim and no other
worker holds one.

**UpdateWorker** (`UpdateWorkerProofs`; `None` is no block and no data). `ReadyForEver`
(`LastBlockMeansAllSaved`), `LastBlockOrder` (`LastBlockNeverOlder`) and `TokensAgree`
(`ServedTokensAgree`), for any tokens and any number of overlapping cycles. `WorkerInv`
adds that requests belong to a cycle with a block, that the executing cycle's block is not
older than `lastBlock`, that what it saved is in the storage, of its block or saved over by a
request of a failed cycle (`SavedIsOfBlock`), and that only failed cycles leave requests behind.

**Serving** (`ServingProofs`). `ServingTypeCorrect`, `RoutedCorrect` (`RoutedIsServed`) and
`RecentCorrect` (`ServedIsRecent`), for any tokens, endpoints, requests in flight, cache life
and time of a cache write. It rests on
`WorkerInv` of the module above (a step of `Serving` is a step of the worker or leaves it
alone), on stored data staying stored, and on `EntriesAge`: what waits to be written was
stored no longer ago than it waits, and what is cached no longer than its age and one write.

**SnapshotScript** (`SnapshotScriptProofs`; at least one attempt, and the assumptions of
`AddressScan`). `VettedCorrect` and `GivesUpLate` are `VettedIsExact` and
`FewErrorsDoNotFail`; `DeploymentsRefine` is the refinement, and with it
`CoverageAcrossDeployments` carries `Coverage` over; `ScriptTypeCorrect` is the type invariant. `ScriptInv` is inductive with
`BuildInv`: of the blocks of a build, what is not found is in a request still waited for.
It stays so while the chain goes on because the guard made those blocks final, and the
events of final blocks do not change (`EventsUpTo` is constant below them). The last attempt of a
request has as many failures behind it as there were attempts (`AttemptsCounted`).

**CircSupply** (`CircSupplyProofs`; the overlap reaches as deep as reorganisations, finitely
many members, `None` is none of the other values). Any members, tokens, chunk sizes and
depths; unless said otherwise any failures and any number of overlapping calls.

- `ChainInvariance`: the followed branch is numbered by position, and final blocks stay.
- `ScansRefine` (`ScansAreScans`): each step of the composition is a step of
  `AddressScan`, or none, for the members scan and for the burns scan. Its chain steps
  need `ChainInv`, because the events by number are computed from blocks by hash.
- `ScansCover`: so `Coverage`, proved of `AddressScan`, holds of both scans here.
- `WorkerRefines`: each step is a step of `UpdateWorker`, or none, so what is proved of the
  worker holds here. It needs that a call that resolves has an amount (`CallDone`).
- `TypeCorrect` (`TypeOK`): from the invariants of the scans and of the worker, and `LdoTypes`.
- `CoversMembersCorrect` (`CalculatedCoversMembers`). The invariant `CallInv` follows one
  call: while its members scan runs, `ScanInv` says what is still to come; when it is in, the
  set has every final member up to the block of the call; whom the call fetches, plus whom
  the cache has, is everybody; and after the merge the cache is. That other calls
  interleave does no harm because sets and cache only grow, and that the chain goes on
  because what is final below the block of a call does not change any more.
- `BalancesPresent` (`CurrentCycleHasBalances`), without reorganisations or with one slot.
  With one slot nobody adds a burned holder while a call calculates. With more, a call that a
  failed cycle left may, but only a holder that burned up to the block of its call, which is
  no newer than that of the executing cycle: if the chain is not reorganised, that holder is
  in already when the balances are asked for (`BurnsKnown`, `NoNewBurns`, `FoundBurns`).
  `BalInv` is the conjunction. With both, reorganisations and leftovers, it does not hold (end of section 4).

The next theorems are about what is saved; they assume one slot (`OneSlot`: no call outlives
its cycle), as findings 3 and 4 are what happens otherwise.

- `TruthKept` (`SaveKeepsTruth`), whatever fails and however the chain is reorganised.
- `TrueUntilFailure` and `TrueUnlessDropped` (`TrueUnlessVestingDropped`): until a request
  fails, wrong data for a block of the chain needs a dropped vesting event.
- `FeedIsSafe`: without reorganisations, `FeedInit` and `[][FeedNext]` of `SupplyFeed`, that is
  `IsTrueFeed` but for its fairness; blocks never go back, and data is true until a request
  fails. Consequences are `NeverOlderWithoutStrays`, by which `ServedNeverOlder` holds
  there, and `TrueUndisturbed`, by which `SavedSupplyIsTrue` holds there until a request fails:
  each finding needs a request that fails or is left over, or a reorganisation.

They share one argument. `History` says what events say of amounts: without a vesting event a
member's vestings stay, without a burn the balance covers them, and whom neither snapshot nor
events name has none. Every step of the system leaves the chain up to some block and adds at
most one (`Cut`). `TrackInv` follows one call and a place of the chain whose vestings are
those of its block (`Fork`: its own place, or, when its block was dropped without dropping a
vesting, a lower one): where the members with events up to that place are, in the scan, in
the list to fetch, in the cache (`PhaseOK`), and that a cached amount which is not up to date is
what it was no earlier than where the scan began (`CacheOK`, until the first failure).
An amount of that age has either changed since, by an event the scan has seen, and was read
again, or it is right (`FollowedIsTrue`). So when the call resolves the cache is right, and
the sum over it is the sum over all (`SumIsTrue`): whom it leaves out has nothing, and who is
not yet known as burned has not burned. For `TruthKept` the premise takes the place of `CacheOK`.

**Only model-checked:** liveness (`CycleTerminates`, `EventuallyServesHead`,
`EveryCallDrains`) and the fairness part of `IsTrueFeed`, which are out of TLAPS's reach. The
findings are violations, found by TLC. All other properties of the runs are stated by a
theorem.

## 6. Plan

Done: the modules and runs above, and a theorem for each safety property of the runs. What
may still be proved:

1. The truth of what is saved with several slots, as long as no fetch of a failed cycle is
   merged between the merge and the calculation of the next (finding 4): a form of `TrackInv`
   in which the calls of other slots may move sets and cursors.
2. `FeedIsSafe` with reorganisations: a feed whose blocks may be dropped, and which is true
   of those that are not.

## 7. Running

    tlc -workers 2 -config MCCircReorgs.cfg MCCircSupply
    tlapm AddressScanProofs.tla

`PROJECT.json` names the module, configuration and properties of each run, the lines each
definition models, and for every property a mutant of the code that breaks it.

## 8. Not modelled

- **Which requests are throttled.** `throttler.guard.ts` maps the headers of a request to a
  key and keeps no state; the counting is in a library. `Serving` lets any request be refused.
- **Cache-Control.** The supply endpoints set a constant header, which `ServerErrorNoStoreFilter`
  replaces when the status is 500 or more: one test without state. Who obeys the header (a
  browser, a CDN) is outside the repository.
- **Bootstrap, configuration, provider.** `main.ts` awaits one call after the other and then
  listens; the validation of the environment is a pure function of strings. The provider, with
  its fallback urls and timeouts, is the environment of `EthChain`: any answer may fail,
  and a `Reorg` step is also a node that lags behind.
- **Metrics, logging, Sentry, Swagger, health.** Nothing reads back what they write, and
  health looks at the heap size only.
- **Formatting** (`formatUnits`, hex strings), the script's report of differences, and the
  time that goes by during a cycle.
- **Restart of the HTTP side.** A pod that starts anew has an empty storage, and is
  not routed to before its first probe is up: the initial state of `Serving`. Caches
  outside the process are not part of the repository.
