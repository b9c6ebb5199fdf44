# Specifications of the indexer, the contracts and the deploy tool

TLA+ modules about the parts of this repository that keep state over several steps: the
indexer (`indexer/`), which follows a Cosmos chain, stores its blocks and messages in
PostgreSQL and replays the escrow arithmetic and statistics of the Akash network; the contract
`Hexs` that holds tokenized models; the proxy between browsers and providers; the response cache
of the api; and of the deploy tool (`deploy-web/`) what runs over several awaits: deployments
with their manifests, tokenization, certificates, streams and downloads, and the SDL builder.

Paths below are relative to the repository's root unless they begin with a module's name.

## 1. The system

| Part | State it keeps | Operations | Talks to |
|-|-|-|-|
| **Block synchronisation** `indexer/src/chain/chainSync.ts` | the block and day tables; `missingBlock` in memory | one run every 7 s: download, insert, process, delete the cache | node pool, block cache, stats processor, scheduler |
| **Block cache** `chain/dataStore.ts` | `blocks.db`, `blockResults.db` (LevelDB, on disk) | put, get, highest key, delete | block synchronisation, stats processor |
| **Stats processor** `chain/statsProcessor.ts` | `isProcessed` flags; `cacheInitialized` in memory | processes unprocessed blocks in groups of 100, one database transaction each | the indexers (callbacks per message, transaction and block) |
| **Akash stats indexer** `indexers/akashStatsIndexer.ts`, `shared/utils/akashPaymentSettle.ts` | deployments, leases, bids; per-block statistics; totals and id caches in memory | one handler per message type; `afterEveryBlock`; `accountSettle` | stats processor |
| Validator and message addresses indexers | validators; address references | upserts per message | stats processor |
| **RPC node pool** `chain/nodeAccessor.ts`, `chain/nodeInfo.ts` | status, limits, running queries of each node; `nodeStatus.json` | query, rate limiting, retry timers | block synchronisation |
| **Scheduler** `scheduler.ts` (also in the api) | the running promise of each task | start when the interval elapses, skip when running | every task |
| **Provider status** `providers/providerStatusProvider.ts`, uptime tracker | provider rows, snapshots with "last of day" marks | checks each provider, backs off when it is down | provider APIs |
| **USD spending, price history** | prices per day, `aktPriceChanged`, spending in USD | two tasks that read and write the same day rows | the block table |
| Balance monitors, Keybase and IP lookups, database build | descriptive columns | overwrite rows | external services |
| **api: response cache** `api/src/caching/helpers.ts` | cached answers, pending requests | serve, refresh | routes |
| api: user settings, routes | user rows | single-row updates, read-only queries | database |
| **Provider proxy** `provider-proxy/main.ts` | one provider socket per client socket | open, replace, forward, close | browser, providers |
| **Streams and downloads** `deploy-web/.../DeploymentLeaseShell.tsx`, `DeploymentLogs.tsx`, `BackgroundTaskProvider.tsx` | selected stream, whether it is believed to be open or lost; the file so far | ask for a stream, send keys, reconnect, collect, save | provider proxy |
| **Contracts** `contracts/contracts/Hexs_BNB.sol`, `SDLNFT.sol` | models, members, offers; one NFT contract per model | create, fork, sell, buy, add a member, change the URI | web application |
| **Tokenization** `deploy-web/src/utils/evmContractInteraction.ts` | the model id a page works for | create, read the id, upload, store the URI | contract, file storage |
| **Certificates** `deploy-web/.../CertificateProviderContext.tsx`, `walletUtils.ts`, `ManifestEdit.tsx` | valid certificates, selection, local certificate; keys in localStorage | load, create, regenerate, revoke, deploy, switch wallets | chain, localStorage |
| **Deployments and manifests** `deploy-web/.../ManifestEdit.tsx`, `CreateLease.tsx`, `ManifestUpdate.tsx`, `pages/deployments/[dseq].tsx` | what the detail page has loaded; a manifest per wallet in localStorage | create, accept bids, cancel, update, close; send manifests to providers | chain, providers, localStorage, tokenization |
| **SDL builder** `deploy-web/src/utils/sdl/`, `deploymentData/v1beta3.ts`, `SimpleSdlBuilderForm.tsx` | services of the form, saved template | edit, generate, import, validate | api, deployment wizard |
| Other pages of `deploy-web/`, `landing/` | browser state | presentation and queries | api |
| `python-server/` | engagement scores | single-step handlers | web application |

### What is hard about it

* *Interleaving.* Downloads of a failed run stay in flight and write to the cache during
  later runs. Several tasks read rows, wait for the network, and save them.
* *Failure half-way.* A batch of blocks spans a transaction, in-memory arrays and a day row
  written outside the transaction; a group of blocks spans a transaction and in-memory totals
  that no rollback undoes. Errors are swallowed in one place and end the run in another.
* *Crashes.* The block to download again, the node statuses and every statistics cache live
  in memory; the block cache may or may not survive on disk.
* *Stale closures.* A page's operation goes on, after each await, with the wallet, selection
  and list of the moment it was started, while the user switches to another wallet and answers
  to older requests arrive.
* *Several transactions for one purpose.* A tokenization is two transactions, a read and an
  upload; every other user's transactions may come between them.
* *Events of replaced things.* A socket that was terminated still delivers its output and its
  close to the client that has already asked for another one.
* *Numbers.* First heights, group ends and batch ends; the floor and ceiling in the escrow
  arithmetic; predictions that must agree with the settlement that happens later.

### What makes each part correct

* Block synchronisation: no height is skipped, blocks are processed once and in order, the
  cache is deleted only when it is not needed, day rows agree with the blocks, everything
  the chain holds is indexed in the end.
* Escrow: no token appears or vanishes; leases are paid for the blocks they lived; a
  deployment closes with its last lease; the predicted close height is when money runs out.
* Statistics: what comes from the caches is what a query would give; totals accumulate over
  groups, retries and restarts; a committed block never changes.
* Node pool: a node that is not used is tried again; the bound on parallel queries holds.
* Provider status: one "last of day" mark per provider and day, on the right snapshot.
* USD spending: every price change reaches the totals.
* Contracts and tokenization: a model's file is the one made for it, opens with its own NFT,
  and only its creator replaces it; forks know the root they come from.
* Certificates: a wallet deploys with, and the browser stores for it, its own certificate
  only; the key of a valid one is not thrown away.
* Proxy and its clients: no socket to a provider is left behind; keys reach the shell they were
  typed for; a lost shell is shown as lost; a saved file is whole.
* SDL builder: a template comes back as it was saved, and a generated document is accepted.
* Deployments: a provider is sent only what the chain knows; the stored manifest and the page
  agree with the chain; no provider keeps an old manifest behind the user's back.
* Response cache: one refresh at a time; no answer older than one given before; every request
  is answered.

## 2. The modules

| Module | What it is |
|-|-|
| `IndexLog` | Abstract: a table of blocks that only grows at its top and is processed from the bottom. |
| `ChainSync` | The "Sync Blocks" task with block cache, downloads, day rows, processing, failures and restarts. |
| `ChainSyncProofs` | Its inductive invariant, and the proofs, including that it implements `IndexLog`. |
| `EscrowMeter` | Abstract: an escrow account as a meter, without settlements and balances. |
| `AkashEscrow` | One deployment's escrow account under every message that concerns it; implements `EscrowMeter`. |
| `AkashStats` | Statistics per block, computed from caches while groups commit, fail and restart. |
| `AkashStatsProofs` | Its inductive invariant and the proofs of all its properties. |
| `NodePool` | The RPC nodes: statuses, limits, timers, status requests, queries and the saved file. |
| `NodePoolProofs` | Proofs of its types, that a node out of use is looked at again, and of the limit of parallel requests. |
| `ProviderStatus` | The checks of one provider, its snapshots and their marks. |
| `UsdSpending` | The spending in USD: two tasks that read and save the same day rows. |
| `IndexerProofs` | Inductive invariants of `ProviderStatus`, `AkashEscrow` and `UsdSpending`, and the proofs of their safety properties and that `AkashEscrow` implements `EscrowMeter`. |
| `Hexs` | The contract with its NFT contracts: one operator per operation with what it requires. |
| `Tokenize` | Users at work on `Hexs`, with the multi-step tokenization of the web application. |
| `Certificates` | The certificates of the browser's wallets: chain, storage, page, operations. |
| `WalletProofs` | Inductive invariants of `Certificates` and `Tokenize`, and the proofs of all their properties. |
| `ProviderProxy` | Client connections and sockets to providers, with messages on their way. |
| `ProxyClients` | Shell page, log page and downloads as clients of `ProviderProxy` (EXTENDS it). |
| `SdlBuilder` | The builder's form with `generateSdl`, `importSimpleSdl` and `validate`. |
| `ApiCache` | The api's response cache for one key: requests, refreshes and their handlers. |
| `ServiceProofs` | Inductive invariants of `ApiCache`, and of `ProviderProxy` with `ProxyClients`, and the proofs of their safety properties. |
| `Deployments` | One deployment between chain, providers, localStorage and the pages that work on it. |
| `DeploymentsProofs` | Its inductive invariant and the proofs of all its invariants; those of `SdlBuilder`, whose documents are deployed. |
| `SumTheorems` | Facts about sums over finite sets, used by `NodePoolProofs`, `IndexerProofs` and `DeploymentsProofs`. |
| `MC*` | Values of the constants for TLC. |

Modules whose theorems share a proof module name their parts apart: `EscrowInit`, `EscrowNext`,
`EscrowSpec` and `EscrowTypeOK` of `AkashEscrow`, `Sdl...` of `SdlBuilder`, `Usd...` of `UsdSpending`, `Cert...` of
`Certificates`, `Clients...` of `ProxyClients`.

### ChainSync

A run of `syncBlocks` is the control state `pc`: `"download"` while `downloadBlocks` runs,
`"insert"` at the head of `insertBlocks`' loop, `"openDay"`, `"closeDay"` and `"push"` inside
it, `"process"` at the head of `processMessages`' loop, and the two deletions of the cache.
The scheduler starts no second run while one is pending (`scheduler.ts:83`), so one control
state is enough; what does run in parallel are the downloads, `fetches`, each with the await
it has reached. When one fails the run ends and the others become orphans.

| Variable | Code |
|-|-|
| `blocks`, `processed`, `days` | tables `block` (heights, `isProcessed`) and `day` |
| `cache`, `results` | keys of `blocks.db` and `blockResults.db` |
| `missing` | `missingBlock` |
| `fetches` | pending `downloadBlock` calls; `known` is `wasInCache` |
| `cursor`, `end`, `from`, `last` | the loop's height, `latestBlockToDownload`, the first block of `blocksToAdd`, `lastInsertedBlock` |
| `savedYet` | what Sequelize holds as the saved `lastBlockHeightYet` of `lastInsertedBlock.day` |
| `head`, `keepCache` | the chain's height, `env.KeepCache` |
| `faults`, `lost` | bound on failures; history of dropped batches |

Each action runs from one await to the next. The highest height a run sees, `avail`, is any
height up to `head`: nodes may lag, and a run uses the best answer it got. `Crash` loses
everything in memory and, when the data folder is not persistent, the cache. A failed
`bulkCreate` (`BatchCreateFails`), a failed save of the day row (`BatchSaveFails`) and a failed
COMMIT (`BatchCommitFails`) are separate actions: `blocksToAdd` is emptied after the first, and
after the last the `Day` object takes the rolled back `lastBlockHeightYet` for saved. `save()`
writes changed columns only (`SaveYet`), so a day that is closed at that very height gets its
`lastBlockHeight` and keeps its old `lastBlockHeightYet`.

Left out: the `RebuildAll` mode's index handling, `lastBlockToSync` (the chain's end stands
for it), the contents of blocks except whether they hold transactions, and what indexers do
with them.

### AkashEscrow

The chain says only that a message was executed; the indexer replays the settlement. One
action per message handler, of all message versions, for one deployment with its leases;
`NextBlock` moves the height. `SettledDeployment` and `SettledLeases` are `accountSettle`:
the rows after full blocks are paid and, when money is short, the rest is shared by weight
and everything is closed.

Assumed of the chain: messages are those it accepted (the stats processor skips messages of
failed transactions), it settles with the same arithmetic, and it refuses leases, deposits
and bids on a closed deployment. Prices are whole numbers; amounts are kept in units of
`1/Unit` of a token so that weighted shares are whole (`UnitAssumption`), which stands for
the database's doubles without their rounding. `halted` is the state after
`handleCloseLease` computed a fraction for a BIGINT column: the database refuses the row,
the group is rolled back, and the next run meets the same message again.

### AkashStats

The stats processor's loop over blocks and groups, with the caches the Akash indexer
keeps in memory: the leases behind `totalResources`, `predictedClosedHeights`,
`totalLeaseCount` and `activeProviderCount`. What a chain's messages do to the lease and
provider tables is a constant of a behaviour (`chain`, chosen at the start), because a block that is processed again after a
rollback has the same messages. The lease table after block *h* is therefore a function of
*h*, and the rollback of a transaction is the return to an earlier *h*, while the caches stay.
Every lease costs one token per block. `since` records how far the tables had got when the
process read its counters: a provider deleted before is in `Provider.count()`.

### NodePool

One action per callback of `NodeInfo` and `NodeAccessor`: a timer fires, a status request
ends, a query starts or ends with each of its outcomes, the file is loaded and saved. The
variables are those of `NodeInfo` (`status`, `limit` for `maxConcurrentQuery`, `delay`,
`earliest`, `age` for `lastErrorDate`, `active`), what the process has pending (`timers`,
`checks`, `running`, `saving`) and the file. `active` and `running` differ: `query` removes
every entry with its path when it ends (line 195).

Time is counted in minutes, which divide all waiting periods. A timeout of *k* minutes ends
*k* ticks later, in any order with the rest of that minute. Of two events *k* ticks apart it
is open whether *k* minutes lie between them, so the test of line 126 goes either way when
the last error was one tick ago. A tick waits for due timers and for requests, which time
out after 60 seconds (line 9).

There is one path per height: the requests for a block and for its results are bounded
alike. `writeFile` is one step. A node missing from an existing file keeps the status
`UNKNOWN`, without a timer or a check, until the process restarts (`unlisted`).

### ProviderStatus

A run of `syncProvidersInfo` as one provider sees it: `check` holds the row as the run read
it. When the status of another provider cannot be saved, `eachLimit` rejects, the task ends
and the next run may begin, while checks of up to nine providers go on; they become
`orphans` and save with the row they hold. `SaveStatus` is the transaction of
`saveProviderStatus`; `stale` records that one was saved with an outdated row. The back-off
table and the length of a day are constants.

### UsdSpending

`tracker` is the run of `updateUsdSpending`, one action per query; `sync` that of
`syncPriceHistory`, which saves its rows in any order. Both keep rows in memory, and saving
a row writes the columns that changed in memory only. `InsertBlock` and `ProcessBlock` are
the block synchronisation, as far as these tasks see it. Every block spends one token, so
the sum a block should show follows from the prices of the days up to it. `DayOf` gives each
block its day; days do not decrease with heights (`ChainAssumption`), as block times do not.
`lost` records the days whose change of price no later run can see.

### Hexs and Tokenize

A transaction is atomic: `Can<Op>` collects what an operation and the contracts it calls
require, `<Op>` is its effect, and a transaction that reverts changes nothing. A URI is a pair
of models, the one whose NFT opens the encrypted file (`gate`, from `applyAccessConditions`)
and the one the file was made for (`of`). `flow[u]` is the tokenization of user *u* between
its awaits; every action of another user may come in between.

The code has some behaviour a reader would not expect, and the model has it too:
`updateSDLURI(_modelId)` checks a token of `_modelId` and writes to `idToModel[modelId]`, the
newest model (`Hexs_BNB.sol:154`), whose NFT takes over the URI the model had until then (156);
`buyModel` ends with `safeTransferFrom` to Hexs, which has no `onERC721Received`, so that it
always reverts; `addMemberToDao` pushes the sender, not the new member (164); the base and the
counter are `uint8`.

A token may be minted or transferred to any address, that of Hexs included (`Self` in
`AddMember` and `Give`): ERC721 does not ask whose it is. Hexs transfers no token, so it keeps it,
and `SDLNFT.onlyModelOwner` (`SDLNFT.sol:26`), which sees Hexs as the sender of every call of
`updateSDLURI`, then accepts anyone.

Assumed: a user tokenizes one model at a time, forks existing models, and works through the
pages: `mintNFT`, `updateSDLURI` outside a tokenization, other contracts as senders and receivers
that are neither users nor Hexs are left out. The ABI in the web application is of a version of
the contract whose `createModel`
takes no `_to`; the model passes the sender. Left out: `callAPI` and `fallbackRequest`, which
use a variable that is declared nowhere, reviews, visibility, royalties, the price feed and the
bridge between chains, and the engagement server, whose refusals the flow ignores.

### Certificates

`op` is the operation under way with what its closure captured (`by`, `localCert`,
`selection`, `matching`); its awaits are the states `"list"`, `"tx"` and `"reload"`, and
`SwitchWallet`, `Refresh` and the answers `Loaded` interleave with it. An effect runs in the
step that changes what it depends on (`Show`). When the address changes, the effect of
`CertificateProvider` runs before that of the `WalletProvider` around it, so `loadLocalCert`
reads the storage before the new wallet is marked as selected there (`LocalCertAfterSwitch`):
the local certificate is then the one of the wallet before. An answer is the list at the time
of the request or at that of the answer. `TxUnconfirmed` is a transaction that was committed
and is reported as failed.

Assumed: the page runs one operation at a time, and a wallet's certificates change on the chain
through this page only; otherwise a certificate could be revoked elsewhere between the list and
the deployment that relies on it.

### ProviderProxy and ProxyClients

Messages between client and proxy are queues, lost when a connection is cut. A message for the
current socket's url is sent on it, any other terminates it and opens a new one; what a
terminated socket had received and its close still reach the client. A behaviour has one client
of one `kind`, because the proxy keeps nothing in common between clients. A shell or log page
reconnects (`ConnectionLost`); a download does not. Output is counted, not named: a page cannot
tell which socket a message comes from, and neither can the model's. A frame is what its readers
take it for, whether its text reads as JSON with an `exit_code` (`result`, or `failure` with an
error message) or not (`output`). Neither its channel nor the value of the code is read by any
page, so a command that fails without a message gives the same `result` as one that succeeds,
standard error is output like any other, and so is a `result` what a file contains that reads as
one (`SocketMimics`, once per socket). `plain` remembers for the property which of this happened.
For a page, `Brief` lets that happen on a shell's first socket only, where it changes nothing.

Assumed of the `ws` library: a terminated socket emits what it had received and its close
before another socket of the client finishes its handshake over the network.

### SdlBuilder

`GenerateSdl` folds the services into one document (`services`, the placements, `endpoints`,
`deployment`), as the code does; `ImportSimpleSdl` reads a document again; `Validate` is what
`v1beta3.ts` checks that a generated document can fail. A text is what the conversions see of
it: an environment value is the parts between its `=` signs, a size the tenths of its unit. What
the conversions trim or collapse inside a text is not seen (section 4).
What the conversions copy one to one is left out, as are the region parameter (only the rental
form passes it), the sum of a template's resources, the reset of the form on leaving it, and
what the SDK's own `SDL.validate` rejects besides. `importSimpleSdl` sorts the titles as texts
and the model (`InOrder`) sorts their numbers, which is the same below ten; the proofs use no more
of the order than that it depends on the titles alone.

### ApiCache

`cacheResponse` for one key, since keys share nothing. `Call` is its synchronous part: it finds
something or not, begins a refresh unless one is pending, and answers with what it found or
waits. A refresh's handlers are `Store` (then) or `Fail` (catch) and `Finally`; `Resume` is a
request that awaited it. Data is the second in which the service produced it, and it may be on its
way for seconds. Handlers and awakened requests run before time passes (the guard of `Tick`):
they are microtasks. Without `keepData` the memory cache forgets an entry when its lifetime
ends, one second before the code takes it for expired. A restart empties the cache and is a
new behaviour.

### Deployments

`ops` holds the operations under way, at most one of each kind; an operation goes on when its
page is left, and keeps the version and providers the page had when it was started. The chain
has the manifest's version, named by the manifest it stands for, and the leases; `runs` is
what each provider was last sent. A transaction commits and returns in two steps, between which
anything may happen; `TxUnconfirmed` is one that is committed and reported as failed. `Send`
waits for a provider, which may refuse, or take the manifest and lose its answer (`SendFails`).
`loaded` is what react-query keeps of deployment and leases, also between two visits of the
page. `deploymentQuery` and `leaseQuery` are its requests: asked for, read by the node
(`ReadDeployment`: the answer shows the chain at that moment), and loaded later. A request asked
for twice is one request (`Asked`); it goes on when the page is left or the wallet switched. The
wizard asks for the deployment too, the refresh button (`Refresh`) and every mount of a page. An
operation asks when it ends (`Reload`) through the function its page had when it was started:
that does nothing if the page was loading then (`skipped`), and asks for the other wallet's
deployment if the page was shown for that one meanwhile (`elsewhere`). `LoadFails` is a request
whose repetitions fail too. Three histories serve the properties: `mishaps` (a transaction in
doubt, a closed tab, a switch of wallets in the middle, an operation on outdated data or beside
another), `outdated` (the last load failed, or an operation that may have changed the deployment
ended without a request the node had yet to answer) and `told` (a send failed since the last
update, and the user was told).

Assumed: providers take any manifest of a deployment they have a lease of, a group is leased at
most once, and a button that shows its operation's progress is not pressed again. Left out:
bids and their selection (the choice that is accepted stands for them), certificates (see
`Certificates`), deposits and names, the waits of `sendManifestToProvider`, and the button that
sends a manifest again (see section 4: it is never shown). Other tabs are left out: they share
the localStorage, and their operations would be unknown to this tab's page. So are the requests
react-query repeats on its own when the network comes back, and that it forgets data no page has
shown for five minutes; both only replace data by newer or none.

### Abstract specifications

`ChainSync` implements `IndexLog` with `rows <- blocks`, `done <- processed`: a reader of the
table sees it grow at the top only and be processed from the bottom only. It is a property
of run `chain_sync` and theorem `Refinement`.

`AkashEscrow` implements `EscrowMeter`, in which an account is what was deposited, when it was
opened and closed, and a lease when it began and ended. The meter keeps no balance: it computes
what all leases have cost until now, and the account ends with its leases at the first message
that needs the money once the deposits do not cover that. The code settles in steps, with full
blocks, a rest by weight and a balance that is carried over; the refinement says that none of this
can be told from the dates of leases and deployments (the tables the web application reads). The
mapping takes the dates and the sum of the deposits from the rows. It is a property of run
`akash_escrow` and theorem `EscrowImplementsMeter`. That a closed deployment has no active lease
and one whose leases have all ended is closed is part of what the meter does.

## 3. The runs

| Run | Shows | Bounds |
|-|-|-|
| `chain_sync` | the safety properties of `ChainSync`, the refinement, and that everything is indexed in the end | 5 blocks over 2 days, downloads in groups of up to 4 blocks, 2 in parallel, batches of 2, groups of 2, 2 failures |
| `akash_escrow` | payment with conservation, closing, prediction, the refinement | 2 leases with different prices, 6 blocks, any number of messages per block, deposits up to 17 tokens |
| `akash_stats` | caches and counters against the tables, accumulation, processed once | 2 leases, one of them with every script, 1 provider with every life, 5 blocks, groups of 3 that overlap, 2 failures or restarts |
| `node_pool` | nodes out of use are looked at again and come back; the bound on parallel queries | 1 node, 3 blocks, limit 2, 1 step of delay, 3 errors or restarts |
| `provider_status` | marks, provider row and back-off follow the snapshots | days of 4 units, 8 units of time, a back-off of two steps and a longest wait, 2 failed runs or restarts |
| `usd_spending` | totals follow the prices; nothing is left to do in the end | 2 days with 2 blocks and 1, 2 prices, 2 price syncs, 1 run cut short |
| `tokenize` | stored files, who changes them, roots of forks | 2 users, 3 models, members' tokens and offers bounded (see `Tokenize.cfg`) |
| `certificates` | deployments and storage use a wallet's own certificate; how keys of valid ones are lost | 2 wallets, 3 certificates, 2 background requests, 1 failure |
| `proxy_clients` | no orphans, keys, shown losses, whole files | 2 leases with 2 services, 2 connections, 3 sockets, files of 2 frames (1 on a page), 2 selections, 1 key or ping |
| `sdl_builder` | services come back; documents are accepted | 3 services, titles up to 3, 2 edits between any additions, removals, saves and loads |
| `api_cache` | one refresh at a time, order of answers, everyone is answered | 3 requests at a time, 2 seconds of life, 6 seconds, 4 refreshes |
| `deployments` | sent, stored, shown and running manifests against the chain's | 2 manifests, 2 providers, 2 groups, 3 operations, 1 failure |

Why these bounds are enough to be interesting: five blocks are two full batches and a rest,
three processing groups that share their ends, and a change of day inside and between
batches; a download group shorter than the chain makes runs end before the top; two failures
let a run fail, leave orphans, and fail again with them still running, or crash between two
failures. Two leases make the rate change under an open account, and the deposits reach
both an account that never runs dry and one that does between two messages.
Nodes do not affect one another, so one is enough; three errors let a rate limit, a missing
block and an unreachable node overlap, or two of them and a restart. Two failed runs give
two orphans, or an orphan next to a new check, with a change of day between them. Two price
syncs are the change that is lost between the tasks, and one after it.
Two users and three models let a second user's model become the newest between any two steps
of a tokenization, and a fork of a fork exist beside an unrelated model. Two wallets are the one an operation was
started for and the one the user has switched to; three certificates are a stored one, another
that is selected, and a new one that replaces the first. Three sockets are a replaced one, its successor and one after a
reconnection; files of two frames can be cut in the middle. Two services meet in one placement,
endpoint or title after one edit each; a third stays as it was beside them. Three requests are one
that refreshes, one that waits and one that comes between the handlers; four refreshes let one
fail, one be late and others follow it. Three operations are a creation and two more, a lease
and an update, two updates or an update and a closing, that overlap or follow one another, with a
failure in any of them and answers of the node that they overtake; two groups may go to one
provider or to two, and the second may be left without a lease. The theorems of `DeploymentsProofs`
say the same for any number of operations and failures.
`MaxHead`, `MaxHeight`, `MaxBlocks`, `MaxDeposit`, `MaxTime`, `MaxSyncs`, `MaxCuts`, `MaxMembers`, `MaxOffers`,
`MaxCerts`, `MaxLoads`, `MaxConns`, `MaxSockets`, `MaxOutput`, `MaxShown`, `MaxSelections`,
`MaxSent`, `MaxServices`, `MaxTitle`, `MaxEdits`, `MaxRefreshes`, `MaxStarts` and `MaxFaults` bound counters in guards.
`MaxModelId` is the limit of the code's `uint8`, set to 3 here.
`CHECK_DEADLOCK FALSE` is set because the models stop at these bounds.

### Properties

`ChainSync`: `GapsAreLostBatches` (a height is missing only if its batch was dropped),
`ProcessedIsPrefix` (nothing unprocessed is left below a processed block),
`CachedBlocksHaveResults` (a cached block has its results, unless a
deletion raced with a late download), `DayRowsMatchBlocks` (first and last heights of days,
although written outside the transaction; a closed day whose last block was dropped may keep an
earlier `lastBlockHeightYet`, which the run's day of three blocks with batches of two reaches),
`ImplementsLog`, and `CatchesUp` under fairness.

`AkashEscrow`: `PaidForLifetime` (leases are paid for the blocks they lived, and no token
appears or vanishes: its conjunct `Conserved`), `ClosedWithLastLease`, and the action property
`OverdraftIsPredicted` (a settlement overdraws an account only at or after the predicted
height, and always after it; unless a prediction of `handleCloseLease` is in force, the
prediction is when the money runs out), and `ImplementsMeter` (accounts and leases end when the
price of what ran exceeds the deposits, however often and in whatever order they were settled).

`AkashStats`: `CountsFollowTables` (cached counts are what queries would give, but for what a
rollback left behind and for providers deleted before the process started),
`SpentAccumulates`, `ProcessedOnce`.

`NodePool`: `UnavailableIsLookedAt` (a node out of use has a timer or a status request
running), `ConcurrencyIsLimited` (while no block is asked for twice at a time), `NodesRecover`
under fairness.

`ProviderStatus`: `DayMarksFollowSnapshots` (the last snapshot of a day is marked, always; it
is the only one, and the last success is marked, as long as no check was saved that worked on
an outdated row) and, under the same condition, `RowFollowsSnapshots` (the row's downtime,
failures and next check follow from the snapshots). The exception is needed: an orphan and the
check of the next run both unmark the snapshot they read, and leave two marked snapshots.

`UsdSpending`: `TotalsFollowPrices` (when no task has anything left to do, each total follows
from the prices, except after a lost change), `UsdSettles` under fairness. The exception is
needed here too, for three reasons: `SaveDay` clears a flag that was set after the row was
read; `SavePrice` does not set one that was there when the row was read; and a run that is
cut short has changed the total that the next days start from.

`Tokenize`: `BaseIsRoot`, `StoredFileIsItsOwn` (the file stored for a model that is no fork was
made for it and opens with its own NFT) and the action property `OnlyTheCreatorUpdates`. Both
hold although the id is read too late and the update goes to the newest model, because the
newest model's NFT contract refuses a transaction of anyone but its creator; both except a model
of which Hexs itself was handed a token, whose NFT accepts everyone. The run reaches that case:
without the exception either property is violated.

`Certificates`: `DeploysWithOwnCert`, `StoredCertIsOwn`, and the action property
`ValidKeysAreKept`: whenever the stored key of a certificate that stays valid is emptied or
overwritten, it is one of the cases `KeyGivenUp` names: the page showed another wallet's local
certificate when the operation was started; a certificate was asked for, or needed by a
deployment, on a page on which the local one did not match (another was selected, or the list
lacked it); the list a deployment or a revocation asked for could not be loaded; all certificates
of a list that lacked it were revoked. Each case occurs in the run, which violates the property
when any one of them is left out.

`ProxyClients`: `NoOrphanSockets`, `KeysReachTheirShell` (also: a shell opened by a key, without
the certificate, is possible only after a reconnection), `LossIsShown` (when all messages have
arrived), `SavedFileIsWhole` (except what the code takes for a file: the output of a command that
failed without a message, its standard error, a file cut at a frame that reads as an exit code).

`SdlBuilder`: `ServicesComeBack` with its list of losses, and `AcceptedUnlessIpsClash`.

`ApiCache`: `OneRefreshAtATime`, `AnswersNeverGoBack` and, under fairness,
`RequestsAreAnswered`.

`Deployments`: `SentWasDeployed` (a provider runs only manifests whose version the chain has had,
whatever fails, overlaps or is done with another wallet), `PageIsCurrent` (the page at rest shows the chain's version and state although answers
may have been read before an operation changed them, except after a failed load and after an operation
that ended without asking anew: see section 4), `StoredIsDeployed` and `OldManifestIsExplained` (at rest, if
nothing went wrong, the stored manifest is the deployed one, and a provider with a lease runs it
or none unless a send has failed visibly).

The type invariants of all models are theorems (section 5; `SdlBuilder`'s is the lemma
`SdlTypeCorrect`); `UsdSpending`'s (`UsdTypeOK`: totals by price and blocks) is checked by its run too. One more
invariant is a theorem only: `CacheDeletedWhenDone` of `ChainSync` (the cache is deleted only
when every row is processed).

### Fairness

`FairSpec` of `ChainSync` assumes that the scheduler starts a run again and again and that, again and again,
the nodes report the chain's true height (strong fairness of `StartSync(head)`: a run is only
enabled between runs, every 7 seconds); that every await settles (requests have a timeout of
60 seconds, `nodeInfo.ts:9`), hence weak fairness of the downloads and of the insert and
process phases; and that the chain grows up to `MaxHead`. Failures are finitely many. No
failure and no lagging answer is fair.

`CatchesUp` excepts the hole under the head: when the cache's highest block is the chain's
highest, `syncBlocks` downloads nothing (line 84) even if a lower block is missing. On a
chain that goes on growing, the next block reopens the download.

`FairSpec` of `NodePool` assumes that the process is started when it is down, that requests
end (they time out after 60 seconds), that due timers fire and that time passes. `UsdFairSpec` of
`UsdSpending` assumes that the scheduler starts the tracker every minute and that the queries
of both tasks end. `FairSpec` of `ApiCache` assumes that a refresh ends, by an answer or an error,
and that handlers run. No failure is fair in the other models.

## 4. Where code and documents disagree

Met while modelling; where a property is concerned, it names the case as its exception:

* `totalLeaseCount` is incremented in memory (`akashStatsIndexer.ts:560`) and stays so when the
  group is rolled back; the retried block counts its leases again, although `README.md:145`
  documents a "cummulative lease count as of this block". `CountsFollowTables` only asks that it
  is not too low once a group has been rolled back.
* `handleRateLimiting` starts the timer only when the last error is more than a minute old
  (`nodeInfo.ts:126`); a node that is rate-limited sooner may have nothing that will ever look at
  it, against "their status is then kept updated" (`indexer/README.md:58`).
  `UnavailableIsLookedAt` and `NodesRecover` leave the status `RATE_LIMIT` out.
* An update is sent without a transaction when its version equals the one the page loaded
  (`ManifestUpdate.tsx:142`); after an update that was committed but could not be sent, the page
  is not loaded again, so going back to the manifest of before changes what the providers run
  and what the browser stores, and not the chain, against the comment in line 141. An operation
  on such a page is the mishap `stale`, which `StoredIsDeployed` and `OldManifestIsExplained`
  except.
* The page an operation ends on may stay outdated although nothing failed: `loadDeploymentDetail`
  does nothing if the page was loading when the operation was started (`[dseq].tsx:127`), react-query
  joins its request to one in flight, which the node may have answered before the transaction,
  and after a switch of wallets it asks for the other wallet's deployment. `PageIsCurrent` excepts
  these until the page is loaded again.
* The manifest is stored under the wallet that is selected when the transaction returns
  (`deploymentLocalDataUtils.ts:38`), and `owner` names the one that signed it (line 31).
* The mark `isLastSuccessOfDay` is lost when a failure follows the last success on the same
  day, and when a failure and a success follow on the next day (`providerStatusProvider.ts`,
  lines 110-132); `indexer/UPGRADE.md:61` says that it is set for the successful snapshots
  that are the last of each day. `DayMarksFollowSnapshots` therefore ends at the first failure.
* Two snapshots of a day may be marked `isLastOfDay` (`README.md:374`) after a failed run.
* A change of price may never reach the totals in USD (`usdSpendingTracker.ts:76`,
  `priceHistoryProvider.ts:38`).
* `blocksToAdd` is emptied before the day row is saved (`chainSync.ts:286-293`); if that save or
  the commit fails, the error is logged only, and the loop inserts the following batch above the
  gap. Later runs continue from the highest row, although the indexer's README promises that
  missing blocks are downloaded and inserted (`indexer/README.md:58,64`). `GapsAreLostBatches`
  says that there are no other gaps. When it is the commit that failed, and the dropped batch
  ended the day, closing the day does not write `lastBlockHeightYet` either (`chainSync.ts:265`),
  and the row's two last heights differ for good: the exception in `DayRowsMatchBlocks`.
* `handleCloseLease` (`akashStatsIndexer.ts:600`) writes a number of blocks, possibly a fraction,
  into `predictedClosedHeight`, documented as a height (`README.md:283`); `handleCloseBid` (709)
  computes it with the height and rounded up. `OverdraftIsPredicted` leaves that prediction out.
* `activeProviderCount` counts the providers that were deleted before the indexer was started
  (`akashStatsIndexer.ts:172`), documented as the provider count as of the block
  (`README.md:150`).
* `updateSDLURI` writes to the newest model instead of `_modelId`; `buyModel` cannot succeed;
  the list of members gets the sender (see section 2).
* `SDLNFT.onlyModelOwner` asks for a token of `msg.sender`, which is Hexs for every update; once
  Hexs has been handed a token of a model, its NFT accepts the update of anyone, a stranger's
  tokenization that read the model's id too late included. `StoredFileIsItsOwn` and
  `OnlyTheCreatorUpdates` except such a model.
* A deployment or "Create" overwrites the stored key of a certificate that is still valid when
  another one is selected or the list on the page lacks it (`ManifestEdit.tsx:173`,
  `CertificateProviderContext.tsx:186`); a deployment also when its list cannot be loaded (the
  error is answered by an empty list, line 110). These are cases of `KeyGivenUp`.
* After a switch of wallets the page shows the local certificate of the wallet before.
* After a reconnection a shell page does not ask for its shell again, and the next key opens one
  without the certificate (`DeploymentLeaseShell.tsx:83`). A message of the old stream that
  arrives while the status of a newly selected lease is loading makes the page believe that it
  is connected to the new one, so it never asks for it. A closed provider socket stays the
  client's current one: keys are dropped, and asking for the same url again throws
  (`main.ts:171`).
* A file is saved on any `exit_code` without an error message, whatever its value, if anything
  came before it (`BackgroundTaskProvider.tsx:174`): a `cat` that fails midway leaves a truncated
  file, one that finds no file leaves its error text under the file's name, since standard error
  is collected with the rest (186), and a file with a frame that reads as JSON with an
  `exit_code` is cut there. These are the exceptions of `SavedFileIsWhole`.
* `downloadLogs` saves what has arrived after three seconds without a line, nothing included;
  its timer is not cleared by a cancellation (`BackgroundTaskProvider.tsx:116`).
* The SDL builder gives two services one title when one is added after another was removed
  (`SimpleSdlBuilderForm.tsx:116`), and the later one silently replaces the earlier in the
  document. Values are cut at a second `=`, and names at their first (`sdlImport.ts:59`), sizes at
  the decimal point (138); blanks around a command, an argument and the names and values of the
  environment are trimmed, and those inside a command collapsed (`sdlGenerator.ts:60-68`);
  `allOf` is lost without `anyOf`, which is tested twice (`sdlGenerator.ts:161`); the endpoints
  of a service replace those of the services before it (188), and such a document is rejected;
  a service in a shared placement overwrites its signers and attributes; an argument without a
  command and an unnamed GPU beside a named one are lost; the check for port collisions never
  fails (`v1beta3.ts:96`).

* A lease whose manifest was never sent cannot be sent it from its row: `LeaseRow.tsx:143` asks
  the error of a request for `includes`, which an axios error does not have, so the warning
  and its button are never shown. For the same reason `sendManifestToProvider` never tries again
  for a provider that does not know the lease yet (`deploymentUtils.ts:34`).
* The wizard goes on to the deployment when the tokenization has failed, without having sent the
  manifest, and logs the error only (`CreateLease.tsx:230-242`); `told` stays false, and
  `OldManifestIsExplained` allows providers without a manifest for this reason.
* Providers of closed leases are sent updates (`ManifestUpdate.tsx:158`); the first refusal ends
  the loop.

## 5. The proofs

`ChainSyncProofs` proves, for every value of the constants allowed by `ConstantsAssumption`:

| Theorem | Statement |
|-|-|
| `Invariance` | `Spec => []IInv` |
| `TypeCorrect` | `Spec => []TypeOK` |
| `ProcessingIsPrefix` | `Spec => []ProcessedIsPrefix` |
| `CacheClearedLast` | `Spec => []CacheDeletedWhenDone` |
| `OnlyLostBatchesLeaveGaps` | `Spec => []GapsAreLostBatches` |
| `Refinement` | `Spec => ImplementsLog` |
| `CachedBlocksAreComplete` | `Spec => []CachedBlocksHaveResults` |
| `DayRowsAgree` | `Spec => []DayRowsMatchBlocks` |

None of these properties is inductive alone. That processing is in order depends on where a
run's `cursor` stands in each phase: while inserting, that the batch `from..cursor-1` lies
above every row and that all heights between the table's top and `from` were dropped; while
processing, that no unprocessed row lies below `cursor`. `IInv` adds those facts about `pc`,
`cursor`, `from`, `end` and `last` to the type invariant and the properties. Its proof goes
through one lemma per kind of step: steps that change neither the tables nor the run
(`QuietStep`), the end of a run (`EndRunStep`), entering the insertion (`EnterInsertStep`)
and the rest (`RestStep`). The refinement needs `IInv` in both states of `CommitBatch` and
`ProcessBlocks`: a committed batch is above every row, and a processed group is all that was
unprocessed up to the group's end.

`CachedBlocksAreComplete` needs the downloads beside the cache (`ResultsInv`): a call past its
results has stored them, and with the cache kept the deleting phases are never entered.
`DayRowsAgree` needs what `insertBlocks` knows while it is between two rows (`LoopInv`): the last
inserted block is the one before the cursor, and when the cursor's block is pushed its day has
been opened and the previous one closed; and what the `Day` object in memory takes to be saved
(`SavedInv`): it is in the row, or belongs to a dropped batch behind the loop. The heights the table or the loop has got to
(`Reached`) form a prefix, so a day's row is created at its first height, because no height of the
day was reached (`OpenStep`), and closed at its last, because the cursor is already in a later day
and days do not decrease with heights (`CloseStep`). A batch that is dropped or rolled back leaves
rows of days that hold no block yet; they stay true because they only speak of the days' own
first and last heights (`EndsInv`), and `PushStep` covers all five outcomes of a push at once.

The library's facts about finite sets give that `Max` and `Min` of a set of heights are its
bounds (`MaxIsHighest`, `MinIsLowest`).

`NodePoolProofs` proves `LookedAt`, that is `Spec => []UnavailableIsLookedAt`, for any set of
nodes and any limits, however many queries, checks, timers and restarts overlap. The property
becomes inductive with a few types (`WaitInv`): statuses are statuses, also those in the file;
the numbers of timers and checks are natural numbers. The argument is that every action which
takes a node out of use starts a timer (`StartTimerWaits`, `HandlersReact`), that a tick fires
no timer and loses none (`TickWaits`), that a timer turns into a check (`TimerWaits`), that a
check ends with the node in use or with a new timer (`CheckWaits`), and that loading the file
gives back the timers a crash has lost (`LoadWaits`). `TypeCorrect` (`Spec => []TypeOK`) says in
particular that slowing a node down never takes its limit to zero, in memory or in the file, so
that a node in use can be asked.

`WalletProofs` proves, for `Tokenize` with any users, files and bounds:

| Theorem | Statement |
|-|-|
| `TypesHold` | `Spec => []TypeOK` |
| `ForksHaveRoots` | `Spec => []BaseIsRoot` |
| `FilesAreOwn` | `Spec => []StoredFileIsItsOwn` |
| `CreatorUpdates` | `Spec => OnlyTheCreatorUpdates` |

The inductive invariant `IInv` adds three facts. `Owned`: a model's NFT has its creator as
privileged owner, so that without a token of Hexs the NFT accepts its creator only
(`OnlyCreatorAccepted`); a token that Hexs has stays with it (`HexsTokensStay`: no purchase
succeeds, and nothing else moves it), so that an excepted model stays excepted. `Made`: a tokenization under way has made a model that is no fork and
whose creator is its user, and the id it has read is that model's or a newer one. `Latest`: the
model made is the newest of its creator, forks apart. Together they close the race of
`getNewModelId`: when an update is accepted and Hexs has no token of the newest model, that model
has the flow's user as creator; if
it is no fork it is the model the flow has made, and then the id read is its own. (If it is a
fork that the same user made in between, the file is stored for the fork instead; the property
excepts forks.)
One lemma per operation of `Hexs` says what it keeps of the types and owners, and one step per
action of `Next` puts them together.

For `Certificates`, with any wallets, certificates and requests, it proves:

| Theorem | Statement |
|-|-|
| `CertTypesHold` | `CertSpec => []CertTypeOK` |
| `StoredCertsAreOwn` | `CertSpec => []StoredCertIsOwn` |
| `DeploymentsHaveCerts` | `CertSpec => []DeploysWithOwnCert` |
| `ValidKeysStay` | `CertSpec => ValidKeysAreKept` |

The two invariants support each other once `OpIsOwn` is added (the operation under way was
started for one of the user's wallets): `TxSucceeds` stores the certificate it has created on
the chain for the same wallet, and a deployment that creates none has just seen its local
certificate in the list loaded for its own wallet; between that list and the transaction only
the operation itself could revoke it. `NewCert` takes the least free certificate; that a finite
set of numbers has a least element is proved by the library's well-founded induction. The action
property needs `KeyInv`. `OpRemembers` says what an operation knows: a certificate is asked for on
a page without a match, a regeneration revokes the local certificate, a deployment decides with the
list it has loaded (all of its wallet's certificates, or nothing after a failure), and what a
confirmed transaction was to revoke is revoked. `LocalIsStored` and `OtherLocalIsStored` say that
the page's local certificate, and the one an operation remembers, is what the storage holds for its
wallet, but for the moment between storing a new key and reading it. So an operation that was
started with its own wallet's local certificate and loses a key loses that of the certificate it
remembers, and `KeyStep` goes through its kinds.

`AkashStatsProofs` proves, for any finite sets of leases and providers, any chains, group size
and number of failures:

| Theorem | Statement |
|-|-|
| `TypeCorrect` | `Spec => []TypeOK` |
| `CountsAreTrue` | `Spec => []CountsFollowTables` |
| `SpentIsSum` | `Spec => []SpentAccumulates` |
| `CommittedStays` | `Spec => ProcessedOnce` |

The properties speak of committed rows; the invariant `IInv` needs those of the open transaction
too (`RowsInv`) and where a run stands (`RunInv`). The heart is `CacheInv`, about the two cached
sets between refreshes: after block *h*, `counted` lies between the leases active at *h + 1*
and those active at *h*, and each height at which an active lease runs out is in `predictions`.
So the code may skip the query on a block that changes no lease (`QuietBlock`): if no cached
prediction is the block's height, no lease runs out there, and both ends of that interval meet
in the set a query would give (`CachesAtBlock`). The counters follow the growth of the tables
(`CountAtBlock`, `LeasesAtBlock`), by the library's facts about the sizes of finite sets; after a
rollback only `leaseCount >= ...` survives, and that is what `LeaseCountInv` keeps.

`ServiceProofs` proves, for `ApiCache` with any requests, lifetime and number of refreshes,
`TypeCorrect`, `AskedOnce` (`Spec => []OneRefreshAtATime`) and `InOrder`
(`Spec => []AnswersNeverGoBack`). The first
follows from the slot (`SlotInv`: it names the refresh that has not ended, if there is one). The
order of answers needs more: what is cached is as new as any answer and not newer than what a
refresh brings (`OrderInv`), and data that has just arrived is still the cached data when the
last request that waited for it gets it (`ArrivalInv`), because no time passes before.

For the proxy with its clients, with any urls, connections, sockets, frames and keys:

| Theorem | Statement |
|-|-|
| `ClientsTypes` | `ClientsSpec => []ClientsTypeOK` |
| `NoSocketIsOrphaned` | `ClientsSpec => []NoOrphanSockets` |
| `KeysAreDelivered` | `ClientsSpec => []KeysReachTheirShell` |
| `LossesAreShown` | `ClientsSpec => []LossIsShown` |
| `SavedFilesAreWhole` | `ClientsSpec => []SavedFileIsWhole` |

All rest on `Base`: connections are used in order and their queues are empty when they are
unused, cut or gone (`LinksInOrder`); a current socket exists and is of its connection
(`CurrentOwned`); and a socket that can still become or stay open is the current one of its
connection (`SocketsOwned`). So a terminated socket, whose close is still to come, is not the
current one, and its successor is connecting: this orders what arrives from both.

* `KeyInv` says of every key on its way, and of the next one to be typed, that what lies before it
  in the queue, or the current socket if nothing does, makes it meet its shell (`Directed`). It
  is kept by the proxy taking the first message and by the client adding a last one.
* `ShownInv` keeps what the messages on their way will make the page show: if the current socket
  is closed, its close is the last event on its way, or the page has shown it (`LossKnown`). With
  nothing left on its way that is `LossIsShown`.
* `FileInv` counts: frames received and frames on their way are those the provider's socket has
  emitted, and a result follows all of them (`Arriving`), as long as the socket is plain. What
  cannot be told from a file ends that, for good, and the property says nothing about it.

`DeploymentsProofs` proves, for any manifests, providers and groups and any number of operations
and mishaps:

| Theorem | Statement |
|-|-|
| `TypeCorrect` | `Spec => []TypeOK` |
| `SentManifestsWereDeployed` | `Spec => []SentWasDeployed` |
| `StorageIsDeployed` | `Spec => []StoredIsDeployed` |
| `OldManifestsAreExplained` | `Spec => []OldManifestIsExplained` |
| `PageShowsTheChain` | `Spec => []PageIsCurrent` |

The properties speak of moments of rest; the invariant says what holds in between. `AllKnown`:
only an operation that is being signed holds a manifest the chain has not known. `PageInv`:
`outdated` and a request still to be answered exclude each other; and as long as it is not set and
no operation is between its commit and its end, an answer the node has read, and the page when no
request is under way, show what the chain has. The end of an operation keeps this because it
leaves either a request that is still to be answered or `outdated` (`EndsPage`). `CurrentInv`, while there was no mishap: there is one operation at most, what it
sends is the chain's version, the storage lags behind only between a commit and the return of
its transaction, and a provider with an older manifest is one the update under way will still
reach. That an update reaches all of them holds because leases only end during an update, and a
lease that is accepted goes to a provider that runs nothing yet (`RunsEnd`).

For `SdlBuilder`, with any number of services, titles and edits:

| Theorem | Statement |
|-|-|
| `ServicesSurviveTheDocument` | `SdlSpec => []ServicesComeBack` |
| `DocumentIsAccepted` | `SdlSpec => []AcceptedUnlessIpsClash` |

Both are facts about `GenerateSdl` and `ImportSimpleSdl` for forms of any length, once the form
holds services and the template is the document of some form (`SdlTypeCorrect`, which has a case
for every field that can be edited). The community modules fold a list by a function on sets of
positions, chosen by `CHOOSE`; `BuildExists` builds that function for any length, and `Builds`
turns the fold into the documents after each service. On these, `ServicesWritten`,
`PlacementsWritten` and `EndpointsWritten` hold at every length (`DocumentIs`): a title has what
the last service of that title wrote, so the only one's if it is one, a placement the signers and
attributes on which all its services agree, and a document has an endpoint if a service has
one. The induction itself is a set without a least counterexample (`Counting`). From that,
`BuilderAccepted` is what `validate` asks, and `ServiceComesBack` compares the imported service
with the form's field by field. Stability needs no computation of its own (`LoadedTwice`): what
`importSimpleSdl` makes of a document are services without the losses of `Plain`
(`ImportedIsPlain`) that are pairwise `Apart`, since titles in order differ and services of one
placement have read it from one place, so each of them comes back by the first clause.

`IndexerProofs` proves, for `ProviderStatus` with any length of days and waits and any number of
checks, failed runs and restarts:

| Theorem | Statement |
|-|-|
| `TypeCorrect` | `Spec => []TypeOK` |
| `MarksFollow` | `Spec => []DayMarksFollowSnapshots` |
| `RowFollows` | `Spec => []RowFollowsSnapshots` |

The invariant adds that snapshots are in the order of their times (`TimesGrow`), that each
orphan has cost a failed run (`OrphansArePaid`), and the row's fields by their bounds instead of
by `Max` and `Min` (`RowInv`). Since a time between two times of one day is of that day
(`DaysAreIntervals`, from the facts about division), a new snapshot can end the day of the last
one only, and while the row is current that is the snapshot it names: so the mark the save takes
off is the only one the day had (`SaveKeepsMarks`). A success empties the downtime and a failure
adds to its end, so the row's first failure stays the downtime's minimum and the counter its size
(`SaveKeepsRow`). A check that worked on an outdated row sets `stale`, and then only the mark of the
day's last snapshot is claimed.

For `AkashEscrow`, with any leases, prices, deposits and heights:

| Theorem | Statement |
|-|-|
| `EscrowTypes` | `EscrowSpec => []EscrowTypeOK` |
| `LeasesArePaidForLifetime` | `EscrowSpec => []PaidForLifetime` |
| `DeploymentsCloseWithLastLease` | `EscrowSpec => []ClosedWithLastLease` |
| `OverdraftsArePredicted` | `EscrowSpec => OverdraftIsPredicted` |
| `EscrowImplementsMeter` | `EscrowSpec => ImplementsMeter` |

`BalanceInv` adds to the properties that every date is in the past and every active lease began
before the last settlement (`DatesInv`), that an active lease has been paid exactly what is due
at the last settlement (`PaidInv`, stronger than the property), and that the balance of an open
account is a whole number of tokens (`WholeInv`), without which the number of full blocks would
not be what the balance allows. Every handler but a deposit or a creation begins with a
settlement, so one lemma (`SettledStepKeeps`) proves the invariant for whatever settles and
then closes or adds leases. In it, payments add up to what leaves the account: full blocks by the
rate, which is a sum of prices (`Rates`), and the last tokens because the shares by weight are
whole (`Shares`, from `UnitAssumption`) and add up to the rest (`LastTokens`). `PredictionInv`
says that the predicted heights are the expiry, and `SettledExpiry` that a settlement which does
not overdraw leaves the expiry where it was. `OverdraftAtExpiry` then places each overdraft at
the expiry or later.

The refinement compares two ways of counting. While the account is open, `PaidInv` says that every
lease was paid exactly until the last settlement, so the meter's cost of a lease is what it was
paid and, if it runs, its price since (`CostIs`); their sum over the leases (facts of `SumTheorems`)
leaves of the deposits the balance less the rate for the blocks not yet settled (`FundIs`). Hence
the meter's fund is negative exactly when a settlement now would overdraw the account
(`OverdrawnIs`), and one lemma for whatever settles (`DemandStep`) shows that a withdrawal, the
close of a lease and that of the deployment end the leases the meter ends. `MeterStep` maps every
other action to a step or a stutter.

For `UsdSpending`, with any chain, days, prices and runs:

| Theorem | Statement |
|-|-|
| `UsdSpendingTypes` | `UsdSpec => []UsdTypeOK` |
| `UsdTotalsFollowPrices` | `UsdSpec => []TotalsFollowPrices` |

`TotalsFollowPrices` speaks of moments at which neither task runs; `UsdInv` says what holds while
they do. `GoodInv`: a processed block's total is the expected sum, or there is an excuse at or
before its day that will still be seen (a flagged day, a block without a total) or never will
(a lost one); while a run of the tracker is under way this is claimed for the days it has
behind it only. `StaleInv`: a row the run has yet to use, and whose price is outdated, has left a
flag or an entry in `lost`. `NewDaysInv`: a day which began after the run read its rows has no totals. `ReadInv`
and `SaveInv` say what the run knows between its queries: the totals before the day, and, once
a day's blocks are written, that they are right at the price in memory, so that clearing the
flag excuses nothing but what `SaveDay` records. A day is an interval of heights (`Calendar`),
hence the expected sum grows by one price per block within it (`ExpectedOnDay`).

`QueriesAreLimited` (`Spec => []ConcurrencyIsLimited`, in `NodePoolProofs`) holds for any nodes,
heights and limits. `QueryInv` says that, while no block is asked for twice at a time, the requests
running are those the node counts (`active` and `running` agree on blocks), and that one block is
asked of one node only. Then the guard `IsAvailable`, which looks at `active`, bounds the sum
over `running`.

`SumTheorems` has the facts about sums that these proofs use: the sum over a set with one
element more, of a function changed at one place, of scaled functions, of sums, and bounds. The
community modules define sums by an iteration whose order is a `CHOOSE`. As the
provers cannot instantiate the library's induction theorems, which take operators as
parameters, the module proves what it needs by a least counterexample: among the subsets of a
finite set for which a fact fails one has no smaller one within it (`SmallestSubset`).

Only model-checked: the liveness properties `CatchesUp`, `NodesRecover`, `UsdSettles` and
`RequestsAreAnswered`, which are out of the prover's reach. All other properties of the runs are
theorems.

## 6. Plan

What is left, in this order:

1. An abstract specification of the proxy's client side, which `ProxyClients` implements: one
   stream per selection.
2. The pages that send LeaseRow's requests and the user's templates, should they come to keep
   state of their own.

## 7. Not modelled

The landing page, the other pages and queries of the web application, routes that only read,
lookups that overwrite descriptive columns, generated code and configuration keep no state whose
order matters; they are most of the repository's lines. The engagement server is a dictionary behind
single-step handlers; the web application posts `ContractAddress` where it requires
`contractAddress`, so `/create` refuses every request, and the refusal is only logged. Of the
contracts, `callAPI` uses an undeclared variable and the bridge and the price feed only forward
to external services. The bodies of blocks and messages are decoded by generated code and are
abstracted to what the handlers read of them. The ping of the scheduler's health checks, the
statistics of the proxy and of the nodes are left out, since nothing reads them back.
