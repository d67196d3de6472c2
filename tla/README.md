# Verification of qorechain-lightnode

TLA+ models of the light node of this repository, TLC configurations that check
them on small instances, and TLAPS proofs of what holds for every instance.
Paths below are relative to the repository's root; `PROJECT.json` ties every
definition to the lines it stands for, every property to a run and to a mutant
that breaks it, and every hazard to the properties that watch it.

Contents: 1 the system, 2 what is hard about it, 3 the modules and the code,
4 the runs and their bounds, 5 fairness, 6 the proofs, 7 where the code and its
words disagree, 8 what is left out, 9 what could follow.

## 1. The system

One Go process (`cmd/lightnode-sx`, a command line and daemon, or
`cmd/lightnode-ux`, a daemon with a web dashboard) talks to one RPC node and one
LCD of a Cosmos-style chain, keeps what it learns in a SQLite file, and serves it.

| component | state | operations | interacts through | what makes it correct |
|---|---|---|---|---|
| light client (`internal/lightclient`) | `latestHeight`, `syncing` under an RWMutex; table `headers` | `syncLatest` at start and every 5 s; `LatestHeight`, `IsSyncing`, `RecentHeaders` | RPC `/status`; store; read by dashboard and heartbeat | what was reported is stored and stays; heights rise; it catches up and stops |
| dashboard API (`internal/dashboard/api.go`) | none | eight handlers; some ask the chain, some the tables, some fall back | all components, read-only | answers do not go back in time unmarked; collected data keeps being served |
| WebSocket hub (`internal/dashboard/websocket.go`) | map of clients under an RWMutex; a 64-place channel per client | `HandleWS` (register, two pumps, unregister), `Broadcast` | browsers, by connections | no send on a closed channel; ordered feed; slow clients block nobody |
| transactions (`internal/client/txbuilder.go`, `tx.go`) | none locally; the account's sequence on the chain | `BuildAndBroadcast`, called by the heartbeat loop and the auto-compounder | keyring, LCD | the record claims no more than was paid; heartbeats go on |
| delegation (`internal/delegation`) | tables `delegations`, `rewards` | `SyncDelegations`, `GetDelegations`, compound, rebalance check, `ComputeSplit` | LCD, store, transactions | the mirror converges, and goes back only if the node did; low validators are alerted |
| keyring (`internal/keyring`) | one blob: `keys.enc`, or an OS keychain item | Create, Import, Export, Sign, List, Get, Delete | file system, OS keychain | an atomic key store; acknowledged keys stay |
| daemon (`internal/daemon`) | a context, goroutines, the open store | New, Run, Close, heartbeat and delegation loops | starts everything | ends when told; collectors end before the store closes |
| store (`internal/db`) | one SQLite connection, `schema_version` | Open, migrate, Close | the file, shared by processes | the schema is whole or absent |
| telemetry (`internal/telemetry`) | four tables, a WaitGroup | four collectors, Start, Wait | LCD, RPC, store | tables catch up with the chain |
| onboarding and CLI (`cmd/lightnode-sx`) | `config.toml` | onboard, start, keys, queries | keyring, configuration, daemon | the node runs as it was set up |
| dashboard server (`internal/dashboard/server.go`, `cmd/lightnode-ux`) | a listener, a 1-place error channel | listen, serve, fail | daemon, browsers | its failure is reported, at the latest when the daemon ends |
| browser client (`web/js/app.js`) | the page: socket, timer, lists, status | pages fetched, messages pushed, reconnect | dashboard, hub | one connection or one timer; headers in order; what is shown becomes current |
| PQC binding (`internal/pqc`) | none | key generation, sign, verify in a C library | keyring, onboarding | not modelled |

How they interact: the daemon starts one goroutine per loop (header sync, four
collectors, heartbeat, delegation sync, auto-compounder).  They share the SQLite
connection, the HTTP client and the keyring and nothing else; the HTTP handlers
and the hub's goroutines run beside them.  Other processes (the wizard, the keys
commands, `status`) share the data directory.

## 2. What is hard

- *Interleavings*: handlers read memory and table at different moments of a sync
  round; a broadcaster meets a disconnect; two loops take the same account
  sequence; the wizard and a `keys` command load and save one keyring with no lock
  between them; two processes migrate one database.
- *Crashes*: between a row and the height that announces it; in a migration;
  between the truncation and the write of `keys.enc` or `config.toml`.
- *Lost and late answers*: a post whose response is lost; an answer of `CheckTx`
  taken for the outcome of a claim; a node that lags or was rolled back, whose
  older answers replace newer rows.
- *Partial failures*: one upsert, one reputation query, one iteration that fails
  while the others succeed; early returns that must not leave a flag set.
- *Events of a page*: a socket that fails fires two handlers; pages that are left
  answer later than those opened after them.
- *Numbers*: a decimal amount parsed as an integer, a product that overflows.
- *Stale state*: rows that are never deleted; a total read before the sequence
  and recorded after the response; a cached answer after a live one.
- *Liveness*: loops that must go on after failures and stop when told, a dead
  connection that only a ping detects, a signal before anyone waits for it.

`PROJECT.json` lists each with its line.  A hazard without a property says why.

## 3. The modules and the code

Every module has one action per step between two points where another goroutine,
process or the environment can interfere: a lock region, a request, a SQL
statement, a file operation.  A request that fails is an action of its own.
Data is abstracted to what the properties tell apart: an amount that changes is
the number of the change, a key is a model value, a message is a publisher and
a number.  Definitions named `...NoX`, `...Ignored`, `...Any` and the like, under
a comment *Mutant*, are plausible wrong versions of the definition after them,
and no action uses them.

**`LightClient`** (lightclient.go; the handlers of api.go that read it).  `pc` is
the place of the sync goroutine in `Start` and `syncLatest`: `Mark` sets `syncing`,
`FetchOk`/`FetchFail` is `NodeStatus`, `Check` the comparison under the mutex,
`StoreOk`/`StoreFail` the insert, `Publish` the second lock region, `EndRound` the
deferred reset, `TakeTick`/`Stop` the select.  `headers` survives `Down` and
`Restart`, nothing else does.  `StatusBegin`/`StatusReply` and `NetworkReply` are
the handlers, for any number of readers.  The node may answer any height.

**`Hub`** (websocket.go) has two goroutines per connection (`handler`, `pump`) and
one per broadcaster, the RWMutex including that a waiting writer keeps new readers
out, the bounded channel, a peer that stalls or goes, the ping and the deadline.
**`LossyFeed`** is what a browser is promised: from its joining on, messages
published later, each publisher's in order, none twice, any of them possibly
lost, nothing after it left.  `Hub!Feed` maps the hub to it: `last` is `got`, and
membership is read off `handler`, `conn` and `peer`.

**`TxSubmission`** (txbuilder.go, tx.go, autocompound.go, heartbeatLoop) follows
both loops through `keys.Get`, `GetAccount`, `Sign`, the post and its response, and
has the chain's sequence check, mempool and rewards as their environment.
`CanSign`, `KeyAtStart` and `Decimal` say which of the environment's habits a run
allows.  Two habits are always allowed and remembered in `lapsed`: an interval that
ends before the last claim is in a block, and a claim that fails in its block.

**`Keyring`** (encrypted_file.go, os_keychain.go, keyring.go) has both backends:
load, refusal, change, and for the file truncation and write as two steps; threads
of any number of processes (`procOf`), each process with its mutex.  A save may
fail before anything has changed (`SaveFails`).  Kills, full
disks, keychain errors and overlapping processes are always allowed; `harmed`
remembers that one of them has done what the code does not withstand.
**`KeyStore`** is the atomic key store that a `Backend` promises until then;
`Keyring!Store` maps what callers were told and saw to it.

**`Delegation`** (manager.go, rebalancer.go, delegationSyncLoop): fetch (first page
only), one upsert per row, read back, one reputation query per row.  `stake[v]` is
the history of the delegation to `v`, so that a node that is behind, or was rolled
back, can answer with any earlier state of it (`FetchLate`); `late` remembers that
the answer being stored is such a one.  `address` says whether the operator's key
has an address to ask for; without one no fetch succeeds.  Its
manager keeps the split that `New` sets from the configuration.  **`Splitter`**
(splitter.go, `SetSplit`, daemon.go:88) is the arithmetic: weights, `ComputeSplit`
in integers of `IntBits` bits that wrap, the sums included, with the quotient that
truncates, and
`Fair`, what a split has to be.  It has no state; `Delegation` extends it.

**`Lifecycle`** (db.go, migrations.go, daemon.go, collector.go, server.go and the UX
main.go): processes that open and migrate one database, with SQLite's one writer and its rollback; the daemon's
launch, signal channel, watcher, WaitGroup and Close; its goroutines in `go`, each
idle, in a request, in a statement or returned.  `Dashboards` are the daemons of
the UX binary: `dash` is the goroutine that serves, and `status` how the process
ended.

**`Setup`** (onboard.go, config.go, main.go, daemon.New, encrypted_file.go): the
wizard's steps, the two steps of saving `config.toml`, keys commands, hand edits,
and the daemon's load and two lookups of its key.  The wizard and the keys commands
are processes (`adding`), each with a copy of the keys that it loads, changes and
saves: `LoadKeys`, `Truncate`, `WriteKeys`, or `CutShort` and `GiveUp`.  The mutex of
the file backend is a process's, so nothing keeps them apart: they lose each other's
keys, both add one name, or leave a file that does not load.  `overlap` remembers
that two of them had the keys in hand at once or that a save was cut short since
the wizard loaded the keys.  A lookup only tells whether the key is there: its
address is blank in every backend.

**`Telemetry`** (validators.go, bridge.go, tokenomics.go, network.go and the handlers
of api.go): one table, its collector and its handler; `kind` selects whether the
handler asks the chain first, the table first or the table only.  `source[i]` is
the history of an item, from which a node that is behind may answer the collector
(`AskBehind`) and the handler (`LiveBehind`) of any table; `behind` and `lagged`
remember which answer and which rows came from there.  The table of the
network has a row per height, of which the highest is kept; all others replace.
`HandleNetwork` ignores the error of its query and shows what it had read.
The tables share nothing, so one at a time is enough.  Its names differ
from those of `Delegation` so that `MirrorProofs` can extend both.

**`Browser`** (app.js): one tab, one event at a time.  `OnOpen`, `OnClose`, `OnMessage`
and `Reconnect` are the handlers of its socket and timer, `Navigate` a click,
`Asked` and `Settle` the two ends of an await: several runs of a page's loading
function may be under way.  The server comes and goes, and is to each open
socket a lossy feed as `Hub` implements it.

The `MC` modules only give constants values.  `LightClientProofs`, `HubProofs`,
`TxProofs`, `KeyringProofs`, `MirrorProofs`, `LifecycleProofs`, `SetupProofs` and
`BrowserProofs` hold theorems and proofs.  Components meet where the code makes them meet: the
light client, its table and the handlers are one module, as are the two loops and
the chain, the wizard and the daemon, collector and handler.  Nothing else is
shared but the database connection, on which each statement is a step anyway.

## 4. The runs and their bounds

Nine runs pass, three show a disagreement (section 7).  `PROJECT.json` gives for
each property of a passing run a wrong version of some definition under which
TLC finds that property violated, so none of them holds by the shape of the model.

| run | instance | states | shows |
|---|---|---|---|
| `lightclient` | heights 0..2, two runs of the process, one reader, a list of one header, a node that answers any height | 37122 | reported heights stay stored (`ReportedHeightsAreDurable`); `latestHeight` is this run's highest and only a restart lowers it; a header list reaches what its reader was told; catches up, stops, resets `syncing` |
| `hub` | one connection, two broadcasters of two messages, a buffer of two | 18619 | no send on a closed channel; channels close behind pumps; the lossy feed; broadcasts finish; departed clients go; buffered messages arrive |
| `tx` | rewards up to 4, threshold 2, two heartbeats, four transactions, the key there or not | 494106 | the rewards table claims no more than was paid until a claim lapses; heartbeats go on |
| `keyring` | two threads, of one process or two, either backend; two names, two keys | 579627 | an atomic key store until the keys are harmed; a torn file is never taken for an empty one |
| `delegation` | two validators, one without a reputation answer, two changes each, pages of one or two, a node that may be behind, a key with an address or without; five configured splits, amounts up to 40, 8-bit integers | 43860 | a changed row shows an amount the operator had, an older one only from a node that was behind; with an address the mirror converges and low validators are alerted again and again; splits are fair |
| `lifecycle` | a daemon with a dashboard and a command, two tables, two collectors, one other loop | 61364 | whole schema; tables after Open; collectors end before Close and the wait group's counter never goes negative; signals end the daemon; it comes up once faults stop; a failed dashboard is reported |
| `setup` | the default endpoint or none, the wizard and one keys command, two keys, three key names | 1402758 | a finished setup is stored, its key while changes of the keyring do not overlap and no save is cut short, and its endpoint is used |
| `telemetry` | four kinds of table, two items of two changes, a node that may be behind | 160120 | answers go back unmarked only if the node was behind, of the network never; once collected, always answered; answers catch up |
| `browser` | two sockets, two runs of fetchOverview, two values of the status, four headers, lists of two and three | 464616 | one connection or one timer; headers in order and once; the chart agrees with the list; reconnects; the status catches up |
| `tx_decimal`, `delegation_stale`, `setup_key` | as above | | section 7 |

The type invariants are theorems (section 6); the runs check them only where one
says more than types (`lifecycle`, and `telemetry`: no row is ahead of the chain).

Why the bounds are enough to meet the cases of interest:

- *Light client*: two heights are the least with an older answer after a newer
  one, two runs the least with a restart, a list of one header the least with a
  header that falls out of it.  Readers do not influence anything, so one does.
- *Hub*: a buffer of two is the least with an order inside it, four messages fill
  it and more, two broadcasters hold the read lock at once and interleave in it.
  Connections meet only at the lock; one connection that registers and
  unregisters meets both broadcasters there.  The safety properties are proved
  for every number of each (section 6).
- *Transactions*: rewards of 4 allow two claims at threshold 2, four transactions
  the races between them and two heartbeats.  A second claim makes a lapse possible.
- *Keyring*: two threads, names and keys are the least with a conflict, a refusal
  and an overwrite.  The symmetry is sound: no property of the run is about fairness.
- *Splits*: weights that are absent, equal, unequal, zero, and refused, one negative;
  40 times a weight of 5 leaves the range of 8 bits, as amounts of the supply times a
  weight can leave 64.
- *Browser*: two sockets are the least of which one is closing and one connecting,
  and would show two connections; two requests the least that answer out of order.
  Four headers overflow the list of two and the chart of three.
- *Delegation*, *Telemetry*: two items so that one can fail while the other
  succeeds, two changes so that there is an old and a new value, or a value and an
  end, and an earlier state for a node that is behind; numbers of changes make all
  values different.
- *Lifecycle*: two processes are the least that overlap; two tables the least with
  half a migration; two collectors the least where one ends before the other.
- *Setup*: one keys command and the wizard are the least that overlap; more are
  covered by the proof.  The default endpoint and the blank answer are two that
  differ.  The one suffixed name stands for the random ones, of which a run of the
  wizard draws one.  The symmetry on keys is used with invariants only.

`CHECK_DEADLOCK FALSE` is said where the system really stops: a light client whose
last permitted run is over, a hub all of whose connections are gone and whose
messages are sent, a chain whose bounded rewards and transactions are used up.

## 5. Fairness

Safety is checked and proved without fairness.  For liveness:

- every goroutine runs when it can (WF): Go's scheduler;
- every request returns (WF on "answers or fails"): the HTTP client has a 15 s
  timeout (`internal/client/client.go`), the collectors' context ends theirs; a
  write to a browser has a 10 s deadline (websocket.go:162);
- tickers tick (WF), a tick on a full channel is dropped;
- a `select` does not ignore for ever a case that is ready again and again (SF):
  Go picks uniformly among ready cases;
- the chain, the store and, where said, a request do not fail for ever (SF on
  the success): without it nothing could ever catch up.  For the delegations this
  is assumed only of a key that has an address, which as shipped none has
  (section 7): `MirrorConverges` and `LowHeldIsAlerted` say so.  For the validators
  it assumes answers that the code can decode (section 7 again);
- a node that is behind need not ever stop being so.  What speaks of catching up
  has in its premise that it does (`AnsweredInTime`, `NodeCatchesUp`);
- in the browser, timers fire and events are handled (WF), and requests settle; the
  server need not be up, and properties that need it say so;
- processes that ended are started again: `restart` in docker-compose.yml.

Nothing is assumed of who wins a race, of users, browsers or operators, of when
the chain changes, or that a message is ever broadcast.  `ComesUp` speaks of the
time after kills and faults have ceased (`Calm`), which nothing forces.

## 6. The proofs

`tlapm` checks them to the last leaf, for all values of the constants the named
assumptions allow (bounds are naturals, buffers and lists are positive or
natural, sets of names are disjoint).

**LightClientProofs.** `IInv` is the inductive invariant: `TypeOK`, the two
invariants to prove, and what they need: `PublishedIsStored` (the published height
has its row) and `RoundKnows` (past the check the local height is above
`latestHeight`; at the publishing step its row is there and it is the highest of
this run).  Without the latter the publishing step could not be shown to publish
something stored or something higher.  Theorems: `TypeCorrect`,
`ReportedHeightsStayStored`, `LatestIsHighestOfRun`, `LatestHeightOnlyRises` (an
action property) and `ListsCoverStatus`, for which `HasTop` (the table, if not
empty, has a highest row) is carried along, since a list of the `Limit` newest rows
contains it.

**HubProofs.** `TypeInv` adds to `TypeOK` that a broadcaster inside `Broadcast` has
begun a message.  `HubInv` adds `HandlerInv`, which ties a client's map entry,
channel, connection and pump to the place of its handler, and `TodoInv`: who is
not inside `Broadcast` visits nobody, which is what the write lock gives
`unregister`.  From it follow `NobodySendsOnClosed`, `ChannelsCloseBehindPumps` and
`PumpsEndWithHandlers`.  `HubImplementsLossyFeed` is the refinement: `InOrder` says
that the messages of one broadcaster lie in the order got, in flight, buffered,
about to be offered, each strictly after the one before; `FeedInvStep` shows it
inductive with one lemma per action that moves a message (`RegisterInOrder`,
`TakeInOrder`, `WriteInOrder`, `BeginInOrder`, `OfferInOrder`) and one for the rest
(`QuietStep`); `FeedStep` maps each step of the hub to a step of the feed or a
stutter.

**TxProofs.** `TxInv` is the type invariant and, until a claim lapses, `Covered`: at
most one claim is pending (`OneClaim`), and for each place of the compounder how
far the record may run ahead: an accepted claim that is pending is covered by the
pending rewards, one that is in a block by what was paid.  Four lemmas say what
appending and executing a transaction does to the set of pending claims.

**KeyringProofs.** `TypeInv` has that no map has a name twice.  While unharmed
(`Unharmed`) at most one thread of all is between load and save, what is saved is
what callers were told, the file is torn exactly while somebody saves, and a thread
about to save holds the told keys with its own change (`AboutToSave`), which was
not refused.  `StoreStep` maps each step to a step of `KeyStore` or a stutter:
`KeyringIsAKeyStore`.  `NeverTakenForEmpty` needs no history: a torn file is loaded
by nobody.

**MirrorProofs** is about what the daemon keeps of the chain, in three parts.

- The mirror.  `NotAhead`: rows and fetched amounts are amounts the operator had, no
  newer than the chain, and the fetched ones, unless the node was behind, no older
  than the rows still to be written.  Hence `RowsNeverGoBack`: a row that changes
  goes back only if the node did.
- The split.  `SplitFair` says of every list of weights, every amount and every
  width of the integers that, where the products and the sum of the weights fit,
  `ComputeSplit` gives amounts that are not negative, add up to the amount, and are
  the exact proportion rounded down, but for the last, which has what the others
  lost: less than a unit each.  `QuotientRounds` and
  `ShareRounds` are the arithmetic of one share, `RoundingAddsUp` that of the shares
  so far: what n of them lose is less than n units, by induction on n.  The
  induction is done with sets (`InductionOnNat`: a set of naturals that has 0 and
  every successor of a member is all of them), which follows from the library's
  theorem that the naturals are well-founded.  `Sums` is a recursive function, whose
  recursion is shown to have a solution (`SumsExist`) before it is used (`SumsStep`).
  `SplitInv` (the split in the manager is one that the configuration can leave, or
  none) carries this to `SplitAlwaysFair`.
- Telemetry.  `Caught`: the answer a collector carries is none the chain has not
  given, and, unless the node was behind, no older than the row it replaces and than
  what was shown of it.
  `Presented`: what was last shown is no newer than the chain, and if it came from
  the table, than the table, but for rows that a node has told that was behind.  `Excusable`: a handler that finds no rows began
  without them.  `HandlerSteps` reduces the handlers of all tables to the answers
  they give, from which `TableKeepsAnswering` and `AnswersAlwaysAdvance` (an action
  property) follow.  Neither `Caught` nor `Presented` can be left out: a store that
  put an older value into the table, or a table older than what was shown from it,
  would break the order two steps later.

**LifecycleProofs.** `SchemaInv`: the schema is whole or absent and who got past Open
has seen the version.  `WaitInv`: the counter of the wait group of each process is
the number of its collectors that have not returned, which a step of one goroutine
changes by one (cardinalities of finite sets).  So `Waited` means that none is
left, and the counter never becomes negative, which in Go would panic.

**SetupProofs**, for any number of keys commands.  `KeyringSafe` says what holds until
two changes overlap or a save is cut short: one process at most has the keys in hand,
the file is torn exactly while that process saves, and the file, or else the copy
about to be written, holds the key of the finished setup.  It has one lemma per
step of an addition (`LoadKeepsKeys`, `TruncateKeepsKeys`, `WriteKeepsKeys`,
`GiveUpKeepsKeys`, `CutShortKeepsKeys`), used for the wizard and the commands alike.
`Saving` (while the wizard writes, no earlier setup is promised, and config.toml has
its endpoint) and `ConfigStored` are the half about the configuration.

**BrowserProofs.** `OneLifeline` is inductive with the types: every path out of a
connection, closing, failing or throwing, leads to exactly one timer.  `FeedOrder`
is what `HeadersInOrder` needs: the list shown, the messages under way to the
connected socket and the last number sent lie in one order, which pushing the
oldest message to the front of the list, dropping the rest of the list, and a new
connection that missed some all keep (`NewerTail`, `PushKeeps`).  `Follows` says
that the list is the newest points of the chart, newest first; the two are cut off
at different lengths and pushed to in one step, which keeps it (`PushFollows`).

**Only model-checked** is liveness, since fairness and ENABLED are beyond the prover,
and the runs of section 7.  No module uses RECURSIVE operators.  Induction over
data is done where a theorem needs it, with sets of numbers: the theorems of the
library that take an operator cannot be instantiated.

## 7. Where the code and its words disagree

Three runs show it:

- `tx_decimal`: a total with a fraction, as the chain's decimal coins have, does not
  parse and nothing is claimed, although a comment says it is truncated
  (autocompound.go:57).
- `delegation_stale`: the row of an ended delegation stays and goes on raising
  alerts (manager.go:61).
- `setup_key`: the wizard stores its key as `validator` and the configuration it
  writes names `operator` (onboard.go:281): the node it set up has no key.

More are in the modules behind a constant or a history variable, or as a property
that no run checks:

- `lapsed`: when a claim gets into its block only after the next interval has read
  the pending total, the same rewards are recorded twice (autocompound.go:49, :97);
  when it fails in its block it is recorded all the same, the answer of CheckTx
  being taken for the outcome (:80).  Without `~lapsed` in it `RecordedWasClaimed`
  fails.
- `harmed`: `os.WriteFile` truncates before it writes; cut short, it loses keys
  stored before (encrypted_file.go:132), which keyring.go:26 does not say of a
  Create.  Two processes lose each other's changes, the mutex being the process's.
  An error of the OS keychain reads as an empty keyring, and the next save makes it
  one (os_keychain.go:22).  `ImplementsKeyStore` would fail if `harmed` overlooked
  one of them.
- `Addressed = {FALSE}` is the program as shipped: no backend sets `KeyInfo.Address`
  (encrypted_file.go:165, :190, os_keychain.go:61), so the operator's address that
  daemon.go:82-86 keeps is always "".  The delegations (manager.go:53), the rewards
  (manager.go:102) and the account (txbuilder.go:50) are asked for with no address in
  the path, the mirror is never filled, no alert is ever raised, and the heartbeat
  names a blank operator (daemon.go:257).  `delegation` is checked with and without an
  address, and its liveness promises are for a key that has one; so is the trace of
  `delegation_stale`.
- `CanSign = FALSE` is the program as shipped: both backends return an error from
  Sign.  No transaction is ever posted, nor would one get past the account of a
  blank address, and `tx` would show nothing; it checks the loops as they are meant
  to run.
- `late`, `behind`, `lagged`: INSERT OR REPLACE (manager.go:61, validators.go:54,
  bridge.go:53, tokenomics.go:52) takes whatever the node says.  A node that is behind, or was
  rolled back, puts older amounts and telemetry in the place of newer ones, and the
  answers made of them are not marked.  `RowsAdvance` and `AnswersAdvance` fail if they
  do not except it.
- `overlap`: a keys command whose load and save enclose the wizard's drops the key
  the wizard has reported as stored, both may add the same name, and a keys command
  killed in `os.WriteFile` loses the wizard's key with the others
  (encrypted_file.go:132, :182).  Without `overlap` in it `SetupIsStored` fails.
- `ValidatorInfo` takes a validator's `description` for a string (types.go:37, "nested,
  simplified").  A chain that answers with an object, as the Cosmos SDK does, is not
  decoded: every request for the validators fails then, their table stays empty, and
  `AnswersCatchUp` promises nothing of them.
- `KeyAtStart = {FALSE}`: the heartbeat loop returns for ever when there is no key
  at the start (daemon.go:244), although one may be imported later;
  `HeartbeatsGoOn` speaks of a loop that found its key.
- `ReadFaults` in LightClient: `rows.Err` is not read, so a short list looks whole;
  `RecentHeadersAreComplete` and `NetworkCoversStatus` fail.
- `LatestHeightIsHighestSynced` (lightclient.go:125) fails after a restart:
  `latestHeight` is not read back.  `StoredHeadersAreVerified` (lightclient.go:15)
  fails with `FaultyNode`: only a height is stored, and nothing checks it.
- Delegations beyond the first page of the answer are not mirrored (staking.go:20):
  `MirrorConverges` and `LowHeldIsAlerted` speak of stakes while all fit in one page.
- Validators that are no longer listed keep their row in the cache that
  `HandleValidators` falls back to (api.go:83).
- A `config.toml` whose save was cut short loads as the defaults; onboarding again
  replaces an edited `key_name`.  `--skip-onboarding-check` and a blank endpoint are
  called local-only, while the defaults name http://localhost:26657.
- SetSplit refuses weights with "weights must sum to > 0" and accepts a negative sum
  (manager.go:43); negative weights give negative amounts.  daemon.go:98 drops its
  error, and the node runs without a split.  The last validator gets the remainder
  even with a weight of 0.
- A dashboard that cannot listen is reported when the daemon ends, not before
  (cmd/lightnode-ux/main.go:106).
- HandleRewards falls back to "last known rewards" (api.go:133), which are those
  last claimed, not those pending.
- Nothing in the repository calls `Broadcast`: the page is pushed nothing.
- app.js asks for routes the server does not have (`/api/headers/recent`,
  `/api/delegation/split`, `/api/bridge/connections`, `/api/bridge/activity`), so its
  recent headers are filled by pushed messages or not at all.

## 8. What is left out

Every component is in `PROJECT.json` with its status.  Not modelled are the
slashing monitor (nothing constructs it), the stateless requests and queries of
`internal/client` (each module has a request that answers or fails in their place),
the read-only commands, the C library and its binding, and the packaging.  Inside
the modelled components: encodings, encryption and passphrases, amounts beyond what
comparisons need, the order of rows, logging, what browsers send (it is read and
dropped), a second wizard beside the first, `GetHeader` and `ClientCount` (reads), the fallback of `HandleRewards` and
the plain reads of `HandleDelegation` and `HandleSettings`, the shutdown of the
dashboard server (its context is never cancelled), and the drawing of charts.
Handlers that the browser abandons are not modelled: they only read.

## 9. What could follow

- The Hub and the Browser as one system, instead of through `LossyFeed`; so far
  nothing in the repository publishes to it.
- `ComputeSplit` with a caller, when the code has one.
