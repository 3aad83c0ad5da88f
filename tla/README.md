# TLA+ models of the Clawgress gateway

Clawgress is an egress proxy for AI agents. Two Go programs and a few packages
make it up:

- `cmd/clawgress-gateway`: an HTTP and CONNECT proxy. Every request is
  identified, charged against a quota, evaluated against a policy, forwarded
  and audited.
- `cmd/clawgress-admin-api`: the API that edits agents, policies and quotas,
  and that stages and commits host configuration (`configure` and `commit`).
- `cmd/clawgressctl`: a command line client of the admin API. Its `configure`
  shell edits a candidate configuration in a file before it stages it.

The two programs share no memory. They share three JSON files
(`agents.json`, `policy.json`, `quotas.json`), a SIGHUP and, through the host,
nftables. The modules in this directory model what can go wrong there and in
the packages behind: handlers that run at the same time, files that are
written in several steps, processes that die in between, and algorithms on
patterns and token buckets.

## Inventory

| component | state | operations | what is hard | what makes it correct |
|---|---|---|---|---|
| Tables and hot reload (`Registry`, `Engine`, `Limiter`; both `main.go`) | the tables in the memory of both processes, `path`, `path.tmp`, the signal channel | mutate, `Save` (snapshot, write, rename), `signalGateway`, reload, start-up | handlers of one table share `path.tmp`; snapshot and rename are under no common lock; signals coalesce; crashes between rename and signal; a reload can fail for one table | the file always parses; acknowledged writes stay; an idle gateway serves the disk; what was acknowledged is eventually served |
| Request path (gateway `main.go`, `internal/audit`) | each handler's stage, the tunnel's goroutines and channel, the tables in memory, the audit file | identity, quota, policy, dial or fetch, copy, `writeAudit`, reload, restart | reloads between the checks; two copy goroutines and one counter; a full disk; a process that dies after an answer | the audit file is truthful; a denial the client saw is on record; what is forwarded was authorised; no goroutine leaks; audit outages do not block |
| Quota limiter (`internal/quota`) | limits, two token buckets per agent | `Check`, `Set`, `Remove`, `Load` | fractions of tokens, two buckets charged in order, rebuilt buckets | no window admits more than a bucket plus the rate; polling costs nothing |
| Policy engine (`internal/policy/engine.go`) | a slice of rules | `Load`, `Add`, `Remove`, `EvaluateRich` | the slice is read outside the lock and edited in place | the slices implement a list; every decision is that of one list |
| Conflicts (`internal/policy/conflict.go`) | none | `DetectConflicts` | overlap is decided on patterns | reported exactly when two rules meet |
| RPZ zone (`internal/dns/rpz.go`) | the zone file | `GenerateRPZ`, `WriteRPZ`, `ReloadRPZ` | wildcard owner names | withholds what deny rules name |
| Configure and commit (`internal/opmode`, admin `main.go`, `internal/enforcer`) | `staged.json`, `active.json`, `commits.jsonl`, `audit.log`, the rules file, the kernel's tables, the host | `Configure`, `Commit`, `State`, `ExecuteOps`, `ApplyNftables` | four files per commit; the handler works on after the mutex is free; a shared rules file | one winner per revision; no revision is lost; what was acknowledged is in force |
| Agent registry indices (`internal/identity/registry.go`, `internal/store`) | `byID`, `byKey` in both processes, `agents.json` or a SQLite table | `Add`, `Remove`, `LookupByKey`, `All`, `Save`, `Load`; `SaveAgent`, `DeleteAgent`, `LoadAgents` | agents that share a key, a key left behind by `Add`, `Remove` taking another agent's key out, map order | the gateway finds exactly the registered keys; a save brings every agent back |
| Client (`cmd/clawgressctl`, `internal/cmdmap`) | the candidate file, the revision a shell staged | `set`, `show`, `save`, `commit`, `discard`, `commit --ops-mode` | the candidate is read, changed and written back in place, with no lock; commit is two calls; words become booleans and numbers | answered commands stay; a commit is of what its shell read; the rules and the plan carry what was typed |
| Operations plan (`internal/enforcer/opsplan.go`, `ops_exec.go`, `nftables.go`) | files and services of the host | `BuildOpsPlan`, `ExecuteOpsPlan`, `renderRules` | the plan stops at its first failure; two plans may interleave | what was written has been read by its service |
| Tokens, bundle signing, policy and transparent renderers, audit query, configuration, metrics, mTLS, image build | see `PROJECT.json` | | | not modelled, with the reason, in `PROJECT.json` |

How they interact: an admin handler changes a table and saves it, then signals;
the gateway's reload goroutine reads the three files in the order identity,
policy, quota; a request handler of the gateway reads each table once, under
that table's own lock, so two tables of different age can decide one request.
`commit` is separate from all this: it goes through `opmode.Store` and then
through `nft` and `systemctl` on the host.

## Modules

| module | models | built on |
|---|---|---|
| `PublishedTables` | abstract: revisions of tables are published and served, and neither goes back | |
| `ConfigSync` | the three tables of both processes, files, SIGHUP, crashes | refines `PublishedTables` |
| `ConfigSync_proofs` | theorems about it | `ConfigSync` |
| `QuotaLimiter` | the limiter and its buckets | |
| `QuotaLimiter_proofs` | theorems about it | `QuotaLimiter` |
| `Gateway` | request handlers, tunnels, reloads, the audit file | takes versions of tables from `ConfigSync`'s subject, and any answer of the quota |
| `Gateway_proofs` | theorems about it | `Gateway` |
| `PolicyEval` | pure: matching, evaluation, conflict detection, zone generation | |
| `PolicyList` | abstract: the rule list and its edits | `PolicyEval` |
| `PolicyEngine` | the slices the list is kept in, and evaluations outside the lock | refines `PolicyList` |
| `PolicyList_proofs` | theorems about it | `PolicyList` |
| `PolicyEngine_proofs` | theorems about it | `PolicyEngine`; cites `PolicyList_proofs` |
| `Activation` | abstract: a revision waits, then is in force, in one step | |
| `OpMode` | `configure`, `commit`, plan and nftables | refines `Activation` |
| `OpMode_proofs` | theorems about it | `OpMode` |
| `Registry` | the two indices of both processes, the file and the SQLite table between them | |
| `Registry_proofs` | theorems about it | `Registry` |
| `CommandTree` | pure: the command schema, `set` on the configuration tree, the commands `show` prints | |
| `OpsPlan` | pure: the plan of a configuration, what `executeAction` accepts, the rules `renderRules` prints | `CommandTree` |
| `Operator` | shells on one candidate file, staging, committing, a plan carried out on the host | `OpsPlan`, `CommandTree`; its state directory is `Activation`, which `OpMode` implements |
| `Operator_proofs` | theorems about it | `Operator` |
| `MC...` | the instances TLC checks | |

Definitions whose comment begins with "Mutant:" are not part of a model. Each
is a plausible mistake in the definition below it; putting it in that
definition's place makes TLC refute the property that `PROJECT.json` lists it
for.

### ConfigSync

A table is the number of mutations applied to it. Mutations happen under the
table's lock, so this number determines its contents, and "newer" is a
comparison. A handler goes `Mutate`, `Snapshot`, `OpenTemp`, `WriteTemp`,
`Rename`, `Signal`, one action per system call or critical section of
`Save` and `signalGateway`. A file is an inode; two handlers may have
the same `.tmp` inode open, and a shorter snapshot written over a longer one
leaves bytes that do not parse (`Garbled`). `RenameMissing` is the handler
whose `.tmp` another one has renamed away. The gateway's `TakeSignal`,
`ReadTable`, `SwapTable` and `KeepTable` are the reload goroutine;
`GatewayStart`, `AbortStart` and `NotifyRegistered` are `main` before it
serves, and a SIGHUP in that time stops the process for good: it has no handler
yet, and systemd counts an end by SIGHUP as clean, so that `Restart=on-failure`
does nothing. Faults are a crash of either process, an error of `Save`
and a failing read.

`Solo` is the set of tables with one writer at a time. Properties about `Solo`
hold next to any amount of racing on the other tables.

### QuotaLimiter

Every method holds the mutex, so each is one action. Tokens are integers in a
unit in which a request, a rate per second and a rate per minute are all whole,
so the model is exact where the code rounds `float64`. `window`, `spent`,
`admitted` and `lastSpent` are history: an observer starts counting at any
time (`OpenWindow`), and a rebuilt bucket starts a new window.

### Gateway

One handler per request: `Arrive`, `CheckIdentity`, `CheckQuota`,
`CheckPolicy`, then `Dial`, `Hijack`, the tunnel and `TunnelEnds`, or `Fetch`
and `CopyResponse`, then `WriteAudit`, and `Refuse` for a denial, in the order
of `ServeHTTP`, `handleConnect` and `handleHTTP`. `UpReturn` and `UpDone` are
two steps because the code adds to the counter between `io.Copy` and the send.
A configuration is a version number; `OwnerIn` and `AllowedIn` say what it
means for identity and policy. A token verifies or not as an input: its
signature is not modelled. `WriteLine` is the audit file of a disk that may
fill up: a write takes nothing, or a piece of a line that spoils the next one.

### PolicyEval, PolicyList, PolicyEngine

A domain name is the sequence of its labels from the top down, with a flag for
capitals. `Matches` and `EvaluateRich` follow `engine.go`, `DetectConflicts`
follows `conflict.go` with its habit of taking a pattern for a host, and
`GenerateRPZ` follows `rpz.go`; `Resolves` is what bind9 does with a zone.
`PolicyEngine` is the heap behind `e.rules`: an array per `make`, `append` or
`Unmarshal`, a length, and spare room that `append` reuses. An evaluation
copies the slice header, then copies each rule in two halves (the fields that
are matched, and the verdict), which is what a data race with an in-place edit
can tear.

### OpMode

A revision is a number in the order of the configure calls. `Store.Configure`
and `Store.Commit` hold the mutex and touch one file per action; `ReadState`,
`RunAction`, `TruncateRules`, `WriteRules`, `DeleteTables` and `LoadRules` are
the commit handler afterwards, without the mutex. `StoreError`, `ApplyError`
and `Crash` may come between any two steps, and leave half of what the step was
to write.

`commits` has the lines of `commits.jsonl` and `open` says that the last one
has no newline, because its append was cut short. The file is opened with
`O_APPEND`, so that the next record goes right behind and the joined line is
`Garbled` (`Line`); from then on `State` fails (`Torn`), and with it every
commit, after its activation. An `active.json` that cannot be read `State`
reports as no active revision: the handler skips the plan, and with nft off it
answers 200 all the same (the answer `unplanned` in the model).

Each of the two kernel tables is a set of revisions, because `nft -f` adds to
the tables that exist. Each is deleted by a command of its own, whose failure
the code discards (`DeleteTable`); `kept` notes the rules that stay for this
reason. The rules file is the set of the texts in it: two handlers may mix
theirs. What an action of a plan leaves is the revision where it is a command
and a placeholder where it writes a file, since `executeWriteAction` writes the
same text into every file (`Leaves`).

### Registry

A registry is the pair of its indices; an agent is an id, a key and a status.
`Load`, `AddAgent`, `RemoveAgent` and `LookupByKey` follow `registry.go` entry
by entry, so that an old key stays in `byKey` after `Add`, and `Remove` deletes
a key the index may have given to somebody else. `All` is the set of the
orders a Go map may be walked in. `PostAgent` and `DeleteAgent` are the edits of the
two handlers and `Save` or `SaveFails` what follows; edits of several handlers
may lie between, and one save writes them all. That a save is several system
calls and a load can fail is the subject of `ConfigSync`, and left out here.
With the backend "sqlite" the file's place is taken by the rows, which
`SaveRow` refuses when another row has the key.

### CommandTree, OpsPlan, Operator

A configuration is the function from the paths of its leaves to their values,
which makes `SetByPath` one definition: a leaf above the new one and everything
below it go. `ParseValue` and `Line` are the two conversions, from the word
that was typed to the value in the tree and from there to the words that are
printed. A line is printed without quotes and split at blanks when it is typed
(`Fields`, `ParseSetPathAndValue`), so a value or a name with a blank, which
comes in through the arguments of `clawgressctl set`, goes out as several words.
The command
schema, which the repository keeps as data, is a constant, and so is what
dashes, dots and blanks make of a word; what is assumed of it stands in the modules.
`Names` holds the keys a plan may meet, in the order in which the code sorts
them (`Among`). `Plan` is `BuildOpsPlan` after `dedupeOps` has
sorted it; a file is its directory and a name for the rest.

In `Operator` a shell goes `Set`, `Truncate`, `WriteBack` for a `set` and
`ReadCandidate`, `Stage`, `Commit` for `save` and `commit`; `CommitApply`,
`ReadState`, `RunAction` or `ActionFails` and `Finish` are
`commit --ops-mode apply` and the handler it calls. The document in the file
carries the commands it was made by, as history, which is what the properties
compare the rules and the plan with: the last word typed for a setting
(`LastRaw`), or all words (`AllWords`). `Undivided` leaves out names like the
interface `eth0.role`, which take a setting of another one away. `dirty` holds the files that were written
since the service that reads them was told to; `Reader` says which it is.

## What the runs show

| run | question | instance |
|---|---|---|
| `config_safety` | With one writer per table, does the file always parse, does an acknowledged write stay, does an idle gateway serve the disk, is this `PublishedTables`, and is an acknowledged write in the end served? Yes, unless the gateway was stopped for good or its last read of the table failed. | three handlers, two of them on one table and one alone on the other; two writes each, one fault of any kind |
| `config_torn` | Does the file parse when two handlers save one table? **No.** | two handlers, one table |
| `config_startup` | Is every acknowledged write eventually served? **No**: SIGHUP during start-up. | two tables, one gateway crash |
| `quota_rate` | Is admission bounded and is polling free? Yes. | one agent; limits by the second, the minute, both, alert only, and below one request |
| `gateway_request` | Is the audit file truthful, are denials on record, is what is forwarded authorised, is a tunnel the client ends counted in full, do audit outages not block, do tunnels wind down? Yes. | a request of either kind with a key or a token, next to one without; one new version, one restart, all faults |
| `gateway_unaudited` | Has every finished request its event? **No**: `client.Do` fails. | the same, upstream faults |
| `policy_rules` | Are conflicts reported exactly, does the zone follow the deny rules, are edits local, are ids unique? Yes, for rules with lower-case domain lists. | lists of up to two rules out of 80 |
| `engine_lists` | Do the slices implement the list, and is a decision during reloads that of one list? Yes. | lists of up to three rules, arrays of up to four, one evaluation |
| `opmode_store` | One winner per revision, a history that can be read names the active revision, only the expected revision is activated, the files implement `Activation`, an unrivalled acknowledged commit is in force? Yes, but for the rules of a table that could not be deleted. | two clients, three revisions, one of them with NAT rules, a piece of the host set by a file and one by a command, nft on or off, two faults of any kind |
| `registry_keys` | Does the gateway find exactly the registered keys, do its indices agree, does a save bring every agent back, does every row keep its key? Yes. | two ids, two keys, four first files, two handlers between edit and save; the file and SQLite |
| `operator_shells` | Do answered commands stay, is a commit of what its shell read, do the rules, the plan and the printed commands carry what was typed, and has what a plan wrote been read? Yes, within what the properties leave out. | two shells, two `set` commands, two revisions, one fault; and 31 commands, read in all pairs and, where they meet, in all orders of three; an extract of the schema |
| `opmode_race` | Does the kernel end with the active revision's rules when commits race? **No.** | two clients, two revisions, no faults |

**Bounds, and why they are enough.** Two handlers are what it takes to race,
three to race beside a bystander; two mutations of a table are what it takes
for an older snapshot to follow a newer one. `MaxFaults` is one in
`config_safety`, so that a failure that meets the recovery from another is left
to the proofs: they have no bound on tables, handlers, inodes, revisions or
faults. Files exist at first in `config_safety`; in `config_torn` and
`config_startup` they may also be missing. The same freedom from bounds holds
for the proofs about the limiter, `OpMode`, `Gateway`, `Registry`, the rule
list, its slices and the shells of `Operator`; only `MaxRules`, which bounds the
files too, stays a number. In `Gateway` (`MaxVersion`, `MaxSent`, `MaxRestarts`: 1) a
second request matters only through the audit file, where a refused one does all
an allowed one does; one new version gives both mixtures of old and new tables
across the checks. Evaluations do not see each other, so one is enough in
`PolicyEngine`; arrays with one place more than the longest list
distinguish "room to append" from "no room". Conflicts are about pairs, so
lists of two rules suffice. In `OpMode` three revisions and two clients let a
third commit follow two that raced. In `Registry` two agents and two keys give
every pattern of sharing; `MaxCalls` bounds the edits that one save covers. In
`Operator` the questions about interleavings and those about words are apart:
the commands in `Commands` are typed by the shells (`MaxSets`, `MaxRev`,
`MaxFaults`), and the candidates in `Read` are only looked at, committed and
carried out, since what a configuration means does not depend on
who else is typing. A setting meets the one it
conflicts with in a pair; orders of three add a setting that is removed and set
again. The shells are interchangeable, so `operator_shells`, which checks no liveness,
uses symmetry; no other run does.

Deadlock checking is off in the runs whose counters are bounded (the handlers
of a bounded number of requests, commits or mutations stop in the end) and on
in `config_torn` and in the runs of `PolicyList` and `PolicyEngine`.

**Fairness.** `ConfigSync`: weak fairness of each handler that is inside `Save`,
of the gateway's steps and of the admin process's start: Go runs every
runnable goroutine, and both systemd units restart their process. Nothing is
assumed of faults, of clients or of signals. `config_safety` and
`config_startup` run under it. `SoloWriteServed` asks in addition that the
tables with several writers are readable from some time on: the gateway reads
all its tables before it serves any, and a torn one keeps it from starting. `Gateway`: weak fairness of a
handler's own steps (a dial is bounded by 10 s and `client.Do` by 30 s), of a
goroutine's send, and of a copy once this process has closed one of its
connections. Nothing makes a peer close a connection or a disk recover. The
other modules need no fairness.

## What is proved

With TLAPS, for every value of the constants:

`ConfigSync_proofs`, from `ConfigAssumption` only (handlers and inodes may be
any sets, also infinite ones):

- `TypeCorrect`: `Spec => []TypeOK`. In particular the gateway never holds
  anything but a complete revision.
- `FilesParse` and `AckedStaysOnDisk`: for a table in `Solo` the file parses
  and holds every acknowledged write. The inductive invariant `FileInv` says,
  for such a table: the live inode holds a revision and is not the temporary
  one; only its one writer can have an inode open or a temporary name in use,
  and between writing and renaming the temporary inode holds that writer's
  snapshot; the disk is never ahead of the memory and a snapshot is at least
  the writer's own mutation. `SoloFileParses` alone is not inductive: a rename
  publishes whatever the temporary inode holds.
- `GatewayStaysFresh`: adds `GatewayInv`, which follows a revision through the
  reload: if no signal waits, the table's position in the reload decides
  whether it was read after the last rename.
- `ImplementsPublishedTables`: `Spec => PublishedSpec`. Every step is a step of
  `PublishedTables` or a stutter; the two invariants above show that a rename
  moves the disk forward and that a swap does not take the gateway back.

`QuotaLimiter_proofs`, from `LimitAssumption`:

- `TypeCorrect`, and `AdmissionIsBounded`: `Spec => []AdmittedBound`. The
  inductive invariant `RateInv` accounts for tokens: those a bucket gave in the
  window, plus the level it would be refilled to now, never exceed its capacity
  plus what the window earned. The bound on requests is not inductive by
  itself; the level is what is traded for it.
- `EarnedTokensAreKept`: `Spec => []PollingRestores`. `KeptInv` says that
  refilling now gives either a full bucket or everything the rate has earned
  since the last request that was charged, however often the bucket was looked
  at in between.

`Gateway_proofs`, from `GatewayAssumption`, for any requests, versions, faults
and restarts:

- `TypeCorrect`: `Spec => []TypeOK`. `Prepared` is needed with it: a handler
  that will write an event has one.
- `OnlyAuthorised`: `Spec => []ForwardedIsAuthorised`. In `AuthInv`
  the tables in memory are never ahead of the disk nor behind those of a
  request's arrival (`Ahead`), a request still before its upstream call was not
  forwarded (`Fresh`), and where a handler is in `ServeHTTP` tells which checks
  it has passed against some table since its arrival (`Checked`).
- `AuditIsTrue` and `DenialsAreWritten`. `AuditInv` ties four things together
  that no action changes at once: the event a handler holds, what was done to
  the upstream, what the client was told, and the lines of the file. An event
  that is written tells the truth because the one prepared did; a request
  without a line has not got past `WriteAudit`, or its line was lost.
- `ClientEndIsCounted`: `Spec => []ClientCloseCounted`. `TunnelInv` says which
  goroutines of a tunnel run, that the counter holds what was sent up to the
  step `UpReturn` leaves open, and that the end of a tunnel its client closed
  came through the channel, after the counter.

`OpMode_proofs`, from `OpModeAssumption`:

- `TypeCorrect`. It is not inductive alone: a step that uses the revision a
  commit read needs `CommitInv`, that it has read one.
- `OneCommitWins`, `HistoryIsCurrent`, `CommitsWhatIsExpected`. `StoreInv` has
  four parts, and `ViewInv` (a handler that writes rules has read a revision)
  goes with it. `MutexInv`: the handler inside the store's steps is the holder of
  the mutex. `CommitInv`: what a commit read from `staged.json` is still staged,
  and from the history on it is active too. `RevisionInv`: what is staged or not
  configured yet has no winner. `HistoryInv`: when no handler is
  between the two files, the last line of the history names the active
  revision, unless the commit of that one was cut off there or some line is torn
  (`Torn`). No append repairs a torn line, since it goes on in it or behind it
  (`LineFacts`), and that is why a torn line has to be an exception. Everything the commit handler does
  without the mutex leaves these alone (`ApplyFrame`).
- `ImplementsActivation`: `Spec => ActivationSpec`. A `Configure` cannot repeat
  the active revision; `Activate` of a revision that is active already (its
  first commit was cut off) and `RemoveStaged` are stutters, the latter because
  of `CommitInv`.
- `AckedCommitsRun`: `Spec => []AckedIsInForce`. `SoleInv` is about a commit
  with no other one in flight. Beside it only configure calls run, and these
  touch nothing of the host; so the revision it reads back is the one it
  activated, its plan is out as far as its position says (`CarriesOut`: a
  file holds the placeholder, a setting the revision), each table is empty
  before it loads or holds what its delete left there (`Clears`), and its rules
  come from a file nobody else writes (`LoadsRules`). `FromStart` is needed with it: a plan begins at its first
  action, also after a call that failed half way.

`Registry_proofs`, from `RegistryAssumption` (ids and keys may be any sets):

- `TypeCorrect`.
- `TheRegisteredAreKnown`, `OneMind`, `SavesAreWhole` and `RowsAreFound`: the
  four invariants of the run. The inductive invariant `Inv` is about files and
  rows, not about the admin's index by key, in which old keys stay. `FromFile`:
  the admin's index by id has every agent under its own id; the gateway is
  `Load` of what it was loaded with; and when nothing is unsaved, `agents.json`
  lists the admin's index by id in some order. `FromRows`: the rows have
  pairwise different ids and keys, and so has what was loaded from them.
  `Counts` has the types. The lemma `SavedLoads` is why the random
  order of a save does not matter: loading the list gives back the index by id.

`Operator_proofs`, for any shells, commands and plans and for every schema that
the assumptions allow. `OperatorAssumption` has the types of the constants.
`CommandTreeAssumption`: the patterns of the schema have words and take no empty
value, underscores leave no dash behind, a name with a dot falls into two keys
or more, no numeral is a word, and the shell splits what has blanks into two
words or more. `OpsPlanAssumption`: the names that occur have neither blanks, dashes
nor dots; of the last two, since `set` has replaced and split them.
`SchemaAssumption` is what `command_schema.json` says of the settings rules and
plan are made of: two patterns part at a word, but for the name and the group of
an outbound interface; only `address` and `name-server` are lists; a chain takes
`accept` or `drop`, the WAN block `enable`, addresses `dhcp` or a text with a
slash. TLC evaluates all four on the extract of the schema.

- `TypeCorrect`: `Spec => []TypeOK`. In `TypeInv` every candidate, in the file,
  in a shell's hand or staged, is `TreeOf` its commands, all of which were let
  through (`Candidates`, `Whole`). That this is a tree (`Grown`: no leaf lies
  above another one) goes command by command. `FoldLeft` is unfolded once
  (`TreeOfIsMade`, `MadeSteps`, `OneMoreTyped`), and `FlattenSeq` too
  (`Flattened`, `UptoSteps`); `Least` and `Climb` stand in for an induction
  rule, which the provers cannot use.
- `PlansAreServed`: `Spec => []AppliedIsLive`. `ServedInv` says: the handler that
  `solo` names is the only one with actions left (`Sole`), and every settled file
  that is dirty has an action left that makes its service read it, as every file
  that is still to be written has one behind its write (`Covered`, `Served`).
  That `Plan` has this form for every configuration is proved part by part.
- `RulesFollow` and `PlanFollows`: `Spec => []RulesFollowCommands` and
  `Spec => []PlanFollowsCommands`. They need no more of the state than `TypeInv`;
  the rest is about words. `SettingReached`: a command leads to a setting
  exactly if it spells it, and else neither past it nor below it, because two
  patterns part at a word. So the tree has at a setting's path what the last
  command for it put there, or a list of what all of them did (`Holds`,
  `Tracked`), and `GetString` and `Strings` read `LastRaw` and `AllWords`
  (`ReadString`, `ReadList`). A list
  of actions lies within the plan (`PlanParts`), and nothing else in it restarts a
  dhclient or writes a network file (`PlanFits`).
- `ShownRestores`: `Spec => []ShownCommandsRestore`. Every value of a tree comes
  from a command for its path (`FromCommands`), which is let through again in
  the form that is printed (`ShownAgain`). A command of
  words without blanks is read back as it was printed, and parted into the same
  path and value (`LineTyped`). The commands printed for one path
  make its value again on any tree that has nothing to do with the path
  (`PrintoutTyped`), and no two paths of a tree do, so that the groups restore
  one leaf after the other (`ReplayRestores`).
- `CommitsTheirOwn`: `Spec => CommitIsOwn`. `OwnInv` says that the revision a
  shell between its two calls waits to commit is one that it staged, and that
  its contents are still those it holds.
- `LoneSetsStay`: `Spec => []LoneSetsKept`. `LoneInv` has five parts: while
  nothing was disturbed at most one shell is inside a `set` (`Alone`); what that
  one holds is what the file held before with one more command (`Builds`); the
  file is empty exactly while it is between emptying and filling it
  (`Emptied`); otherwise it holds what was answered (`Kept`); `Typed` gives the
  types.

`PolicyList_proofs`, from `PolicyListAssumption` (rules and files have the shape
the code gives them, a file has one rule per id) and `ContextsAssumption`
(requests may ask for every host a pattern spells out):

- `TypeCorrect`. A new rule gets a new id or the place of the one with its id.
- `EditsAreLocal`: `Spec => EditsStayLocal`. A list has a first match or none,
  and what an edit appends, replaces or removes without being one leaves it the
  first. That numbers have a least one (`Least`) is drawn from the
  well-foundedness of strict inclusion.
- `ConflictsAreExact`: `Spec => []ConflictsExact`. Two patterns that match one
  host have comparable names, and the longer one, taken for a host, is matched
  by the other (`MeetOverlaps`); two that overlap both match the name one of
  them spells out (`OverlapsMeet`).
- `ZoneIsTheDenyRules`: `Spec => []ZoneFollowsDenyRules`, pattern by pattern.

`PolicyEngine_proofs`, from `PolicyEngineAssumption`, for any number of
evaluations, arrays and reloads:

- `OneListDecides`: `Spec => []DecisionOfSomeList`. `Follow` says that an
  evaluation whose array is not edited has walked along one list that was in
  force since it began, has met no match in it, and holds halves of that list's
  next rule. It lasts because a reload takes an array nobody walks, and the
  collector takes none that somebody does.
- `ImplementsList`: `Spec => ListSpec`. `Slices` says that the slice lies within
  its array and holds rules. That the place found by id is the one `PolicyList`
  means needs one rule per id, which is `PolicyList`'s own `TypeOK`: the step of
  the slices is a step of the list, and so keeps it.

**Only model-checked:** liveness (`SoloWriteServed`, `AuditNeverBlocks`,
`TunnelsWindDown`), which is outside what the installed provers do. Every other
property of a passing run is a theorem. What the proofs do not say is that the
constants TLC is given are the program's: the schema of `operator_shells` is an
extract.

## Where code and documentation disagree

The four runs with a counterexample are findings in `PROJECT.json`:
two Saves in one `.tmp` file (`config_torn`), SIGHUP before `signal.Notify`
(`config_startup`), the missing audit event of a failed fetch
(`gateway_unaudited`), and commits that apply their rules in the other order
(`opmode_race`).

Others were met on the way. They can be read off the models, and no run of
their own repeats them:

- `Save` takes its snapshot under the lock and renames later, so of two
  handlers the older snapshot can land last, and an acknowledged write is gone
  from disk. This is why `SoloAckedDurable` speaks of `Solo`.
- `Limiter.Load` rebuilds every bucket full, and the gateway loads on every
  SIGHUP: any write of the admin API gives every agent its burst again. This is
  why a window of `AdmittedBound` ends at a reload.
- A limit below one request gives a bucket that never holds one token
  (`bucket.go:114`). This is why `PollingRestores` asks for `Scale`.
- A tunnel whose upstream closes first is recorded with no bytes out
  (`main.go:285`). This is why `ClientCloseCounted` asks who ended it.
- Allowed requests are audited after they were forwarded, while `main.go:5`
  says before.
- A line cut short by a full disk spoils the next one, whose `Write` reported
  success (`log.go:59`). `missed` in `Gateway` holds such requests.
- Rules without a domain list, which match every host, are never reported as
  conflicts (`conflict.go:32`). This is why `ConflictsExact` speaks of rules
  with one.
- A table that two handlers have left torn keeps a gateway that restarts from
  serving at all, and so from serving the other tables.
- The SQLite store saves a policy without its methods, path prefixes and
  conditions (`sqlite.go:161`). Neither program opens the store.
- Patterns spelled in capitals escape conflict detection (`conflict.go:66`),
  and every overlap is reported as "shadowed", also when the later rule still
  fires (`conflict.go:44`).
- The RPZ zone withholds the names of deny rules for every agent, whatever
  allow rule comes first (`rpz.go:68`).
- A commit that fails after `active.json` was written stays in force and
  nothing is rolled back, and it may leave no record in `audit.log`
  (`store.go:155`), while `docs/MVPv1.md:131` speaks of all-or-nothing.
- `ExecuteOpsPlan` stops at the first action that fails and keeps what it did
  before, and settings that were taken out of the configuration stay on the host,
  while `docs/APPLIANCE_COMMAND_MAPPING.md:68` says "transactionally".
- The plan of any configuration but the empty one restarts
  `clawgress-configd` or `clawgress-policyd`, units that are nowhere in the
  repository; on a host without them every such `apply` ends with an error
  there (`Units` has hosts of both kinds). A planned `hostnamectl set-hostname` is refused by `executeAction`, and
  `executeWriteAction` writes a placeholder instead of the file.
- The `commit` of the shell is always a dry run.
- A `.link` file with a description is written after networkd was restarted.
  `AppliedIsLive` leaves out files that nothing reads.
- `set` takes words for switches and numbers: a host called "on" or "100", and
  a name server that is a numeral, which `<ip>` lets through
  (`token_paths.go:129`), drop out of the plan and the rules, numbers from a million on print as
  "1e+06", switches print as "true" and are refused as such, and "inf" or "nan"
  cannot be encoded at all.
- `set` replaces dashes in names ("br-lan" becomes "br_lan") and splits them at
  dots ("eth0.100"), so that an address of the interface "eth0.role" replaces the
  role of eth0 by a map; a setting whose path goes on in another one
  (`outbound-interface` and `outbound-interface name`) takes it away, and dhcp
  beside other addresses wins, because an address is added to the list or
  replaces it by its path and not by its pattern.
- An empty or garbled candidate ends the shell on `save` and `commit`; the next `set`
  takes an empty one, left behind by a client that died, for an empty
  configuration. `disturbed` is about this.
- The nftables tables are deleted by commands of their own before `nft -f`
  runs, so for a moment the gateway has no rules; and what they report is
  ignored (`nftables.go:37`), so a table that could not be deleted takes the new rules
  beside the old ones, behind a 200. `AckedIsInForce` asks for the new rules and
  for no others but those that a failed delete left (`kept`).
- One torn line in `commits.jsonl` makes `State` fail for good (`store.go:282`), and
  the next record is appended to that very line (`store.go:242`). From then on
  every commit is activated and answered 500, and its plan and its rules are
  never applied. This is why `HistoryNamesActive` leaves a torn history out.
- An `active.json` that cannot be read counts as no active configuration
  (`store.go:192`); the commit then skips plan and rules (`main.go:130`) and, with
  NFT_APPLY off, answers 200 (`unplanned`). `AckedIsInForce` leaves these answers out.
- `show configuration commands` prints names and values with blanks as they are
  (`main.go:683`), and the shell splits a line at every blank (`main.go:95`). The
  command printed for the full name "Jo Doe" is refused, and the one for an outbound
  interface "name eth1" makes another setting, while the help says "use quotes
  for names with spaces" (`command_schema.json:71725`). This is why
  `ShownCommandsRestore` leaves them out.
- `EvaluateRich` during `Add` or `Remove` can decide by a list that never was.
  No program does this today; `DecisionOfSomeList` leaves it out.

## What is not modelled, and why

`PROJECT.json` lists every component with its status. Left out of the modelled
ones: of `Operator` values typed as JSON, blanks
around a word, the plan of names with blanks, `configure --file` and, because `OpMode` has them, the
nftables step and the crashes of the admin API; rounding of `float64` times; the contents of JSON and the layout of log
lines; ports, dots and white space in hosts (stripped before any comparison);
loss of data the kernel had not written when the power fails; the certificate
and signature checks; metrics; a `policy.json` edited by hand into what `Save`
never writes (two rules of one id, an empty agent id).

## Plan

Done, in this order: `ConfigSync` with its abstract specification and proofs;
`QuotaLimiter` with proofs; `Gateway` with proofs; `OpMode` with its abstract
specification and proofs; `PolicyEval`, `PolicyList` and `PolicyEngine` with
proofs; `Registry` with proofs; `CommandTree`, `OpsPlan` and `Operator` with proofs.

Next:

1. The zone as state: edits, `WriteRPZ`, `ReloadRPZ` (`rpz.go:109`) and what
   bind9 serves.
2. Power failure in `ConfigSync`: what was not synced may be lost.
3. The other half of the SQLite store: policies and quotas, and what their
   columns drop.
