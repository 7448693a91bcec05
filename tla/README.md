# droids-mem: a verification development

TLA+ models of [droids-mem](../src/README.md), model-checked with TLC, with
theorems about most of them checked by TLAPS. droids-mem gives coding agents a
memory: a SQLite store of lessons and session summaries, a code graph of the
repository they work in, a pool of lessons shared between teammates over git,
and hooks that turn a Claude Code session into a summary. It is a small program
that is concurrent at every joint: many processes share one database, one graph
file, one directory of session files and one git remote, and they order
themselves by locks, renames, retries and clocks.

## Inventory

| Component | State | Operations | Hard behaviour | What makes it correct |
| --- | --- | --- | --- | --- |
| **Graph manager** `internal/graph/graph.go`, `stamp.go` | per process: `repoLock`, handle cache, stamp cache, `builds`, `failedStamps` | `withGraph` (ensureFresh, query), `WaitBuild`, `Index`, `buildAsync`, `Close` | queries race rebuilds, newer edits supersede running builds, first builds outlive their caller, builds fail or hang | the graph catches up; nobody waits for a dead build; a channel closes once; one build at a time |
| **Graph handles** `graph.go` `connEntry` | refcount, dead flag, `*sql.DB` | open, release, closeConn | a rebuild replaces a file that queries are reading | no handle is closed under a query, none leaks |
| **Build lock** `buildlock.go` | `flock` on `.build.lock` | `buildIndexLocked` | several servers build one graph; builders are killed | a publication is under the lock; a dead builder wedges nobody |
| **Graph content** `index.go`, `carry.go`, `mapper*.go`, `tsconfig.go` | the graph file | load, scan, resolve, carry over, merge | calls are resolved by name over half-read sources; what cannot be read is taken from the previous file | what a graph does not label as old is what the source says; what it labels is what was last read |
| **Graph queries** `query.go`, `browse.go` | none | symbol, path, package | caps per level, truncation, four ways to match a name | rows, totals and paths are true, or say that they are cut |
| **Graph periphery** `render.go`, `nextjs_navigation.go`, `gc.go` | the cache directory | render, route rows, sweep | | |
| **Store** `internal/store` | `memories`, `meta`, FTS | Save, force, supersede, retention, import, scope, expand, prune, rescrub, search, context | the clock is read before the write lock; two dedupe layers; budgets | no twins; knowledge is never lost; nothing is shared unasked; no title, what or learned is unscrubbed after the baseline |
| **Schema** `internal/db`, boot part of `main.go` | tables, `user_version`, `scrub_baseline_complete` | Init, Migrate, boot gate, rescrub at boot | every command opens the file, several at once; kills between commits | the version names the shape; commands run on top of the ladder; nobody is locked out |
| **Pool transport** `internal/share`, share commands of `internal/tui` | clone, `shared.jsonl`, remote | Push, Fetch, shareCmd, pullCmd, unshare | full-file rewrites against a moving remote; failed pushes | no teammate's line is dropped; nothing leaves unasked; everybody gets the pool |
| **Session staging** `internal/state/session.go`, `cmd_session*.go` | `.staged`, `.count`, `.files`, `.injected` per session | the hooks PostToolUse, Stop, SessionEnd, SessionStart; stage, decline | unlocked files, killed hooks, crashed sessions | an earned summary reaches the store; an unearned one does not; no nagging; no litter |
| **Daemon** `cmd_ensure_server.go`, `cmd_serve.go`, `state.go`, `internal/mcpserver/server.go` | port, pid file, token file, processes | ensure-server: ping, verify, stop stale, spawn, confirm; serve: bind, boot fetch, calls, shutdown | commands act on what a probe saw a moment ago; pids are recycled; calls never end | a command ends with the daemon of the installed build answering, with the token on disk, or says that it failed; nobody else is signalled |
| **Upgrade** `cmd_upgrade.go`, `internal/release` | the binary, a temp file | check, download, verify, swap | torn downloads; a daemon of the old build goes on | the binary is always a whole published build |
| **Install, uninstall** `cmd_install.go`, `cmd_uninstall.go` | settings.json, CLAUDE.md, AGENTS.md, config.toml, opencode.json, the CLI's registry | install, uninstall, per host | files the user owns and edits; earlier releases; a failing CLI | one live hook per event; the user's lines stay; a second time changes nothing |
| **TUI** `internal/tui` | query, list, cursor, detail, selection, dialogs, generations | type, filter, move, tick, delete, share, unshare, pull | results of old loads arrive late, under an open dialog | at rest the screen is the store's answer; only the row asked about is deleted |
| **MCP tools** `internal/mcpserver/tools.go`, `graph_tools.go`, `ui.go`, `stdio.go` | none of their own | thin calls into the store and the graph manager | | |
| **Scrubber** `internal/scrub` | pattern version | Scrub | repeated scrubbing | idempotence |
| **Other commands** | none | parse flags, call the store, print | | |

How they interact. A tool call of the MCP server, or a CLI command, opens the
database (Schema), then calls the Store or the Graph manager in its goroutine.
Servers of several agents share `mem.db` and the graph files; nothing orders
them but SQLite's write lock, `flock` and `rename`. SessionStart and SessionEnd
hooks are processes of their own that call Store.Save. The TUI's share command
flips scopes in the store, runs Push, and flips them back on failure; Push
imports the pool through Store.Save before it exports. At boot a server runs
Fetch in a goroutine. A user, or `graph ui`, runs ensure-server; hosts register
`serve --stdio`, a server of their own. Ensure-server and uninstall meet the daemon
through its port, its pid file and its token. A build
of the graph manager makes the graph file out of the sources and the previous
file; queries read it.

## Modules

| Module | Models | Used by |
| --- | --- | --- |
| `GraphHandles` | `connEntry`: open, first statement, release, closeConn, replacement of the file, exit of a process | instance `H` of `GraphManager` |
| `GraphManager` | ensureFresh, WaitBuild, Index, buildAsync, Close, build lock, stamp cache, crashes, edits of the tree | `MCGraphManager` |
| `GraphHandlesProofs` | theorems about `GraphHandles` | instance `HP` of `GraphManagerProofs` |
| `GraphManagerProofs` | theorems about `GraphManager` | |
| `MemoryStore` | Store.Save and all that writes `memories` | `MCMemoryStore` |
| `MemoryStoreProofs` | theorems about `MemoryStore` | |
| `SchemaLadder` | Init, Migrate, boot gate, automatic rescrub | `MCSchemaLadder` |
| `SchemaLadderProofs` | theorems about `SchemaLadder` | |
| `SharePool` | Push, Fetch, the share commands, the remote | `MCSharePool` |
| `SharePoolProofs` | theorems about `SharePool` | |
| `SessionStaging` | the session files and the hooks | `MCSessionStaging` |
| `SessionStagingProofs` | theorems about `SessionStaging` | |
| `Daemon` | ensure-server, serve, uninstall's stop and purge, upgrade | `MCDaemon`, `MCMachine` |
| `HostConfig` | install and uninstall on the hosts' files | `MCHostConfig`, `MCMachine` |
| `Listings` | sets listed in an order (`ORDER BY`), passes that keep some of a sequence | extended by `HostConfig`, `GraphQuery` and `IndexBuild` |
| `Inspector` | the message loop of the TUI | `MCInspector` |
| `InspectorProofs` | theorems about `Inspector` | |
| `CallResolution` | import binding, tsconfig paths, the ladder a call goes down | extended by `IndexBuild` |
| `IndexBuild` | buildIndex: what is read, what is carried, rows, edges, labels | `MCIndexBuild`, `MCGraphIndex` |
| `GraphQuery` | graph_symbol and graph_package over a graph file | `MCGraphQuery`, `MCGraphIndex` |
| `MachineProofs` | theorems about `Daemon`, `HostConfig`, `GraphQuery` and `IndexBuild`, lemmas about `Listings` | |

`PROJECT.json` maps each definition to the lines it stands for. `GraphManager`
composes `GraphHandles`: the operators of the latter are parts of its steps, and
`GraphHandles!Spec` is the abstract specification of handles that `GraphManager`
implements. `HandleProtocol` says so; run `graph_safety` checks it and
`ProtocolHolds` proves it.

### GraphHandles and GraphManager

A `connEntry` is a record of refs, dead, closed; `Manager.mu` makes each
operation one step. `pool[h]` is the set of graph files a handle's connection
pool has open, because `sql.Open` is lazy.

In `GraphManager` a caller is a goroutine with a program counter over
`ensureFresh` (lock, stamp, open, meta, cold or warm path), `WaitBuild` and
`Index`; a job is a goroutine in `buildIndexLocked` (flock, load and walk,
rename) with the retirement steps of `buildAsync` and `finishColdBuild`. The
working tree is a version number, edits raise it (or bring an earlier one back,
in the scene `Undone`), `Broken` names the versions that do not build. A stamp, the
opening of a graph file and the build lock's file may fail, a bounded number of times.
An `Index` call keeps `repoLock` until it has counted and released its handle. A graph file
is its content, its stamp and its identity. A context may die at any point where
the code looks at it. `failedStamps` and `lastBuildErrors`, always written
together, are one variable.

### MemoryStore

A row has task, kind, text (title, what and learned), tags, fingerprint, scope, origin,
the three times and the expand count. `Save` is two steps, the request with its clock reading and the
transaction, since BEGIN IMMEDIATE makes the transaction atomic. The fingerprint,
the texts that pass the Jaccard threshold and what redaction leaves of a text
(`Fingerprint`, `near`, `Scrub`) are tables over a handful of texts, chosen so that
distinct ones share a fingerprint, are near without sharing it, or need redaction. The
near-duplicate gate may miss a row once there are more candidates than it asks for.
Tags are never redacted: a save refuses those that hold a secret, the rescrub does not
read them. The import of a pool row is Save with
its origin, scope and times.

### SchemaLadder

The shape of the file is a set of marks, one per thing a rung adds. Each DDL
statement of a fresh file commits alone; each rung commits with its version. A
rung whose statement would fail (duplicate column) fails here too, a rung that is
idempotent is not. The boot gate looks at the baseline; the rescrub may collide
on the unique index, and an operator may waive it.

### SharePool

A peer is a store, a clone and one operation under way. The remote is the
sequence of contents `shared.jsonl` had; a clone has the version it pulled last,
its HEAD, whether it is ahead, and the file. Git's own behaviour (fast-forward,
refusal of a dirty file, divergent branches) is external and modelled from how
`share.go` calls it: a plain pull refuses divergent branches; told to merge
(`reconciles`) git stops with a conflict where two peers touched neighbouring lines and
leaves the merge half done (`unmerged`). A lesson is learned as personal or straight as
shared, and a peer's validation may refuse a line (`refuses`). A peer that git does not
let pull any more is `CutOff`.

### SessionStaging

A hook is a process on one of a few slots. Reading a file, truncating it and
writing it are separate steps (os.WriteFile truncates first), and any hook may be
killed between two of them. `parallel` lets hooks of one session overlap, as
parallel tool calls and subagents do; recoveries of other sessions always do.

### Daemon

A serve process is a record by pid: its state (boot, serving, draining,
closing), its token and build, whether it was signalled, whether its boot fetch
or a tool call runs. `port` is the pid of the listener. A command is a program
counter with what it has read: the token, its own build, the pid a proof named.
Each probe (health, identity) is a step and each act on its result another, so
the listener may be a different one by then. `Legacy` is a build that proves its
token but no pid, `Dev` a local build, a stranger another program on a recycled
pid. `UpgradeDownload` may bring any file; only the checksum decides.

### HostConfig

A command is one step: nothing else runs on these files by design of the hosts,
and the hard part is what the files contain. `settings` is a list of entries per
event, each a matcher and the set of commands it runs; `text` and `agents` are
pieces of text, ours or the user's; `codex` is the lines of config.toml;
`opencode` and `registry` are what their keys hold. An entry is taken for ours when its
command has the words "session hook", whoever wrote it; a `hooks` key or an event may
hold a value of another shape; the user may write below our table of config.toml. What a command drops or cuts
is a pass over one of these sequences, a `Pick` of `Listings`. A command is followed by
edits of the user, by a reinstallation under another path (`MoveBinary`), or by
itself. `MCMachine` puts `Daemon` and `HostConfig` together as what the commands
leave on one machine; they have no variable in common and run `daemon` explores
both.

### Inspector

`ops` is the set of commands that run and of messages on their way; bubbletea
delivers them in any order, and a key press may come between any two. A load
carries the generation and the query it was started with, and may come back with an
error (`faulty` names the kinds of commands that may): then the old list or pane stays
and the status line says so (`failed`). The store may change under it by the
inspector's own deletes, shares and pulls.

### CallResolution, IndexBuild and GraphQuery

The sources are files of definitions and calls, not text: a torn file has an
error in its tree and a prefix of its definitions, a broken package has no type
information. `Build` is the whole of buildIndex as far as the content of the
file goes (when it runs is `GraphManager`'s). `CallResolution` has the rungs of
mapper_calls.go in their order, each a filter that falls through when it finds
nothing. `past` is history, for each unit: the source it was last read from, whether
that was in this build, and the calls it then showed. `GraphQuery` is the functions of query.go over a graph
file given as symbols and pairs; its actions only ask. An `ORDER BY` is a
`Listing`, a `LIMIT` is `Capped`, and the loops that go level by level (neighbours
of a symbol, callers of callers, the search for a path and the way back along it)
are functions of the level. `MCGraphIndex` puts the
two together: builds of `IndexBuild`, and answers of `GraphQuery` over every
graph of a few symbols, since the ones that builds produce are too few to reach
the caps.

## Runs

Each component is asked several questions, and each question wants its own
inputs and bounds: who calls what, which files are there at first, how many
edits, faults and kills. Such a choice is a *scene*, a record of the constant
`Scenes`; the variable `scene` is drawn from that set in `Init` and never
changes. One run then explores all the scenes of its component, and every
property is checked in all of them. A property that some scene takes the ground
from says so: `SupersededNeverOverwritesSuccessor` needs the lock file to open,
`PoolReachesEveryone` needs a clone that git still pulls into. The scenes are in the MC modules.
Types are a conjunct of the first invariant of most modules; in `GraphHandles`
they are a theorem.

| Run | Scenes | Properties |
| --- | --- | --- |
| `graph_handles` | three queries in two processes, replacements, exits | `NeverClosedWhileHeld`, `RetiredIsClosedByLastHolder` |
| `graph_safety` | `Superseding`, `Failing`, `Replacing`: WaitBuild calls and queries over asynchronous builds; `Contending`: queries, forced Index, abandoned first builds, a fault, Close; `Sharing`: two processes over one graph file; `Killed`: one of them killed | `RegisteredIsTheLiveBuild`, `NoStrandedWaiter`, `SupersededNeverOverwritesSuccessor`, `SettledSeesAwaitedBuild`, `LockFollowsOwner`, `LabelNeverAheadOfContent`, `HandleProtocol` |
| `graph_live` | `Edited`: an edit of the tree, to a version that builds, to one that does not, and back; `Killed`; `Hung`: no build ever ends | `EventuallyFresh`, `EventuallyQuiet`, `WaitBuildReturns` |
| `store_safety` | `Lessons`: save, force, supersede, import, share, candidates missed; `Replacements`: supersedes across kinds; `Rescrubs`: rows of earlier versions, rescrub, prune; `Recaps`: manual summaries at their cap, local and imported; `Autos`: auto summaries at the global budget | `UniquePrints`, `KnowledgeOnlyLeavesOnRequest`, `BaselineMeansScrubbed`, `RetentionKeepsTheBest`, `PoolAndStoreStayApart` |
| `schema_open` | `First`: three processes, no file yet; `Race`: three on a file of version 8 to 10, one killed; `Upgrade`: one on a file of any version, killed twice, a colliding rescrub, an operator | `VersionDescribesSchema`, `SentinelMeansScrubbed`, `EventuallyServes` |
| `pool` | `Racing`, `Merging`, `Interrupted`: two teammates with lessons of their own, pushes that lose a race, git that refuses, merges or stops at a conflict, a kill; `Withdrawing`: unshared, deleted and near-duplicate rows; `Faulty`: re-shared rows and a network fault; `Refusing`: lines that a peer's scrubber refuses | `OnlyOfferedLeaves`, `PoolOnlyGrows`, `PoolReachesEveryone` |
| `session_safety` | `Overlapping`: hooks of one session overlap freely, one is killed; `Turns`: they run one after the other, beside recoveries; `Orphans`: two sessions, two recoveries | `StoredIsEarned`, `StageSilencesGate`, `EarnedSummaryIsKept`, `LiveSessionIsShielded` |
| `session_live` | `Recovered`, `Unsaved`: a crashed session, a killed recovery, a store that works or fails once | `StagedIsReaped`, `CrashedSummaryIsRecovered` |
| `daemon` | `UpgradeAlone`, `UpgradeDone`: an upgrade under a daemon with an everlasting call, and two commands after it; `Cold`: both commands spawn, a probe fails; `Stopping`, `Recycled`: an uninstall, an older daemon, a stale pid; `Squatted`: another program on the port; `OldDaemon`, `LocalBuild`: builds that cannot be compared; `FirstAlone`, `PurgeAlone`: one command on a clean machine, after a purge; `Parked`: install and uninstall on six machines | `TypeOK`, `OrderlyEnds`, `CommandsTakeEffect`, `OutcomeHolds`, `OnlyOursChanges` |
| `inspector` | `Browsing`, `Deleting`, `Typing`, `Sharing`, `Filtered`: the keys in use; `Failing`, `Refusing`, `Locked`: shares, deletes and loads that come back with an error | `ScreenIsCurrent`, `DeletesWhatWasAsked` |
| `graph_index` | `Web`, `Python`, `Go`, `Mixed`, `Twins`: repositories; `Asked`: graphs and questions | `SymbolsAreTrue`, `CallsAreTrue`, `AnswerIsTrue` |

Statements of the source that its code does not keep. The first is a run of
`PROJECT.json`, which quotes the statement; the others are configurations kept
beside the runs, or one of those with another property and the value given here
for `Scenes` (`Machines` in `HostConfig`).

| Configuration | Statement | What happens |
| --- | --- | --- |
| `SharePool_superset` (run `pool_superset`) | `FetchFirstIsSuperset`, share.go:70-73 | a pulled line that duplicates a local row is dropped from the pool |
| `GraphManager_close`, `Undone` | `SuppressedSourceIsBroken`, graph.go:266-268 | an edit breaks the source after the stamp and is undone after the load: the failure is filed under a good tree, which is not built again |
| `GraphManager_close` | `NoStrandedWaiter`, graph.go:199-202 | Close drops a build without closing its channel; a WaitBuild on it can only time out |
| `SchemaLadder_backwards` | `VersionNeverDecreases`, migrations.go:254-255 | of two ladders the slower one puts the version back |
| `SchemaLadder_backwards` | `SharesSurvive`, migrations.go:119-120 | the slower ladder makes rows personal again that somebody has shared |
| `SchemaLadder_backwards`, `Torn` | `EveryOpenSucceeds`, db.go:67 | a kill between the first DDL and its version stamp leaves a file nothing opens |
| `SessionStaging_renag`, `Slow` | `LiveSessionIsShielded`, session.go:35-38 | recovery takes the files of a running session that has not staged for half an hour |
| `SessionStaging_renag`, `Failing` | `EarnedSummaryIsKept`, hooks/README.md:3 | a summary whose save fails at the end of the session is deleted all the same |
| `SessionStaging_renag` | `BlocksOnlyWhenStale`, cmd_session.go:178-179 | a stage that reads a tally being rewritten counts from zero, and the next Stop blocks again |
| `SessionStaging_renag`, `Littering` | `NoLitter`, session.go:41-42 | the tally and file list of a session that never staged stay for good |
| `MemoryStore_force` | `ForcedSaveOverwrites`, save.go:221-222 | a clock read before the matched row was created makes a forced save fail the table's CHECK |
| `MemoryStore_force`, `OtherTasksTwin` | `FingerprintIsOfContent`, share.go:38-39 | a forced save rewrites a row of another task, which keeps that task and gets this fingerprint |
| `MemoryStore_force`, `OtherScopesTarget` | `MismatchedSupersedeIsNoOp`, save.go:106-108 | a target of another scope is not deleted, but still exempt from the near-duplicate gate |
| `MemoryStore_force`, `OldTags` | `BaselineCoversTags`, CHANGELOG.md:562 | the rescrub does not read tags: a secret in the tags of an old row outlives the baseline |
| `MemoryStore_force`, `OmittedScope` | `OmittedScopeIsShared`, save.go:713 | the error message names a default the code does not use |
| `SharePool_revert`, `Losing` | `RacesAreReconciled`, share.go:2-4 | a clone whose commit lost a race can, by default, not pull any more |
| `SharePool_revert`, `Failing` | `ReportedMeansPublished`, model.go:577-578 | after a push that failed, the retry has nothing to commit and reports success without pushing |
| `SharePool_revert` | `RevertRestores`, model.go:576-578 | undoing a failed share unshares rows that were shared before |
| `Daemon_firststart` | `FirstRunIsZeroConfig`, cmd_ensure_server.go | two first starts mint two tokens; the one whose token lost fails the identity check of a daemon that is ours |
| `Daemon_firststart`, `PurgingOnly` | `PurgeAfterStop`, cmd_uninstall.go:92 | the purge follows the signal at once; the daemon still has the store open, and its state comes back |
| `Daemon_firststart`, `UpgradingOnly` | `NoWriterIsKilled`, mcpserver/server.go | a call that outlives the shutdown grace is cut off while it writes |
| `Daemon_firststart`, `UpgradingOnly` | `FailedUpgradeLeavesNothing`, cmd_upgrade.go:90 | a checksum mismatch exits past the deferred removal of the downloaded file |
| `Daemon_firststart`, `ColdUpgradeOnly` | `CommandsTakeEffect`, cmd_ensure_server.go:85-97 | an upgrade between two spawns: the older daemon binds first, and the newer build's command takes its answer for success |
| `Daemon_firststart`, `ColdOnly` | `PidFileNamesDaemon`, cmd_uninstall.go | of two spawns the one that could not bind may write the pid file last; uninstall then refuses to stop the daemon |
| `HostConfig_mixed` | `OnlyWiringGoes`, cmd_uninstall.go:24-25 | an entry in which the user put a hook of theirs next to ours is dropped whole |
| `HostConfig_mixed`, `NamedAlike` | `OnlyWiringGoes`, cmd_uninstall.go:24-25 | so is an entry of the user's whose command has the words "session hook" |
| `HostConfig_mixed`, `OnlyUsers` | `OnlyWiringGoes`, cmd_uninstall.go:24-25 | comments and keys between our table of config.toml and the next header are cut with it |
| `HostConfig_mixed`, `Scalar` or `OddEvent` | `OnlyWiringGoes`, cmd_install.go:61-62 | a `hooks` key that is no object, an event that is no list, is overwritten |
| `HostConfig_mixed`, `OnlyUpgraded` | `HostsRunThisBinary`, cmd_install.go | an entry of Codex or OpenCode under another path counts as already installed |
| `HostConfig_mixed`, `CommentedOut` | `HostsRunThisBinary`, cmd_install.go | so does a mention of our table in a comment of config.toml |
| `HostConfig_mixed`, `OnlyUpgraded` | `RegistrationSurvives`, cmd_install.go | a failing `claude mcp add` after the removal leaves no registration |
| `HostConfig_mixed`, `OnlyUsers` | `SettingsSurviveAKill`, cmd_install.go:546 | a kill between truncating settings.json and writing it empties the user's settings |
| `Inspector_share` | `SharesWhatWasAsked`, model.go:368 | a reload moves the cursor under the open dialog; the confirm shares the row that is there now |
| `Inspector_share`, `PaneScenes` | `PaneIsFresh`, model.go:234 | the detail pane is not loaded again when the row under the cursor changed |
| `Inspector_share`, `ResizeScenes` | `ScreenIsCurrent`, model.go | a resize drops the detail and nothing loads it again |
| `Inspector_share`, `CensusScenes` | `CensusIsCurrent`, model.go:573-578 | counts carry no generation; an older one may arrive last |
| `Inspector_share`, `FailScenes` | `FailedShareLeavesNoTrace`, model.go | the list is loaded while the share still runs and keeps showing rows as shared after the revert |
| `Inspector_share`, `FilterScenes` | `ScopeFilterHolds`, model.go:69 | a search ignores the scope filter that is shown as active |
| `GraphQuery_totals` | `TotalsAreComparable`, query.go | the total of callees counts tests that the rows leave out |
| `GraphQuery_totals` | `MethodsAreItsOwn`, query.go:597 | LIKE ignores case: a type is sent to the methods of another |
| `IndexBuild_namesake` | `InEdgesAreRediscovered`, mapper_carry.go:139 | carried rows have lost their containers, so a member call of a clean file goes elsewhere |
| `IndexBuild_namesake` | `ReadFilesShowTheirCalls`, carry.go, mapper_carry.go | units are keyed by name without their tier: a Go package and a file of one name get each other's old edges |
| `IndexBuild_namesake` | `ThisStaysInItsClass`, mapper_calls.go | `this.x()` matches members of a class of the same name in other files |
| `IndexBuild_namesake` | `LocalsComeFirst`, mapper_calls.go | a bare call of a nested function goes to a free one of that name elsewhere when the file imports nothing |
| `IndexBuild_namesake` | `NoSelfEdges`, mapper_calls.go:547 | resolved self-edges are dropped, carried ones are not: of two files that were one module, the calls from one to the other lead to themselves once the one is gone and the other torn |

Two more were met on the way. A kill between truncating `shared.jsonl` and the
commit leaves a dirty clone; as soon as the pool moves on, git refuses every
later pull, and that peer neither shares nor fetches until somebody cleans the
clone. It is one of the ways to be `CutOff`. And a package of
which only the tests are broken carries the old edges of its production code,
although that was read; the label says so, hence no property is broken.

### Bounds

- *Graph.* Two callers are the fewest that contend for `repoLock`, join one
  build or supersede each other's, and two jobs let a build be superseded while
  an older one still renames; three versions, the second broken, give every
  change between good and broken in one edit. `inos` is the number of
  publications told apart, 0 where no property compares files. Handles are three
  because at most a cached and two held ones exist at once.
- *Store.* Two writers, two tasks, two seconds and three or four rows: enough for
  a save to wait while another commits at a later second, for both dedupe layers,
  and for a summary cap of two to be exceeded by one. Each scene draws its
  requests from the set its question is about.
- *Schema.* Up to three processes; files of each version. `Race` starts from 8, 9
  or 10, the versions whose rungs fail when run twice: from 3 to 7 the ladder can
  go backwards, which `SchemaLadder_backwards` shows.
- *Pool.* Two peers, up to three lessons, up to five contents of the remote:
  each peer can push, be rejected, merge and push again; lines 1 and 3 merge around
  a 2 that both have, neighbours conflict. `PoolOnlyGrows` is about the scenes where
  each lesson has one author, no two are near twins, nobody withdraws one and the
  network holds (`Additive`;
  a share undone after a failed push withdraws too): with a lesson that
  two people wrote the pool does lose lines (`pool_superset`).
- *Sessions.* Threshold two stands for eight; four edits and two stages reach a
  stale stage; two slots are two overlapping hooks. All scenes but `Overlapping`
  keep a session's hooks in order, and only dead sessions go idle: without either,
  `SessionStaging_renag` and its scene `Slow` show what happens.
- *Daemon.* Two ensure-server commands and an uninstall race; three pids are a
  daemon, its successor and a loser. One upgrade, beside one command (two beside it,
  the scene `Upgrading`, have nearly four hundred thousand states, too many for the
  liveness; what they may never do is a theorem), and one probe that fails although
  the daemon is up. A pid that a command has just seen proven is not
  recycled before the signal (no program could rule that out). A new process
  takes some free pid. `UninstallRead` mints a missing token in one step.
- *HostConfig.* Six machines: clean, left by an earlier release, the user's own,
  unreadable, odd, and one in a project; one edit of the user between any
  commands, each of which may be repeated at will. `PostToolUse` has a matcher,
  `Stop` stands for the events without. A user installs into one scope. Blank
  lines are left out.
- *Inspector.* Three rows, one of which a pull brings, and three or four key
  presses: enough to start a load, change the query and come back before the
  first load ends, and to have a list replaced under a dialog. Writers in other
  processes are left out: no screen could be current with them.
- *Graph index.* Repositories of three files or two packages, each with two to
  four versions, edited without bound: sources and graphs are finite. A fan-out
  cap of one makes two candidates too many. The loader's SSA graph is external:
  a Go package gives its calls.
- *Graph queries.* Five functions in two packages with up to three calls, or four
  of which two leave the function asked about, under caps of two rows, three
  levels and paths of two: every cap is exceeded by one. Nine symbols of both
  tiers for names, packages, types and interfaces. Every question is asked of
  every such graph; the run has 125 749 distinct states.
- Model values that are interchangeable are symmetric in the safety runs. Runs
  with liveness use no symmetry.

CHECK_DEADLOCK is off only where `Close` may end the program and in the
inspector, where the user runs out of keys.

### Fairness

- `GraphManager.FairSpec`: goroutines run; builds end; the stamp cache's TTL
  runs out; agents keep asking. The lock is a channel, whose parked senders are
  served in turn, hence strong fairness for taking it. In the scene `Hung` builds
  do not end: there only WaitBuild's timer and the few lines of `buildAsync`
  under its mutex are sure to run.
- `SchemaLadder.FairSpec`: a command runs to its end, and hooks and servers run
  further ones; nothing is assumed of the operator.
- `SharePool.FairSpec`: an operation under way goes on, and every peer starts a
  server (with its boot fetch) again and again. Strong, since the start is
  disabled while another operation runs.
- `SessionStaging.FairSpec`: a hook process runs to its end unless killed, time
  passes for files nobody writes, and sessions keep starting. Strong for the last
  because a slot may be taken.

- `Daemon.Fairness`: nothing makes anybody start a command: hosts do not
  (cmd_session_hook.go:103-107). A command once started and every serve process make
  progress: probing, spawning, binding, ending the boot fetch (it has a timeout), the
  steps of a shutdown. Nothing makes a tool call end, an upgrade happen or a stranger take a pid. Weak
  fairness is enough: nothing disables these steps for good but their own end.

`Inspector`, `HostConfig`, `IndexBuild` and `GraphQuery` have safety properties
only.

## Proofs

Every invariant and action property that a passing run checks is a theorem, but for
`CallsAreTrue`: those of `GraphHandles`, `GraphManager`, `MemoryStore`,
`SchemaLadder`, `SharePool`, `SessionStaging`, `Daemon`, `HostConfig`, `Inspector`
and `GraphQuery`, and `SymbolsAreTrue` of `IndexBuild`, for every value of the constants their assumptions admit and
every scene. A theorem may have one hypothesis, a fact about
`scene` (in `HostConfig`, about the machines) that never changes. Most scenes of the runs satisfy it, and a configuration
of the list above, with the property in place of its own, has TLC show that the
statement fails without it:

| Hypothesis | Theorem | It excludes | Configuration |
| --- | --- | --- | --- |
| `StaysOpen` | `NobodyIsStranded` | Close, which drops builds without closing `done` | `GraphManager_close` |
| `NoReverts` | `LabelsAreHonest` | an edit that brings an earlier tree back: versions are then no order | `GraphManager_close`, `Undone` |
| `NoUndoing` | `ShapeHolds` | two ladders over a file of version 3 to 7 | `SchemaLadder_backwards` |
| `InTime` | `ShieldHolds` | sessions that do not stage for half an hour | `SessionStaging_renag`, `Slow` |
| `InTurn` | `GateHolds` | these, and hooks of one session that overlap, of which the property says nothing | `SessionStaging_renag`, `Slow` |
| `InOrder` | `EarnedIsKept` | these, and saves that fail | `SessionStaging_renag`, `Failing` |
| `Steady` | `ScreenHolds` | shares that fail, later window sizes | `Inspector_share`, `ResizeScenes` |
| `Apart` of every machine | `HostFilesStayApart`, `HostOnlyOursChanges`, `HostOutcome` | a text or config.toml with a block or table of ours twice, which only a user can make | `HostConfig_mixed`, `Copied` |

Elsewhere what a property leaves out is part of its own statement.

**Assumptions.** The constants are sets with the shapes the modules need
(`HandlesAssumption`, `ManagerAssumption`, `FilesAssumption`, `PidsAssumption`,
`CmdsAssumption`, `RowsAssumption`, `KindAssumption`): finite where the code has
finitely many, with no identifier that is also a "none". Those that say more, each a
fact of the code: an import is never forced and never supersedes, and only an import
carries the time of an author (`StoreAssumption`, save.go:114-118); a database that is there has distinct,
dated rows within its budget (`CorporaAssumption`, schema.go:46); scrubbing is
idempotent (`StoreAssumption`); a lesson is near itself (`PoolAssumption`); the
listener is at most one and the installed build a published one
(`ScenesAssumption` of `Daemon`); the
lines a user adds hold no second table of ours (`HostAssumption`); the edges of a graph join symbols of its table, and caps
and depths are at least one (`QueryAssumption`, the constants of query.go); a walk and
the Go tool list each file and package once, and no file of the mapper has the
extension of a Go file (`IndexAssumption`, mapper.go:74-142).

**GraphHandles.** The safety properties are not inductive alone. `IInv` adds that the
count is exact (`RefsCountHolders`), `HandlesArePrivate` (no two processes, cached or
held, share an entry: otherwise one process's exit would drop another's references)
and that a closed handle is a retired one (otherwise the cache might hand out a closed
one). `RefsCountHolders` relates the count to a set: refs is the cardinality of the
holders, and lemmas `GainHolder` and `LoseHolder` say how one query's step changes it;
`MaybeCloseEffect` is the one fact about `maybeClose` all steps use.

**GraphManager.** `Main` is what everything rests on: the types with the shape of a
caller and a build at each program counter (`Core`); a first build belongs to the
caller that waits for it, and the other way round (`OwnersInv`); the registered
build of a process is the live one, with an open channel (`BuildsInv`); and `IInv`
of the handles, whose module is an instance here, so that its lemmas are used and
not proved again. `ProtocolHolds` then takes the steps one by one and shows each to
be a step of `GraphHandles` or a stutter. The other properties have an invariant
each: `HoldsInv` (who must hold `repoLock`, by program counter), `WaitersInv`,
`BeatenInv` (a beaten build is past its rename, since its successor held the lock
file's flock), `LabelsInv` (every stamp in memory was true of the tree at some time,
and a build read the tree after the stamp it was launched for), and `SettleInv`
(publications only grow, and from the close of `done` on no cached handle has an
older file open). A property of steps goes through one lemma that says what the
step does to builds, callers or files, so that each invariant looks at a handful of
kinds of steps and not at every action.

**MemoryStore.** `Main` has the types, `Sound` (rows are distinct in id and
fingerprint, dated, below `nextId`, and the auto summaries within the budget) and
what a queued save has fixed before it got the lock. Each transaction has a lemma
from `Sound` before to `Sound` after. Retention is ORDER BY with a LIMIT: the lemmas
`Highest`, `FirstAreAbove`, `FirstAtMost` and `FirstAtLeast` say of any strict order
on a finite set that the first n of it are above the others and n of them, or all.

**SchemaLadder.** `SentinelInv` adds to `SentinelMeansScrubbed` that only a file of
earlier versions holds plaintext. For `VersionDescribesSchema`, `LadderInv`
distinguishes a file that a fresh DDL makes, in which the first rung fails, from one
that was there: in the latter a ladder under way works from the version the file
has, or from one whose next rung the file refuses.

**SharePool.** `OfferedInv` follows a line from a save as shared, or a selection,
through the store, the working file and the commit to the remote and back.
`GrowthInv` (by peer: `Keeps`) says that a peer that is past its import has in its
store every line of the version it builds on, and that what it may still take back
never reached the pool.

**SessionStaging.** `EarnedInv`: whatever a hook has read, and whatever a file holds,
a tally is never ahead of the edits. `GateInv`: relative to the last stage, nor is
what a hook knows of it. `ClearInv`: the summary that a hook is about to remove was
declined, fails the gate, or is in the store. `WorksAlone` and `ClearedAreOver` say
who can be at a session's files at all.

**Daemon.** `IInv` adds to the types that a pid about to be signalled belongs to
nobody or to the process that proved the token (`StopIsProven`, `SignalIsProven`),
since between the proof and the signal the process may have ended, and that a call
which outlives its listener was cut (`CallsAreOver`). The lemma `NewTokenExists`
counts the holders of tokens: there are always fewer than tokens, hence a newly
drawn one collides with none. The guard this rests on is the one in `Free`: a pid
just proven is not recycled before the signal. Each step then either leaves the
signal flags and the living alone (`QuietStep`), signals a proven target
(`SignalIsEntitled`), or is an `Exit`.

**Inspector.** A step is one of seven kinds (`StepKinds`). `Sane` has the types of
commands and messages, among them that a generation is never ahead of the counter,
and that every listed row was in the store once. `ListInv`: a list that is not the
answer, with no failure in the status line, has an edit, a load of this generation or
a debounce under way, and what such a load has read is the answer unless an edit is
under way. `PaneInv` says the same of the pane, which may also say that it could not
be opened, except that the row may have been deleted; at rest it has not, for the list
is the answer. `AskedInv` is for deletes.

**HostConfig.** `HostInvariant` is that what is ours stands apart (`Apart`, now of
the files as they are), what the last command left (`OutcomeHolds`), and that the
last command has nothing left to do (`Settled`): with that, a command given twice is
one given to files it has settled. What a command drops is a `Pick`; the lemmas on
`Listings` say what a pass keeps, in which order, and that two passes in a row are
one. `ForeignIsKept` then compares, file by file, the user's part before and after.

**GraphQuery.** There is no state but the graph and an answer, so this is about
what the functions of query.go return. Each loop over levels is a recursive function,
which in TLA+ is whatever satisfies its equation: `WalkExists` and `RecursionHolds`
show that the levels up to any number exist and agree, hence that the equation holds.
Then each loop has an invariant by level (`NoLevelIs`, `LevelStep`, `EveryLevelIs`;
`CallersReach`; `SearchHolds`), and a property of all levels follows from that of a
least one without it (`LeastNumber`). `BallUnfolds` relates a level of the reference
definition to one step of edges. `CallersSaturate` is why callers of callers may stop
where a level adds nothing: a level that adds something makes the set larger, and
no set is larger than the symbols. For paths, `CallerIsInTree` says that each symbol
found has its caller one level nearer, and `ChainHolds` that the way back from the
target along these is a shortest path. The caps come in by `CapFacts` and
`RowsInOrder`: what is shown is the first of a listing, and what is not shown comes
later in its order.

**IndexBuild.** `IndexInv` adds to `SymbolsAreTrue` that all sources are well formed,
those there are and those last read (`IndexTypes`). The heart of it is that the code
decides to carry a file by counting rows of the previous graph, and the history by
counting what the file was when it was read: `CarriedIsLost` says the two agree. That
takes the invariant of the previous graph, and that a file's rows there are exactly
its symbols, each once, in their order, between all the rows of other files and
packages. So the lemmas before it are about sequences: what a pass keeps of a
concatenation is what it keeps of the one part that has such elements
(`HeldOfFlat`), and dropping repetitions commutes with such a pass
(`DistinctOfHeld`). `MapperRows` and `GoRows` follow for the two tiers, `GraphRows` for
the whole, and `TheAccount` for the history. Edges are well founded because what the
ladder finds is a symbol (`HitsAreSymbols`), and because a package whose calls are
listed has type-checked, so that its callees are declared (`GoEdgesWithin`).

**Only model-checked.** `CallsAreTrue` of the graph's edges: it compares what each
file's calls resolve to before and after units were carried, through every rung of the
ladder and over two different lists of symbols. All liveness, since the prover has
neither fairness nor ENABLED. Of `MCMachine` and `MCGraphIndex`, which put independent
parts beside each other to run them at once, nothing is proved but what is proved of
the parts.

## Not modelled

Parsing with tree-sitter and go/packages, directives, implements edges and the
rows of Next.js navigation; ranking by FTS5, hence search and context; FindSymbols, the blast
radius of a diff and the browse listings; rendering and the wording of messages;
the sweep of graph caches (it visits only directories whose repository is gone)
and one handle's answer that mixes two versions of the graph (no statement of the
code promises one version per answer); the choice of a release asset; the pattern
engine of the scrubber. `PROJECT.json` lists each component with its reason, and
under `hazards` what may go wrong where and which property watches it.

## Plan

1. *Done*: graph handles with proofs, graph manager, store writes, schema, pool,
   session staging; daemon, upgrade, host files, inspector; the content of graphs
   and the answers drawn from them.
2. Route matching of `nextjs_navigation.go` and duplicate clustering of
   `doctor.go` as pure algorithms.
3. An abstract "fresh cache" specification implemented by `GraphManager`; an
   abstract store implemented by `MemoryStore`.
4. A proof of `CallsAreTrue`: what is missing is that a call resolves to the same
   names among the symbols of a build and among those of healed files.
