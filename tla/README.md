# Verification of the osquery data warehouse

TLA+ models of the programs in this repository that keep state and run
concurrently, TLC configurations that check them on small instances, and proofs
checked by TLAPS. `PROJECT.json` is the machine-readable index: components,
runs, mutants, the source lines each definition stands for, findings, hazards,
theorems.

    tlasany M.tla                          parse
    tlc -workers 2 -config X.cfg M         model-check
    tlapm SessionManagerProofs.tla         prove; likewise SessionCommandProofs,
                                           ChatAgentProofs, IngestProofs, InitJobsProofs,
                                           SupersetProofs, KafkaProofs, DataLemmas

## 1. The system

osquery clients publish scheduled query results to Kafka; a Flink job writes
them to Iceberg tables (catalog Polaris, storage Garage); Trino queries them;
`data-warehouse-mcp` offers Trino and per-task sandboxes to language models as
MCP tools; `dwh-chat` is the chat application that runs the tool-call loop.

| Component | Source | State it keeps | Operations | What is hard |
|---|---|---|---|---|
| Session manager | `images/data-warehouse-mcp/internal/session` | map of sessions, `LastActivityAt`/`ExpiresAt` and process groups per session, directories, metrics | Create, GetAndTouch, Register/Unregister/KillProcessGroup, SweepExpired, expireSession, cleanupSession | three kinds of threads remove sessions; two locks; RemoveAll may fail; restart |
| Sandbox runner | `internal/sandbox` | the running command, two bounded output buffers | Run | the session may vanish under the command; timeouts; process ids are reused; output pipes outlive the group |
| Tool handlers | `internal/mcpserver`, `internal/config` | none of their own | one handler per tool | they hold a session with nothing that keeps it alive; int64 timeouts |
| Workspace files | `internal/files` | files of a session, published images | WriteTextFile, ApplyEdits, PublishImageFile, path rules | removed directories come back; partial copies |
| Trino client | `internal/trino` | a result file being written | ExecuteInline, ExecuteToFile, SearchTables, GetTableSchema | row and byte limits, temp file and rename |
| Agent loop | `images/dwh-chat/tool_loop.py` | the message history, the open tool group | run_agent, _sanitize_messages | cancellation between two messages; the iteration limit; text between tool calls |
| Chat lifecycle | `images/dwh-chat/app.py`, `mcp_client.py` | user session: MCP session and its exit stack, history, steps and messages shown | on_chat_start/message/end/resume, reconnect | callbacks order, failed reconnect, resume, connections nobody closes |
| Flink job | `images/flink-osquery-job` | schema and spec caches, the per-table generator cache | parse, getOrCreateSchema, CachingGenerator | snapshot rows with different columns, alternating schemas |
| Billing extension | `osquery-extension/main.go` | a cache with an expiry | generateBillingRows | staleness, constraints the cache ignores |
| Bootstrap jobs | `charts/{polaris,garage}/files`, `charts/kafka/templates/ca-init.yaml` | catalogs, roles, keys, secrets, certificates in other services | wait, create-if-absent, update | killed between two calls and run again |
| Superset import | `charts/superset/files/import_resources.py` | none of its own; a dataset, charts and a dashboard in Superset | auth, wait, create or update, remap, link | run again at every sync; ids of another Superset; edits between syncs |
| Event scripts | `scripts/kafka_producer.py`, `kafka_consumer.py`, `os_update_scenario.py`, `kafka_mtls.py` | the last result of each query; versions and counters of the simulated devices; downloaded client keys | fetch, build events, produce, flush, stop; chunks of a fleet; consume | state advances before delivery; a full queue; killed processes |

Interactions: handlers call the session manager, then the runner, the file
functions or Trino with the session they were given; the runner calls back into
the session manager to register its process group; the sweeper and the eviction
goroutines share the session map and the disk with all of them. `dwh-chat`
calls the tools over MCP, one at a time per chat. The scripts and the Flink job
meet only in Kafka.

Every invariant a passing run checks is also proved for all values of the constants, under
the assumptions the modules name; what stays with TLC is liveness, which tlapm cannot
reason about with fairness (`ENABLED`).

Left aside: Helm values, Terraform, the shell around Iceberg maintenance
statements, health checks, Grafana, synthetic data, static assets and the S3
client factory. They configure or wrap other programs and keep no state.

## 2. Plan

Modules, most important first. Runs are one per question; no module that is
proved about has a RECURSIVE operator.

1. `SessionStore` (abstract), `SessionManager` (detailed),
   `MCSessionManager`, `SessionManagerProofs`, `SessionCommandProofs`: done,
   section 3.
2. `ChatAgent`, `MCChatAgent`, `ChatAgentProofs`: run_agent with the message
   handler, its callbacks, cancellation and errors: done, section 4.
3. `RecordParser`, `Ingest`, `MCIngest`, `IngestProofs`: the Flink job's parser,
   caches and generator: done, section 5.
4. `Jobs`, `InitJobs`, `MCInitJobs`, `InitJobsProofs`: the bootstrap jobs of Garage,
   Polaris and Kafka under kills and repeated syncs: done, section 6.
5. `SupersetImport`, `SupersetProofs`: the fourth job, composed with the others in
   `InitJobs`: done, section 6.
6. `KafkaClient`, `EventProducer`, `UpdateScenario`, `KafkaScripts`, `MCKafkaScripts`,
   `KafkaProofs`: the scripts around the topic: done, section 7.
7. `Selection`, a Python list comprehension as a recursive function, shared by the chat and
   the parser, and `DataLemmas`, facts about sequences and sets of every length: done, below.
8. `QueryGateway`, `WorkspaceFiles`: limits, resolveTimeout with its 64-bit
   width, temp file and rename, ApplyEdits against "exactly one occurrence"; `BillingCache`:
   expiry. Not begun, section 8.

### Induction in the proofs

The library's induction theorems take an operator as a parameter, which tlapm cannot
instantiate here. `DataLemmas` has induction over a set instead: a set of numbers that has 0
and with each member its successor has all of them (`NatSetInduction`, from the
well-foundedness of `<`), and likewise for sequences and for the subsets of a finite set.
A proof defines the set of the numbers that have the property and shows that it is all of
`Nat`. With it the recursive functions of the models, `Only` and `FlattenSeq` of the community
modules, and the names given to the columns, exist, are unique and grow by one element at a
time; sorting has a result and only one; the events of a difference are counted. `SelectSeq`,
`SortSeq` and `ToString` have no definition the provers can unfold. The models therefore
select with `Only` and sort with a `CHOOSE` of the stable order, and what `ToString`
must satisfy is an assumption (`SuffixAssumption`). Operators declared `RECURSIVE` stay
out of the modules that are proved about.

## 3. The session manager

### State and actions

`SessionManager` is parameterised by the session ids (`Session`), the tool
handlers that run at once (`Request`), the process ids the kernel hands out
(`Group`), the capacity and the idle timeout.

| Model | Code |
|---|---|
| `mu` | `m.mu`; `None` or the handler inside Create |
| `sessions`, `active`, `created`, `expired` | keys of `m.sessions`; `SessionsActive`, `SessionsCreated`, `SessionsExpired` |
| `ids`, `lastActivity`, `groups` | ids drawn; `meta.LastActivityAt` (`ExpiresAt` is always that plus the timeout, `state.go` 35-36); `processGroups` |
| `dir` | which session directories exist under `cfg.Root` |
| `leaked` | history variable: directories that no cleanup will come back to |
| `scan` | the loop variables of `lruSession` |
| `pc`, `ses`, `grp` | where a handler is, its `*Session`, the process group of its command |
| `phase`, `target`, `kill`, `batch` | each running `cleanupSession`, its session, the groups it read, the sweeper's `expired` slice |
| `proc` | each process id: free; its leader runs; only members of its group run, watched or not (`members`, `orphans`); dead and not reaped |
| `wait`, `stray` | how far the goroutine of `cmd.Wait` is; whether a descendant outside the group holds the output pipes |

Create holds `m.mu` over the extraction, so it is several steps (`CreateBegin` or
`CreateFull`/`ScanOne`/`CreateEvict`, then `CreateFinish` or `CreateFail`) and every action that
takes `m.mu` waits meanwhile. `GetAndTouch` is `Lookup`, `CheckExpired`/`CheckFresh`, `Touch`,
with nothing locked between. `cleanupSession` is `CleanupRead`, `CleanupKill`, `RemoveDir` or a
failure, run by the sweeper, by an expiring handler and by the goroutine of an eviction; the
first two go on to `SweepDrop`, `ExpireDrop`. The runner is `StartCommand`, `RegisterLookup`,
`Register` or `RegisterFail`, `CommandTimeout`, `Reap`, `WaitReturns`, `Unregister`. A command
is more than its leader: `ProcessExit` may leave members of the group behind, and `Escape` is a
descendant that leaves the group (`setsid`) with stdout or stderr open. `Reap` gives the process
id back when the leader is reaped and the group is empty; `WaitReturns` comes later, when the
pipes are closed as well, because `Stdout` and `Stderr` are not files and `WaitDelay` is not set
(`exec.go` 117-118). A registration that fails kills the leader alone and waits for nothing
(130-134): `RegisterFail` leaves the other members of the group as `orphans`. `WriteFile` stands
for `workspace_edit` and for a query written to a file: both make the parent directories again.
`Restart` keeps the directories, because `/sessions` is an `emptyDir` of the pod.

Merged into one step: `KillProcessGroup`'s polling between SIGTERM and SIGKILL;
`updateActivity` with the `writeMeta` that follows it; `UnregisterProcessGroup`
with its lookup. Left out: two equal ULIDs, and files inside a session.

### What is checked

| Run | Instance | Shows |
|---|---|---|
| `session_store` | 3 sessions, 2 handlers, capacity 2, no commands | types, `CapacityBound`, `LiveSessionHasDirectory`, `LeakAccounting`, and that the manager implements `SessionStore` |
| `session_commands` | 2 sessions, 2 handlers, 2 process ids, capacity 1, no clock | `RunningCommandIsWatched`, `TrackedGroupHasOwner`, `HandlersReturn` |
| `session_liveness` | 2 sessions, 2 handlers, capacity 1, 1 restart, no commands | `ExpiredIsReclaimed` |
| `sweep_race` | as `session_store` | a touched session is swept all the same (finding) |
| `lru_race` | as `session_store` | a session just used is evicted (finding) |

Bounds: the clock stops at 2 with a timeout of 1, so a session can expire, be
touched and expire again; each id is drawn once, so the number of ids bounds
the number of Creates; three ids for a map of two give two evictions that clean
at once while the sweeper works on one of them. In `session_commands` the clock stands still,
so a session leaves under its command by eviction; what a sweep or an expiry does to a
command (`CleanupRead`, `CleanupKill`) is the same code in another thread, and the two
invariants are proved for all of them. Two handlers and a map of one make a handler want `m.mu`
while the other holds it in Create, and two commands run at once or one take over the process
id of the other. No run switches the deadlock
check off: the sweeper always has a next step, whatever the bounds stop.

Fairness: goroutines that can run do run (weak fairness of every step of a
handler, a cleanup and the sweeper, whose ticker never stops, `manager.go`
69-82); an extraction ends (a `tar` of a local archive); a `RemoveAll` the
sweeper retries for ever succeeds at last (strong fairness of
`RemoveDir(Sweeper)`, the assumption behind the comment at 212-213). No handler
is obliged to be called, to start a command or to finish with its session, and no
process of a command is obliged to end.

What the properties admit, because the code does it:

- `TrackedGroupHasOwner` says that a session tracks a group only while a handler is in Run with
  it, and that the process id is no other command's *until Wait has reaped it*. Between the
  reaping and the deferred `UnregisterProcessGroup` (`exec.go` 135-149) the id is still tracked
  and the kernel may have handed it out again; a cleanup, or the timeout's own kill (148),
  that comes in this window signals whatever has it. The steps are in the model. No statement of
  the repository forbids the signal, so no property refutes it.
- `HandlersReturn` excepts a handler whose command has a descendant outside the group that
  holds the output for ever: the kill at the timeout does not reach it, and Run waits for Wait
  all the same (149).
- `RunningCommandIsWatched` excepts the orphans of a registration that failed.
- A restart leaves every directory to nobody (`NewManager` does not look into `cfg.Root`).
  `Restart` counts them as leaked by assignment, so `LeakAccounting` says nothing about restarts;
  its content is the other leaks.

### What is proved

`SessionManagerProofs` proves, for every finite set of ids and any handlers,
process ids, capacity and timeout, from the three assumptions of
`SessionManager`:

- `TypeCorrect`: `Spec => []TypeOK`
- `Capacity`: `Spec => []CapacityBound`
- `DirectoryOfLiveSession`: `Spec => []LiveSessionHasDirectory`
- `Refinement`: `Spec => ImplementsStore`

None of the properties is inductive. `IInv` adds who holds `m.mu` (`HolderInv`:
exactly the handler that scans or extracts), which sessions a thread may work on
(`ControlInv`: only ids that were drawn and whose Create is over), that an
eviction goroutine cleans a session that has left the map (`EvictorInv`), that
what `lruSession` found is still in the map (`ScanInv`) and that a Create that is
extracting still has room (`RoomInv`). The capacity then follows because
`HolderInv` leaves room for one Create at a time. The metrics are proved through the
refinement: every step of the manager is a step or a stutter of `SessionStore`
(`StepStore`), and `active = Cardinality(sessions)`,
`created = active + expired` is an invariant of the store (`StoreMetrics`), so
`SessionsActive` never goes below zero.

`SessionCommandProofs` builds on that invariant and proves

- `Watched`: `Spec => []RunningCommandIsWatched`
- `Tracked`: `Spec => []TrackedGroupHasOwner`
- `Leaks`: `Spec => []LeakAccounting`

each with a part of its own: `WatchInv` (the process id of a command the kernel still
has is not free, and no other handler owns it), `TrackInv` (only a session whose Create
is over tracks groups) and `LeakInv` (a directory outside the map is accounted for
by a Create or by a cleanup that is not the sweeper's, and a cleanup about to drop
its session has removed the directory or leaked it).

Only model-checked: the liveness properties, which are out of the prover's reach.

### Findings

- `sweep_race`: `SweepExpired` does not read the expiry again before it cleans
  (`manager.go` 211-214), although "every tool call refreshes the timer"
  (`tools.go` 86).
- `lru_race`: `lruSession` does not return the least recently used session when
  a handler touches one during the loop (`manager.go` 257-262).

## 4. The chat

### State and actions

`ChatAgent` is one chat: the handler of `on_message` (an asyncio task), the loop
`run_agent` it awaits, the callbacks the loop calls back, and the handlers of the
chat's life. It is parameterised by what a provider may reply (`Rounds`, the ids
of the tool calls of one reply, which may be empty and may come again in a later
round) and by the iteration limit.

| Model | Code |
|---|---|
| `chat`, `link` | the user session (`mcp_session` set or not), and whether that MCP session works |
| `msgs` | `messages`, shared by the handler and the loop: role, tool calls, the call answered, whether there is text |
| `pc`, `todo`, `answer` | the await the handler is at, the calls of the round still to run, whether the final text is empty |
| `iteration`, `forceFinal`, `inGroup` | locals of `run_agent` |
| `ui` | the items of the thread in the order they were sent: kind, turn, whether a tool group is still open, whether the data layer has the content (`no`, `yes`, or `failed` when the one update that would have put it there failed) |
| `groupStep`, `response`, `closed` | `group_step`, `response_msg`, `closed_msgs` of `on_message`, as positions in `ui` |
| `mcp` | the exit stacks of `connect_mcp`: those open, the one in the user session, and, as history, the open ones nobody will close |
| `broken` | history variable: turns that failed or were cancelled |

A turn is `Send` (or `Refuse`), `EnsureOk` or `EnsureLost` with `Reconnect` or
`ReconnectFail`, then `Request`, a reply (`ReplyTools` or `ReplyFinal`), for each
round `ShowText` if text breaks a group, `ShowResult` and `RecordResult` for each
call, `FinishRound`; at last `Finish`. `Cancel` may strike wherever the handler awaits.
`AgentError` is what `on_message` catches (`app.py` 477-481): the provider, a tool or a callback
raises, at any await of `run_agent`; removing the streamed message and sending the warning
may raise again. `Finish` saves the response and then the closed texts one by one, and
the failure of one of these updates is swallowed (490-495), so any subset of them may stay
unsaved; `FinishFail` is a response that cannot be saved, outside the `try`, or a cancellation in
between (484-495). `ChatEnd` may come at any time; `Resume` reopens the
thread with the history rebuilt from its items, in a user session that is empty, once
the browser has left the session before.

`connect_mcp` enters the transport and the session on an exit stack that is only its
local until it returns (`mcp_client.py` 55-66). If it raises, or the task is cancelled in
it, before or after it entered anything (`Broken`), the stack is lost; so is one that is
stored after `on_chat_end` ran (`Reconnect` when the chat has ended). `aclose` swallows
what closing raises (79-84): the caller goes on as if the connection were closed (`Closed`
is `Close` or `CloseFailed`), and since an `AsyncExitStack` has given its callbacks away by
then, nothing closes it later.

Merged into one step: the streaming of one reply; the tokens of one text; the two
sends of `on_tool_result`. Left out: the title task, reasoning content, the
truncation of results, and two handlers of one
chat at once (the chat page sends the next message when the task has ended).

### What is checked

| Run | Instance | Shows |
|---|---|---|
| `chat_agent` | 2 turns, limit of 2 rounds, rounds of three calls (one without an id), 1 resume | `HistoryWellFormed`, `OpenItemIsLast`, `GroupFlagAgrees`, `CompletedTurnIsSettled`, `ConnectionsAccounted`, `LimitEndsTurn` |
| `chat_liveness` | the same with 1 turn | `TurnEnds` |
| `chat_text` | as `chat_agent` | text before the first tool of a turn is never streamed (finding) |

`ChatAssumption` says that the calls of one reply have different ids, but for those without
one. The code relies on the provider for that: `_sanitize_messages` matches results by id
(`tool_loop.py` 32-38), so the result of one of two calls with one id would hide that the other
was cancelled. Ids may come again in another round, and in the run they do.

Bounds: two turns let a history broken in the first one be repaired in the
second; two rounds with the same ids test that a result counts only in the block
of its own message, and reach the limit; three calls let a round be cut before,
between and after its results; the call without an id is the one
`_sanitize_messages` does not patch; `MaxLost` is 1, so that a stack can be lost, or its closing
fail, and another be opened, stored and closed beside it. Every turn begins in the same way, so
one is enough for `TurnEnds`. `CHECK_DEADLOCK FALSE`, because a chat may end
for good.

Fairness: `WF_vars(Handler)`. The event loop runs a task that can run, and a request to the
provider ends, at its client's timeout if not before, in an answer or an exception. That a tool
call ends is an assumption: `call_tool` is given no read timeout (`tool_loop.py` 173), so it is
the server that must answer. Nothing obliges the user to send, to stop or to leave.

### What is proved

`ChatAgentProofs` proves `OpenItem`, `GroupFlag`, `Limit` and `Settled`, that is
`[]OpenItemIsLast`, `[]GroupFlagAgrees`, `[]LimitEndsTurn` and
`[]CompletedTurnIsSettled`, for every set of replies, any limit and any number of
turns. The four are inductive only together with `Locals` (which locals are at rest
where: a text is never open when a round has nothing left to run, and no group is
open when the handler finishes) and `Marks` (an item that is open or unsaved belongs
to a turn that failed, is held by a local of the turn that runs, or is a text with tools of
its turn below it whose update failed). `Settled` therefore says of a completed turn that no
group is open and that a text is missing from a reopened thread only if its update was
swallowed, which the final reply's cannot be: a response that cannot be saved fails the turn.

`Connections` proves `[]ConnectionsAccounted`: an open connection is the stored one or one of
those lost to a connect that failed or came too late or to a close that failed, and a loop
that runs holds one that is open and will be closed. `LinkInv` adds that a handler in
`_ensure_mcp` that is about to reconnect has given up the stack it had, and that a chat
whose session works holds an open one.

`History` proves `[]HistoryWellFormed`. `HistoryInv` says what holds between the repairs:
every result in the history stands in the block of the message that called for it, once
(`Answered`), although calls may lack results; while a round is executed the results of the
last message are those of its first calls, in their order, and `todo` has the others
(`Pending`). A cancellation can strike anywhere, so `Complete` holds only where the history
is sent. `SanitizeCompletes` is the lemma about `_sanitize_messages`: each message that is no
result becomes a block, its own results followed by the placeholders for the others, and a
concatenation of blocks is complete (`JoinBlock`, `FlattenBlocks`). `ChatTypes` proves
`[]TypeOK` with what the others leave open (`TypesInv`): the round that reaches the
limit sets `forceFinal`, so no round passes it.

Only model-checked: `TurnEnds` (liveness).

### Findings

- `chat_text`: `if content and in_group` (`tool_loop.py` 162) drops the text of a
    reply with tool calls when no group is open, which is the first round of a turn,
  although "stream_callback receives tokens for the final (and any mid-loop) text
  response" (82-83).

## 5. The Flink job

### State and actions

`RecordParser` is `OsqueryRecordParser` as operators: from a message, and what the
identifier cache remembers, to a table, columns and rows. `Ingest` is the job between
Kafka and the sink. A message is the sequence of its fields, a payload row the set of
its keys, an identifier the sequence of its words (`uid_2` is `<<"uid", "2">>`), and a
cell of a row is named by where its value comes from, so a value under the wrong
column shows.

| Model | Code |
|---|---|
| `turn`, `consumed`, `inbox` | the single source, `rebalance()` and the buffers to the parser subtasks |
| `memo` | `identifierCache`: for the strings that need a prefix, the kind the cached result was computed with |
| `heap` | the columns of each `Schema` object; objects are compared by identity, so an object is a position |
| `schemaCache` | the objects the subtask has made, one for each signature |
| `pending` | the rows `flatMap` has still to collect |
| `canonical` | `tableSchemas` of `CachingGenerator` |
| `processed`, `dropped` | `rows_processed` of each table, `messages_dropped` |
| `out`, `parsed` | history: records given to the sink, messages `flatMap` was called with |

`Read` deals a message out. `Drop`, `DropUnpartitioned`, `FlattenNothing`, `FlattenCached` and
`FlattenNew` are a call of `flatMap` up to its loop: parse raises before it has a Schema, or at
the PartitionSpec when the Schema is cached already, finds no payload row, finds the
Schema of the signature or makes it. `Collect` is one round of the loop: the chained
output copies the record, which makes a new Schema object (`OsqueryJob.java` 170-174),
`generate` replaces it by the canonical one or makes it canonical. `Evict` stands for the
limit of the identifier cache.

Modelled from how the code uses it: Iceberg's `Schema` raises on two columns of one
name, and `day(meta_time)` (`OsqueryRecordParser.java` 403-412) on a column that is called
`meta_time_day` already or a `meta_time` that is no timestamp, which it is when the message has
no `unixTime` and a payload key is `meta_time` (`HasPartitionSpec`). Such a message is dropped.
Left out: values of fields, checkpoints and offsets (Flink's own).

### What is checked

| Run | Instance | Shows |
|---|---|---|
| `ingest` | 2 subtasks, any 3 of 12 messages | `StableReference`, `RowsAccounted`, `UniformRowsFit`, `SameFieldsSameRows` |
| `snapshot_rows` | the same, 2 messages | a snapshot row with other keys than the first does not fit its Schema (finding) |

Bounds: the twelve messages hold every collision of names (payload with payload, with a suffixed
name, with metadata; metadata with the column of `unixTime`; with the partition by day), the
same fields in two orders, a null, an empty, an uneven and an overridden snapshot, both ways to
drop, and a string that needs a prefix as query name and as key. Three messages give one subtask
two, which is what a cache needs to matter; rows of other tables in between, and longer streams,
are covered by the theorem rather than the run. `CHECK_DEADLOCK FALSE`, because the bounded
stream ends.

`SameFieldsSameRows` excepts messages with a string that needs a prefix and serves as query name
and as key (`Clashing`): `identifierCache` (492-509) is keyed by the string alone, so such a
name depends on the history of the subtask. That is the bad case of this hazard, and without the
exception TLC refutes the property; what is checked is that nothing else depends on it. It
speaks of messages with one name and one payload, because the last one of several wins. The same
cache decides whether a message is dropped: two metadata fields have one column or two depending
on which kind the cache has. `RowsAccounted` therefore names the messages that were `kept` and
asks of each that it be `Usable` with something the cache may remember (`Memory`: a kind only
for strings that serve as that kind). Usable says what keeps the partition possible in terms of
the message (`KeepsTime`): no key of the first row may be `meta_time_day`, or `meta_time` in a
message without `unixTime`, whatever else its columns are called. The attempt to prove these two
properties showed that versions without this were false for other constants than those of the
run.

### What is proved

`IngestProofs` proves all four for any messages, any number of them, any strings and any
parallelism. The assumptions are what the parser guarantees of its data: `ParserAssumption`
(keys and words are listed once, in the order of strings; the words of a string are words),
`IngestAssumption` (a message is a sequence of fields, names and keys are among the strings)
and `SuffixAssumption` (different numbers are written differently, for as many as a message
needs, and none as a word of `meta_time_day`).

- `Reference`, `[]StableReference`. The property speaks of the past only; `CanonicalInv`
  adds that the object of the last run of equal columns of a table is the canonical one, and
  `InHeap` that every object given has its columns in the heap, which never change.
- `IngestTypes`, `[]TypeOK`, with `RecordsInv`: the cache of a subtask is in `Memory`, and
  every record on its way or in the sink was `Made` by a parse, with some such memory, from a
  complete message, and its Schema has the columns of the message's first row. The other
  three rest on `TypesInv`, these together.
- `Uniform`, `[]UniformRowsFit`. `Made` gives the columns and the cells by the same
  formula; the lemmas are that the name given to the i-th payload column is free of all before
  it and is that key's name or has one of the first i suffixes (`PayloadNames`, from the
  pigeonhole lemma `OneIsFree`), so that columns differ, and that cells lie in that order.
- `Rows`, `[]RowsAccounted`, which is inductive with `TypesInv`. `Account` relates the list of
  parsed messages, those kept, the rows out and pending and the two counters; each action
  either moves a row (`AccountMoves`), drops a message (`AccountDrops`) or adds the rows of one
  (`AccountAdds`).
- `FieldOrder`, `[]SameFieldsSameRows`. `Before` is a strict total order of identifiers
  (`BeforeTotal`, `BeforeAsymmetric`, `BeforeTransitive`), the names of metadata columns that
  make a Schema are different, and a set is listed in ascending order in one way
  (`SortedUnique`), so the order of the fields does not show (`SameMeta`); a string that is
  not in `Clashing` has one identifier, whatever the cache has (`OneIdentifier`).

### Findings

- `snapshot_rows`: rows 2..N get the Schema of row 1 and data laid out by their own keys
  (`OsqueryRecordParser.java` 241, 366-372).

No run is about the canonical metadata columns: nothing in the code adds those that the class
javadoc promises (72-78, 256-266), so tables get them, with the type of the first value that came,
from the messages that have them.

## 6. The init jobs

### State and actions

`Jobs` is what Kubernetes and Argo CD do with the jobs, `SupersetImport` the import of
the dashboard, and `InitJobs` adds garage-init, polaris-init and kafka-ca-init and composes
the four. The constants are the sets of jobs deployed together, the `backoffLimit` of
each job, the attempts of a wait loop, the number of catalog roles, what is in
`resources.json`, and bounds on kills, syncs, certificates and edits.

| Model | Code |
|---|---|
| `job`, `failures` | a Job and its failed pods (`backoffLimit`, `restartPolicy: Never`) |
| `at`, `tries` | the statement the script of the pod is at, attempts of its wait loop |
| `garage` | what the calls of `garage-init.py` find and change in Garage |
| `layoutVersion`, `key` | `layout_version`, `access_key_id` |
| `secret` | the key in the Secret `garage-s3-credentials` |
| `polaris` | what the calls of `polaris-init.py` find and change in Polaris |
| `s3Key`, `role` | `S3_ACCESS_KEY` of the container, the role the loop is at |
| `kafka`, `source` | the CA and annotations in the two Secrets of Strimzi, the CA in `/ca` |
| `superset` | what the requests of `import_resources.py` find and change in Superset |
| `import` | `dataset_results`, `chart_results`, `dash_id` and the loop over the links |

Each action is a call or a command, in the order of the script. A look-up and the
creation that depends on it are one step: the job is the only writer, so a pod killed in
between leaves what a pod killed before leaves. `KillPod` may come before or after any
step, and so also stands for a call that was served but not answered. `PodFails` is a
script that raises: the last attempt of a wait, or Garage refusing a call.

From how the scripts use them: Garage refuses data calls until it is healthy, and becomes
healthy only with a layout; it applies only the next version; `kubectl create` refuses
what exists; a container is not made without the Secret its env names; the mounted CA
changes when cert-manager renews it. Left out: the entity version and storage
configuration of the catalog (there is one writer), the copy of the Secret to other
namespaces, two pods of one job at a time.

The import, in `SupersetImport`, is a step for each create-or-update: `Login`,
`WaitForSuperset`, `EnsureDataset`, `SkipDataset` or `DatasetRefused`, for each chart
`UpdateChart`, `CreateChart` or `ChartRefused`, `EnsureDashboard`, and `LinkChart` for each
chart; `SupersetGone` is any request that cannot be sent. The two remapping functions are
operators over an exported dashboard: a node's key and a chart's uuid are pairs that tell the
export from this Superset, the number of a chart is the number Superset gave it, and one counter
for all it makes lets the second chart of the export have the number the first has here. `Edit`
is the administrator and the users, who change things between two runs of the job: the database
is renamed, the dataset, a chart or the dashboard is deleted, or one of the four lists grows
past a page (`crowded`). `SupersetDown` and `DeadlineExceeded` (`activeDeadlineSeconds: 300`)
come out of the budget of the kills.

Worth knowing about the code, and so in the model:

- `auth()` comes before `wait_for_superset` (373-374) and does not retry: the wait loop
  has something to wait for only if Superset goes away right after the login, and a pod
  that is too early simply fails.
- When the database is renamed the dataset is skipped with a message (112-114), the
  params of charts that exist become `None__table`, and the job completes all the same.
- An existing chart gets new params; its `datasource_id` stays that of the dataset it was
  created with (185), also when that was deleted and made again. `ChartsBound` is therefore
  about the params, and about nothing else. A refused `main_dttm_col` is a warning (125-127).
- The list of charts may have no uuids; then the layout keeps the exported one.
- The look-ups read the first page of each list (92, 100, 164, 312). In a list that is
  `crowded` a look-up may find what is there or not (`NotFound`): a chart or a dashboard is then
  created a second time, a dataset is refused by Superset and the script dies
  (`DatasetRefused`), a database that is not found makes the import skip the dataset.
  `ImportedOnce`, `DashboardComplete`, `ChartsBound` and `ImportConverges` say which lists must
  fit a page. The dataset needs no such premise in `ImportedOnce`, since Superset refuses
  a second one.

### What is checked

| Run | Instance | Shows |
|---|---|---|
| `init_jobs` | 2 kills, 1 sync, 2 roles, 1 renewal, 2 charts, 1 edit | `PublishedKeyWorks`, `CompleteMeansReady`, `SkipIsSafe`, `ImportedOnce`, `DashboardComplete`, `ChartsBound`, `CredentialsStable`, `Converges`, `ImportConverges` |

Jobs that share a service are deployed together, the others each on its own
(`MCDeployments`): no step of one changes what another of a different set reads. Two
kills let one pod leave something half done and the next be killed while it
repairs it; two roles, or charts, let one be finished and the other not. A third kill
adds nothing a script could tell from the second, since scripts remember nothing; the
theorems have no bound. One edit and one sync make the import meet what it left with a
part missing, and with charts whose numbers overlap the exported ones. `backoffLimit` is 2 and
1 instead of 10, 3 and 6, so that jobs can also fail. `CHECK_DEADLOCK FALSE`: jobs end.

Fairness: Kubernetes makes pending pods, and a script that can take a step does; the
wait loops are bounded and every request ends. No fairness for services, kills,
syncs and renewals: the two liveness properties say what follows once the services are
there. `Converges` claims completion of garage-init only when Garage is healthy: the pod
after one that gave up in `wait_for_healthy` finds the roles, does not wait (176-197) and
may be refused. `ImportConverges` speaks of a pod that is still to start: one that
runs when the database appears may have skipped the dataset and be refused a chart.

### What is proved

`InitJobsProofs` proves `TypeOK`, `PublishedKeyWorks`, `CompleteMeansReady`, `SkipIsSafe`
and `CredentialsStable` for every value of the constants. The invariant has a part for
each script, and each part says what holds at which statement: `KeyInv` (there is at
most one key; from `allow` on it exists, from `secret` on it is allowed), `GarageDone` and
`PolarisDone` (what is done once the script is past it; `PolarisDone` counts the roles
before the one the loop is at), `KafkaInv` (while the Secrets are made anew the key has no
annotation, and before it gets one it is no older than the certificate). A kill puts the
script nowhere, where these say nothing, so what they say of the services must hold by
itself.

`SupersetProofs` proves `ImportTypes`, `ImportedOnce`, `ChartsBound` and `DashboardComplete` for
any number of charts, kills, syncs and edits, with lists that may outgrow a page at any time.
`ImportInv` is the type of what the script holds with the numbers Superset gave (a new number is
larger than all, so a new chart cannot be an old one), the bounds of the two loops at each
statement, and one resource of each name while its list fits a page. `BoundInv` says what holds
past the dataset: either the script holds the dataset that is there and the params of the charts
it is past name it, or it holds none, and then the database was renamed or not found, or there
are no charts yet.

`Dashboard`, `[]DashboardComplete`, is for any exported dashboard that satisfies
`ExportAssumption`, which states what `resources.json` and `OLD_CHART_REFS` are: a layout whose
nodes list their ancestors, a node for each chart with its old number and uuid, and scopes in
which each chart filters all the others. `BoardInv` says that no two charts have one
number, that the results the script holds are those of the charts of these names, that the
dashboard is the one made from them, and that the charts linked so far know it. The rest is about
the two remapping functions: an old number is mapped by its place, however the old and
the new numbers overlap (`IdMapped`); different keys stay different (`KeysDiffer`), so the
layout stays a tree (`TreeMapped`).

Only model-checked: `Converges` and `ImportConverges` (liveness).

## 7. The scripts around Kafka

### State and actions

`KafkaClient` is what the scripts share: `get_mtls_config` and, from how the scripts use
it, librdkafka's queue and the broker. `EventProducer` is `kafka_producer.py`,
`UpdateScenario` the workers of `os_update_scenario.py`, each with a producer of its own.
`KafkaScripts` composes them: `program` says which of the two runs, and
`kafka_consumer.py` reads what the first writes.

| Model | Code |
|---|---|
| `secret`, `cert`, `dirs` | the certificate in the cluster, the one a process has without its key, the processes whose `_temp_dirs` exist |
| `at` | what a process is doing |
| `queue`, `topic` | what librdkafka accepted and has no acknowledgement for; what the broker has |
| `lost`, `repeated` | history: messages that will not be in the topic, or are there twice |
| `states`, `due`, `payloads`, `running` | `QueryState` of each query, the queries of the round, `payloads`, `running` |
| `life` | which start of the script this is; the code tells them apart by nothing (`epoch` is always "0") |
| `tick`, `todo`, `device`, `total` | `tick`, the rest of `serials`, `current_version`/`counter`/`device_local_day`/`device_day_flags`, `total_events` |
| `dropped` | history: records of each device given up with "Buffer full" |
| `consumer` | the consumer's position and what it printed since its last assignment |

A result is a bag of rows, and `BuildEventPayloads` gives the events of the difference
between two bags. `RunEventQuery` remembers the new result and advances the counter in the
step that builds the events (`kafka_producer.py` 200-202), before `Produce` takes one after
the other; a full queue raises `BufferError`, which nothing catches, and the script dies
with the rest. `CheckIn` advances the device's counter before the record is accepted;
`Retry` tries once more after `poll(1)` and drops the record. What the scenario draws at random
(days off, windows, upgrades, missed check-ins) is a choice. Faults: a renewed
certificate between the two downloads, a failed download or query, a killed process, a
message that is repeated, overtaken or expires. librdkafka does the last three
because the scripts set neither `enable.idempotence` nor a limit on requests in flight.

The uptime query's fallback gives a result like any other, but a `sysctl` that does not answer in
time raises what neither the fallback (131) nor the loop (257) catches: `QueryDies`.

Left out: killing the parent of the pool (a killed worker is modelled: `pool.map` then waits for
ever, so nothing is promised about the parent); batching by size; a queue place is given back at
the acknowledgement, in librdkafka when the delivery report is polled, which the producer does
at least once a round and a worker after every thousand records.

Worth knowing about the code:

- A killed process, a worker ended by its pool (workers leave with `os._exit`) and a SIGTERM
  before the handlers are there leave the temporary directory with the client key, although
  `kafka_mtls.py` 3-4 says that it "is cleaned up on exit". `End` says which process leaves it;
  no property repeats that.
- Certificate and key are fetched by two calls (119, 122), so a renewal in between gives a pair
  that does not match, and the script dies in the constructor of its producer.
- A restart of the producer begins with an empty result and counter 0 under epoch 0 (159),
  without any event that says so: a reader who goes on adding up counts rows twice.
  `EventsAccounted` therefore speaks of the messages of one life. `ConsumerSeesState` does not
  look at lives, as a reader cannot: it adds up all that the consumer printed, and its premise
  is that the consumer was assigned after what earlier starts sent and before what this one
  sends. A consumer that was assigned earlier has no such promise.
- What a full queue, an expiry or a kill loses is lost for good; `EventsAccounted` records it as
  lost and says that nothing else is missing. It does not say that nothing is lost.
- `upgrade_probability` looks at the release only of versions with an enforcement date
  (123-127); `UpdateScenarioAssumption` states what `VERSIONS` satisfies, that the others are
  out from the start.

### What is checked

| Run | Instance | Shows |
|---|---|---|
| `kafka_scripts` | 2 queries, 2 rounds, 2 lives, or 2 workers, 2 devices, 2 ticks, 3 versions; queue of 2, 1 fault, 2 assignments | `EventsAccounted`, `ConsumerSeesState`, `FleetIsConsistent`, `ScriptsEnd` |

Bounds: a result has up to two copies of one row, so that a difference is none, one or two
events of either kind (rows do not interact; `Rows` is 1), and a round of two queries can fill the
queue of two (`Capacity`) in the middle of a difference. Two rounds give a difference of two
results, two lives a restart. One fault (`MaxFaults`) can fall anywhere. Two ticks
around a change of day, with two timezones, let the day of one device change and not
the other's, one of them west of UTC, where the first local day has a negative number (so
`device_local_day` is the empty sequence before the first check-in and no number stands for
that); of three versions one is never held back and one comes out at the second tick.
Either both devices are in one chunk or each has its own. `ChunksPartition`, a part of
`FleetIsConsistent`, is about the fleet of the run, and the theorem about fleets of any size.
The consumer reads only once the producer has ended, which loses nothing: what is in the
topic does not change afterwards, and its assignments may come at any time. In the
behaviours of the producer the fleet, which does nothing, has one form.
`CHECK_DEADLOCK FALSE`: scripts end, and a killed worker does not come back.

Fairness: `WF_vars(Proceed(p))` for each process: its script and librdkafka's thread go on;
downloads, queries and the producer's last flush have timeouts, and the broker answers in
the end. Nobody is obliged to stop the producer: `ScriptsEnd` says what follows when
somebody did.

### What is proved

`KafkaProofs` proves the four invariants for any numbers of workers, queries, rows, devices,
lives and faults and any capacity.

The theorems are `KafkaTypes` (`TypeOK`), `Events` (`EventsAccounted`), `Consumer`
(`ConsumerSeesState`) and `Fleet` (`FleetIsConsistent`); they follow from one inductive invariant,
`IInv`. Its heart is a conservation law. `Tally(p, P)` is the number of messages of a set `P`
that process `p` has in the topic, in the queue, built or lost, those repeated apart. A step that
moves messages (`Quiet`: librdkafka's, the end of a process, a download) leaves every tally as it
is (`Flows`; `AcknowledgeFlows`, `RepeatFlows`, `ExpireFlows`, `EndFlows`, `ProduceFlows`); the
few that make messages change it by what they make. On it rest

- `Accounts`: the tally of the events added, less those removed, of a query and a row is
  the number of such rows in its last result, and of the events of a snapshot's counter is one;
- `Printed` and `Consumed`: what the consumer has is the topic from its assignment on, so where
  that is this life's messages, with nothing on the way, lost or repeated, its sums are the tallies;
- `FleetInv`: what a worker counted is the tally of its devices' reports, and a device's
  counter the tally of its own, the dropped ones and the one that waits;
- `SentInv`: of what a device has sent, versions grow with the counter and one counter is one
  record, also while the last record is still held back;
- `WorkInv` and `Mail`: a worker has checked in no device twice in a tick and reports only
  devices of its chunk; `TypeInv`: capacities and types.

That the chunks partition any fleet (`ChunksCover`) is arithmetic about the quotient.
`dropped` is counted per device, so that a gap in the counters of one device cannot be
balanced by a drop of another's record.

Only model-checked: `ScriptsEnd` (liveness).

## 8. Not modelled

- Trino client, `resolveTimeout` and `wrapTool`, ApplyEdits, the path rules and
  PublishImageFile: sequential code over files and limits. Hazards there that no property
  covers: `ExecuteToFile` writes a temporary file and renames it (`trino/query.go` 61), and
  an error in between must leave neither; `resolveTimeout` multiplies seconds by 1e9 in
  int64 before it compares with the maximum (`mcpserver/server.go` 120).
- The billing extension: a cache with an expiry that does not look at the month a query
  asks for (`osquery-extension/main.go` 52).
- In the chat: the title task (`app.py` 500-524), a background task that writes the
  thread's name once; the data layer that
  replaces unknown profiles of stored threads (42-97); the profile list; the
  patch of anyio's cancellation in `mcp_client.py`, which is about the time a callback takes.
- In `ca-init.yaml`, a certificate renewed between the two `kubectl create` commands (62)
  puts the old certificate beside the new key and the job completes; that is in
  `InitJobs`, where the next run replaces both (`SkipIsSafe`), but nothing in the repository
  says when that is.
- Iceberg maintenance, health check, Helm values, Terraform, static assets and the S3
  client factory: shell, configuration and text without state of their own.
