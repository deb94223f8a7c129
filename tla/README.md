# TelegramMCP in TLA+

TelegramMCP gives Claude Code a Telegram bot: an MCP server with tools to send
messages and to read a local history, an updater that fills that history, and a
hook, `tg-hook`, through which a user answers Claude from Telegram. This
directory has models of its parts, TLC configurations that check them on small
instances, and TLAPS proofs of their main properties for every instance.

Paths below are relative to `src/crates/`.

## The system

One server process runs for each Claude Code session. All servers of a user use
one bot and, by default, one SQLite file. A hook is a short-lived process that
Claude starts and waits for.

| component | state it keeps | operations |
|---|---|---|
| updater (`tg-updater/polling.rs`, `mapping.rs`) | offset in memory and in `kv`, backoff | poll, map, record, persist |
| Telegram client (`tg-client`) | none | `getUpdates`, send, edit, forward, delete, download |
| history store (`history`) | `messages`, FTS5 index, `chats`, `kv` | record inbound, insert, touch, mark read, page, search, retention, trims |
| tools (`mcp-server/main.rs`) | none of their own | check the target, call Telegram, mirror; read the history |
| retention task (`mcp-server/main.rs`) | none | `enforce_retention` every six hours |
| migration (`history/schema.rs`) | the tables and `schema_version` | read the version, create, stamp, commit |
| pipe server (`local-pipe/server.rs`, `discovery.rs`, `auth.rs`, `security.rs`) | the discovery file, the pipe, the token | publish, claim, accept, back off, authenticate |
| process table (`local-pipe/process.rs`) | none: the machine's | snapshot, ancestry |
| hook (`tg-hook`) | baseline, timers, the pipe | find the server, ask, send chunks, wait, poll, hand over |
| hook's watcher (`tg-hook/local_input.rs`) | its ancestors, a snapshot of the processes | is the user back at this application? |
| hook's questions (`tg-hook/question.rs`) | the questions | number the options, read an answer |
| configuration, aliases (`mcp-server/config.rs`, `aliases`) | constants after start | load, validate, resolve |

How they interact:

- updater, tools and retention meet in the store, in one process under a mutex
  and between processes under SQLite's locks;
- Telegram holds updates until a request with a higher offset forgets them;
- a hook finds a server through a directory of files, connects to its pipe, and
  then uses the same tools as Claude; it learns of replies only by polling the
  history that some updater fills;
- hooks, servers and other programs share the pids of the machine;
- a server opens the database before it serves its pipe, so that what goes wrong
  in the one decides whether hooks find the other.

What is hard, and what makes each part correct:

- **Updater.** Crashes between writes and the persisted offset; failing writes;
  several pollers of one bot. Nothing may be forgotten by Telegram, or skipped
  by a restart, that no process has handled; replays must not bring old texts
  back; after errors it must get on.
- **History.** An external-content FTS index that must be told old texts in time;
  rowids that are used again; trims that commit in two parts; clients that page
  while rows come and go. Search must overlook no stored text but for its limit,
  pages must neither skip nor repeat, and only what the user sends may become
  unread.
- **Tools.** The message is sent before it is mirrored, in two transactions, and
  calls run side by side. What is reported must be in the history, the history
  must not have what Telegram refused, targets must be allowed.
- **Hook.** Replies that come among the chunks, before the question, between two
  questions, or several times; a broken pipe, a timeout, a user who comes back
  to the keyboard. What Claude is told must answer its question, each reply
  once and in order, and the hook must end.
- **Discovery.** A file that is written in place and removed by others; killed
  servers; pids used again; sessions inside sessions. A hook must find its own
  session's server if it has a record, never talk to another session's unless
  that is all there is, and clear what is stale.
- **Start-up.** Servers that open a new database at once: each reads the version
  before it has the write lock. Kills between two statements of the schema. The
  schema must be whole or absent, and the loser of the race must get on when it
  is started again.
- **Pipe.** One instance on offer at a time, gaps between two of them, clients
  that connect and say nothing, instances that cannot be made. An honest hook
  that comes again must be served; pauses must stay short.
- **Local input.** Pids used again, parents that have exited, a snapshot that is
  kept. Only a window of the hook's own application may release Claude.
- **Answers and settings.** Replies in several messages, of which a poll finds
  some; numbers of many digits; responses with characters of several bytes. What
  the user typed is what Claude is told, and splitting a response loses nothing. What a
  loaded configuration says is what the tools do.

`PROJECT.json` lists every component with what is left out of it, and every
hazard at its line with the properties that cover it or why none does.

## Modules

| module | models | EXTENDS / composes |
|---|---|---|
| `Inbox` | what the updater promises: an at-least-once inbox | |
| `Updater` | `Updater::run` of several processes, Telegram's queue, the persisted offset | implements `Inbox` |
| `History` | the store: table, index, chats, baselines, retention, paging | |
| `Tools` | tool calls with `check_send_allowed` and `mirror_outbound` | |
| `Feed` | what a session gets from its hook | |
| `Hook` | `run_stop`, `run_ask`, the wake-up and the poll | implements `Feed` |
| `Discovery` | servers, discovery files, `load_all`, `pick_record`, connection | |
| `Migration` | `History::open` and `migrate` of several processes on one file | |
| `PipeServer` | `run_pipe_server`, the tasks of its connections, and `McpClient::connect` | |
| `Startup` | `main`: the database, then the pipe; failures, kills, restarts | composes `Migration` and `PipeServer` |
| `LocalInput` | `LocalInputWatcher`, `ancestry_in`, processes that come and go | |
| `Text` | characters, space, `trim` | |
| `Chunks` | `split_message` | `Text` |
| `Question` | `QuestionSet`, and `run_ask` around it | `Text` |
| `Settings` | `Config`, its use in `main`, aliases, `check_send_allowed` | |
| `Conversions` | the last three side by side | `Chunks`, `Question`, `Settings` |
| `MCUpdater`, `MCTools`, `MCDiscovery`, `MCLocalInput`, `MCConversions` | definitions for the `.cfg` files | the module they are named for |
| `UpdaterProofs`, `HookProofs`, `DiscoveryProofs`, `StartupProofs`, `HistoryProofs`, `ToolsProofs`, `LocalInputProofs` | theorems | the module they are named for |
| `ConversionsProofs` | theorems about texts, chunks, answers and settings | `Conversions` |

State and code:

- **Updater.** `offset`, `next`, `last`, `backoff`, `pc` are the local variables
  and the program point of `run`; `kvOffset` is `kv["update_offset"]`; `rows`
  is the revision each message's row shows. `Record`, `RecordFails` and `Skip`
  are one turn of the batch loop, `Persist` and `PersistFails` its end.
  `confirmed` is how far Telegram has forgotten, which happens at `Request`.
  `tried`, `stored` and `failed` are history variables.
- **History.** One action for each operation, since each holds the connection's
  mutex and is one transaction or one statement; the trims are two actions, and
  are modelled as the store offers them, though nothing in the program calls them.
  `fts` is what the index holds, not what the table implies. A message's id
  stands for its date. A row's direction is what its last writer said, as in the
  upsert. `Answers` are what `search` may answer: the newest matches, up to
  `SearchLimit` (100 in the code). `pager` is a client that follows
  `before_message_id`.
- **Tools.** `call[k]` is a call and how far it is; `Accept...` is what Telegram
  does, `Touch` and `Insert` are the two transactions of `mirror_outbound`,
  `Fail` is any end without them. Revisions are numbered in Telegram's order; a
  forward is mirrored with no text (`Mirrored`), so that its row has none until it
  is edited. Telegram edits only the bot's own messages here.
- **Hook.** `pc` follows `run_stop`; `baseline` is `Baseline::sent_message_id`;
  `Poll` is `poll_once` with its limit; `chat` is Telegram's and `visible` what
  the updaters and the mirroring have put into the history, in any order.
- **Discovery.** `files[p]` says whose record a file has and whether it is whole;
  opening and writing it are two steps. `todo`, `hand`, `found` follow the loop
  of `load_all` entry by entry. `owed` and `gone` are history variables.
- **Migration.** `stage` is the program point in `History::open`; `tables` and
  `version` are what is committed, `draft` what the open transaction has created
  so far, statement by statement; `writer` is SQLite's write lock. `lost` is the
  end of a process that found the tables there, `failed` any other.
- **PipeServer.** `loop` and `failures` are the accept loop and its count; `offer`
  is the instance a client can open, from its creation on, whether or not the
  server waits for a connection yet; `serving[c]` is the task of a connection.
  `client`, `tries` and `said` are a client in `open_with_retry`, `connect` and
  `initialize`. A hook that comes while there is no instance at all is refused
  at once, although a comment in `mcp_client.rs` (33-35) counts on its retries
  between two instances: `NotFound`.
- **Startup.** `ServePipe` waits for `stage = "ready"`, as `main` spawns the pipe
  server after `History::open`. `Return` is `main` ending with an error, `Kill` an
  end at any point; the rollback and the closing of all instances are part of
  them.
- **LocalInput.** `table` is the machine's process table, in which a process
  keeps the pid of a parent that has exited; `host` and `snapshot` are the fields
  of the watcher. `Look` is the part of `user_active` that asks the system, `Judge`
  the rest, so that processes come and go between. `line` and `reused` are history
  variables, for what is true whatever the snapshot says.
- **Chunks.** `rest` and `chunks` are `remaining` and `chunks` of the loop. A text
  is a sequence of characters, one of each kind that the code tells apart; an
  accented letter has two bytes.
- **Question.** `sent` is what the user sends, `history` what an updater has
  recorded of it, in any order; `Poll` takes what is there, joins it, and makes
  the answer.
- **Settings.** `server` is the place in `main`; `sendTargets` and `updaterChats`
  are the lists as resolved. `Call` is a tool call of Claude, `HookCall` one of a
  hook, whose `--chat` is always a string.
- **Conversions.** These three share no state. In a behaviour one runs and the
  others are idle, so that the states add up and do not multiply.

Operators named in a comment as a mutant are not part of the models: each is a
plausible bug, put in the place of the definition that follows it to see that
a property notices.

## Runs

| run | bounds | what it shows |
|---|---|---|
| `updater_two` | 2 processes, 2 messages (one not allowed), 3 updates | nothing is forgotten or skipped unhandled; the loop is an `Inbox` |
| `updater_one` | 1 process, 3 updates | latest revisions kept, replay limited to the last batch, every update confirmed in the end |
| `updater_noskip` | 1 process, 2 updates | **violated**: the offset passes an update whose write failed |
| `history` | a chat of 3 messages, a text and none, pages and answers of 2, 3 rowids | index, rowids and chats agree through edits, retention, interrupted trims; search overlooks nothing within its limit; paging neither misses what was there all along nor repeats; what becomes unread |
| `tools` | 3 calls, 2 messages, 3 revisions, an allowed chat and another | the history has what Telegram accepted, no more, and the latest of it |
| `hook` | 2 sessions, 4 messages, 2 chunks, polls of 2 | answers, order, no early reply overlooked, every hook ends; it is a `Feed` |
| `discovery` | 2 nested sessions with hooks, 2 servers, 2 pids | strangers only when alone, own server found, stale files cleared |
| `discovery_half` | as above | **violated**: a listening server without a record |
| `startup` | 2 servers on a new file, an honest client and another, 2 retries, 2 mishaps, 1 visit of the other | the schema is whole or absent, nothing is served before it is there, every server gets up and the honest client is served |
| `local_input` | 3 pids besides the shell's, 5 processes in all, walks of 2 hops | only a window of the hook's application releases, and such a window does |
| `answers` | responses of up to 7 characters in chunks of 3 bytes; 2 replies to 1 to 3 questions with up to 12 options; 2 chats, 2 aliases, lists of up to 2 | nothing of a response is lost; what was typed is what Claude is told; what was loaded is what is done |
| `numeric_chat` | the settings of `answers` | **violated**: a hook whose `--chat` is an id |

Each **violated** run checks a sentence of the repository (quoted under
"findings" in `PROJECT.json`) that the code does not keep.

Why the bounds are enough to be interesting: two processes, sessions or pids
are what it takes for one to act between two steps of another; two revisions of
a message for an edit; two chats where one must not touch the other. In `hook`
the poll limit of 2 is reached by a reply with its chunks, so that both sides of
the limit happen; in `history` rowids are used again within 3, and three messages
are more than a page or an answer of two (one chat: operations on two touch no
row of each other's, but for the rowids, which the proof has for any number); in
`discovery` a server is killed and its pid used again by the second server or
by another program. In `startup` one mishap can hit each server, or one server
twice: during the migration, and when it has recovered; the silent client
takes an instance away from the honest one. In `local_input` five processes
share three pids: a pid is used again while the snapshot, or the hook's list
of its ancestors, still has the former owner of it; with 2 hops instead of the code's 32 a walk ends below
the shell. The proofs below do not
depend on the bounds.

What the code does, and no property forbids:

- `last_seen` is the date of whatever message came last, so that an edit of an old
  message moves it back, before `first_seen` even.
- With two pollers the slower one may write the older text over the newer, which
  stays until the next edit.
- An updater stores whatever it is told of as inbound, over the direction the row
  had (`history/store.rs:85`): the bot's own channel post becomes unread when it is
  edited, and a hook that waits in that channel may take it for a reply. `History`
  has this; `Hook` takes directions as they are in Telegram, and so leaves it out.
- A forward has no text in the history and is not found by search.
- `search` answers with 100 hits at most, the newest. After an interrupted trim an
  entry of a deleted row may match for the row that got its rowid, and take one of
  the 100 places; that entry goes at the next rebuild.
- A poll of a hook asks for 50 rows, and replies further back are not found, though
  `tg-hook/poll.rs:16` speaks of all of them.
- The pauses of the accept loop begin with 2 seconds (`local-pipe/server.rs:174`),
  where the comment on `backoff_sleep` (169) says "1s doubling".

Symmetry is declared for processes, for pids and for calls, in runs without
liveness. Deadlock is checked except where the system really may stop: in
`startup`, when every server has lost its pipe for good (`run_pipe_server` has
returned, and Claude runs on); in `local_input`, when all processes of the
bound have come and gone; in `answers`, when the response is split or the
question answered.

## Fairness

- `Updater!Fairness`: tokio runs a ready task, a sleep ends and a request ends
  in an answer or an error, which is weak fairness of the steps of the loop.
  Strong fairness of `Request`, `Answer` and `Persist` says that calls which are
  tried over and over succeed now and then: without it, a server that Telegram
  never answers would count as a fault of the loop. Nothing is assumed of
  `Start`, `Arrive` and `Crash`; `EventuallyConfirmed` speaks of runs in which
  some process stays up.
- `Hook!LiveSpec`: weak fairness of the hook's own next step, since it is one
  sequential program whose calls end in an answer or an error, and of the
  clock. Nothing of the user, the updaters, the server or the pipe: `HookEnds`
  holds even when none of them ever acts.
- `Startup!Fairness`: weak fairness of what a process does by itself until its
  pipe waits for a client, of the end of a process whose start has failed, and of
  its restart (a session that needs its server starts it again); of each task; and
  of an honest client that comes, connects, and comes again when it was refused,
  as the next hook of its session does. Failures of SQLite and of the pipe, kills
  and the other client's visits are bounded (`MaxMishaps`, `MaxVisits`) and never
  required: the other client may hold its connection silently for ever.
  `HonestIsServed` leaves out behaviours in which every accept loop has returned,
  which it does when its first instance cannot be made, and nothing in the
  process starts it again.
- `Conversions!Spec`: weak fairness of the loop of `split_message`, which waits
  for nothing.
- `History`, `Tools`, `Discovery` and `LocalInput` are safety only.

## Proofs

All constants are arbitrary, within the named assumptions of the modules.

- **Updater** (`UpdaterProofs`): `TypeOK`, `ForgottenIsSettled`,
  `ResumeIsSettled`, and `Spec => ImplementsInbox`. The two invariants are not
  inductive: they speak of what Telegram and `kv` have, while the next step
  takes it from a process's memory. `IInv` adds that whatever a process holds -
  its offset, and its place in a batch - has been handled up to there. A step of
  one process leaves the memory of the others alone, and what is handled only
  grows.
- **Updater, one process** (the end of `UpdaterProofs`): `LatestRevisionKept` and
  `ReplayOnlyFromResumePoint`, under `OneProcess`, which says that `Procs` is a
  singleton. `SoloInv` adds that the process's offset is the persisted one, that
  Telegram has forgotten no more than that, and that rows are current up to the
  place in the batch. With two processes both are false: the slower one
  writes what it fetched before the other's.
- **Hook** (`HookProofs`): `TypeOK`, `AnswersFollowQuestion`,
  `NoEarlyReplyIgnored` (a poll finds nothing only when there is nothing within its
  window) and `Spec => ImplementsFeed`. The invariant is proved
  session by session: the baseline is the id of the question, what was handed
  over before is older than the question, and replies in hand are newer. So the
  messages of successive deliveries grow, which is `Feed`.
- **Discovery** (`DiscoveryProofs`): `TypeOK`, `StrangersOnlyAlone`,
  `OwnServerFound` and `StaleIsGone`. `DInv` says of each hook where a server it
  owes a record to is (ahead of the scan, in hand, or found) and where the file
  of a dead pid is (ahead, in hand, or gone). Steps of processes and of other
  hooks are shown to be *calm*: they make no server findable to this hook and
  give no dead pid a file. A chosen record is kin or alone, and the token ties
  the connection to it.
- **Start-up** (`StartupProofs`): `TypeOK`, `SchemaWhole`, `LoserFindsSchema`,
  `ServedFromWholeSchema`, and `PausesStartOver`, which is stated with its proof and
  in no run (its 30 seconds are five failures away): pauses are of 2 to 30 seconds, and
  the first after an instance of 2, as the code has it and its comment has not. All
  for any number of processes and clients. `DataInv` says that whoever creates tables holds the write lock in a
  database that has none, that the version row is in the transaction only after
  all tables, and that a process which is ready, or was overtaken, has the schema
  before it. `ServingInv` ties each connection to the process that its client
  chose, and each pipe to a process that is ready. For the types, a batch in
  progress must be a prefix of the schema's statements (`DraftInv`).
- **History** (`HistoryProofs`): `TypeOK`, `SearchJoinsItsRow` (`RowidsDistinct` and
  `IndexInStep`, the two on which a search's join rests), `SearchFindsTheNewest`,
  `InboundHasChat`, `PagingMissesNothing` and `UnreadGrowsOnlyByInbound`. `IndexInStep` says nothing while the index is stale,
  and alone it would not survive the rebuild's failure; `AllIndexed` does, which
  says that the index has every row's entry even then, and rests on
  `RowidsDistinct`: a rowid is given again only after its row is gone, so that
  taking an old text out takes out no other row's. For paging, `OwedIsThere` says
  that what the client is still owed is in the table, so that the next page, which
  is an upper part of what is below the cursor, has it. The rowid a new row gets
  is `Max` of a finite set, and a page's cursor is `Min` of one; that these exist
  comes from the well-founded order of finite sets (`MinExists`, `MaxExists`).
- **Tools** (`ToolsProofs`): `TypeOK`, `NothingInvented`, `ReportedIsStored` and
  `LatestWhenOrderly`, for any number of calls. `CallsSound` says of each call
  what it holds: a message that was posted, at a revision no later than
  Telegram's. `OrderKept` is for the last: of a message that is not `unordered`, a
  row that lags behind Telegram is about to be written by the one call on it,
  which holds the latest revision.
- **Chunks** (`ConversionsProofs`): `NothingLost`, for responses of any length and any
  limit with room for one character. `SplitInv` adds that `rest` is an end of the
  response with no space at either end, and that the chunks' words and the rest's are
  the response's; a cut is then at least one character long, since a text that does
  not start with space has no newline at its start, and what it leaves is shorter
  (`SplittingGetsOn`), which is `SplittingEnds` but for the fairness of the loop.
  That the chunks are then sent is no part of it: errors of sending are dropped
  (`tg-hook/wake.rs:50-58`).
- **Questions** (`ConversionsProofs`): `AnswerIsWhatWasTyped`, for any questions, any
  texts and any number of messages. The scan of a text, at each place, has tallied
  every number that has ended before it and holds the digits that stand there
  (`ScanTallies`); so a reply has a number as often as it stands in it with no digit at
  either side. Two texts with a newline between have the numbers of both. What a poll
  has found is taken message by message: the number of times a number was typed in
  the first of them is what the scan of their lines has. On the other side, the number
  shown at an option is its place among `FlatOptions`, which no other option has.
- **Settings** (`ConversionsProofs`): `SettingsHold`, for every set of configurations.
  `SettingsInv` says at each place of `main` what `Validate` has established and
  what the lists were resolved to: what `Validate` accepts has all its aliases, so
  that resolving cannot fail, and a resolved list means what the file's list means.
- **Local input** (`LocalInputProofs`): `TypeOK`, `ReleasedByOwnWindow`, and
  `OwnWindowReleases`, for any number of processes: what must be within the hops is
  the program that joins window and hook (`WithinHops`), since a walk of 32 hops does
  not see further. First
  what `Ancestry` returns is characterised (`AncestryIsChain`): a chain in which
  each goes on with the parent of the one before, ending where there is no new
  hop. It is a recursive function, which is shown to exist (`WalkExists`). Then
  `OneStory` says that two lines that share a birth are the same from there up, and
  that a pid never given again stands for one birth, whoever has died since; so a
  chain follows a line as long as its pids are of that kind (`ChainFollowsLine`). The
  nearest common ancestor by pids is then the one by lines, since lines are in
  the order of births. For the other direction `SnapshotWhole` says that a
  snapshot has whatever is alive and older than something in it, and `HostReaches`
  that the hook's ancestors go up its line as far as that is alive.
  An earlier form of `OwnWindowReleases`, which asked for unused pids only below the
  common ancestor, could not be proved, because it is false with four pids: the
  parent of a dead ancestor's successor may be a process *below* the common
  ancestor, which is then among the hook's ancestors (see `Joined`).

Assumptions on constants are those of the modules: sizes and bounds are natural
numbers, a distinguished value (`None`, `NoText`, `NoPid`, `Anyone`) is none of the
values it stands apart from, and `Configs` are records of the fields that `Config` has.

Where a proof needs induction (over hops, along a line, through a text or over the
user's messages), it is an induction with a set: the library's induction theorems
take an operator as parameter, so `SeqInduction`, `CountedInduction` and their like are
derived from least elements. The operators on texts are recursive functions; each is
shown to exist, by the longest beginning on which it is defined, and its values follow
from its equation.

Only model-checked: liveness (`EventuallyConfirmed`, `HookEnds`, `EveryServerUp`,
`HonestIsServed`, `SplittingEnds`), which is out of the prover's reach. Of
`SplittingEnds` the progress of each turn is proved.

## Plan

Done: `Updater`, `History`, `Hook`, `Discovery`, `Tools`, then `PipeServer` and
`Migration` with their composition `Startup`, `LocalInput`, and the conversions.

Proofs: every invariant and every action property that a run checks is a theorem.
Next: an abstract index for `History` (a set of texts to be found), with `Spec` shown
to implement it while no trim is interrupted.

Next, models: a composition of `Discovery` and `Hook`, for which session's question
reaches which server; `download_file` and `resolve_file_path`, if a property of the
files can be stated that the file system does not already keep.

## Not modelled

- `tg-client`'s classification of errors and `download_file`; the pipe's security
  descriptor and the Win32 calls of `process.rs` and `local_input.rs`: input and
  output with no state of the program's own.
- Wording and rendering; the parsing of TOML, JSON and command lines. In `Hook`
  questions, chunks and replies are ids; `Question` and `Chunks` have their texts.
- Aliases that read as a number; `--chat` with such an alias works by accident.
- FTS query syntax, snippets, and the optional filters of `search`.
- A call of a hook that never returns: `poll_once` has no timeout, and the
  models assume that a call ends.
- Replies beyond the poll's limit of 50 rows, although `poll.rs` speaks of
  returning all of them: `NoEarlyReplyIgnored` is about polls within the limit.
