# A verification of balungpisah-adk

`crates/adk` is an agent development kit: an `Agent` keeps conversations with
people in PostgreSQL, sends them to a TensorZero gateway, runs the tools the
model asks for and stores what comes of it, either answering at once
(`Agent::chat`) or as a stream of events (`Agent::chat_stream`). This directory
holds TLA+ modules translated from its source, TLC configurations that check
them on small instances, and proofs about them checked by TLAPS.

Paths below are relative to `crates/adk/src` unless they name another crate.

## The system

| Component | State | Operations | Interacts with |
|---|---|---|---|
| Agent (`agent/core.rs`) | none of its own; per call: the messages, `iteration`, token usage | `chat`, `chat_stream`, `get_or_create_thread`, reading and editing messages | storage, gateway, tools: awaited one after the other |
| Streaming (`stream/`) | per task: content blocks of the response in hand, the bounded event channel | `execute`, `execute_loop`, `stream_response`, `execute_tools` | a task of its own, spawned by `chat_stream`; the caller holds the receiver |
| Conversation storage (`storage/postgres.rs`, `migrations/`) | tables `threads` and `messages` | one SQL statement per method, autocommit, no transaction | foreign key `messages.thread_id`, cascade on delete |
| Context filter (`context/config.rs`) | configuration only | `filter_messages` | called once per chat on the loaded history |
| Messages, content (`models/`) | values | constructors | stamps `created_at` in the application |
| Conversion (`context/convert.rs`, the ends of `core.rs` and `executor.rs`) | values | response to stored and to sent message, results to messages, stored to sent message | written once for chat, once for streams, once for the history |
| Tools (`tools/`) | the registered executors | `register`, `get`, `execute` | called by chat and by the stream task, which has a clone of the registry |
| Agent builder (`agent/builder.rs`) | the agent's settings | setters, `function_name`, `model_name`, `build` | hands its fields to the agent, copied by hand between builder types |
| TensorZero client (`crates/tensorzero`) | an HTTP client | requests and their builder, responses and their accessors, `inference`, `inference_stream` | the gateway |
| Files (`minio/`, `files` table) | objects and rows | upload, presign, delete | MinIO, PostgreSQL |
| Example program, gateway configuration | - | - | - |

What is hard in it:

* **Interleaving.** A chat is a chain of awaits (thread, user message, history,
  inference, assistant message, tools, results, ...). Two chats on one thread,
  and the application's edits, may run between any two of them. There is no
  lock, no transaction and no version.
* **Failure between steps.** Each `?` leaves what was stored before it. A
  dropped future or a dying process stops a call at any await, and a statement
  whose answer is lost may have been executed.
* **Order.** Messages are ordered by a time stamp taken when they are built,
  before they are inserted.
* **Streams.** The event channel is bounded and every send is awaited; the
  reader may stall or go away; the response may be cut or lose items; the
  content blocks come out of a `HashMap`.
* **Three ways for one thing.** What the model is sent, what the thread stores
  and what a tool is given are derived from a response by different functions,
  and again by others in a stream; they must agree.
* **Filtering.** Six steps over the history, each of which may undo what
  another has established.

What makes each component correct:

* *chat*: a thread only ever grows by whole turns or by beginnings of one;
  tools act only after the request for them is stored, once each, in order;
  results answer exactly the request before them; a request stays unanswered
  only for a fault; later calls see the whole of earlier turns, in order; every
  call ends.
* *streaming*: the same turn; the events follow one protocol; Done is said only
  of what is stored and of what was shown; the reader is told how it ended; the
  task ends.
* *storage*: no row of a thread that is gone; a rewind leaves no half pair.
* *threads*: one conversation per person unless calls overlap or ask for a new
  one; who comes back gets the thread last given or a younger one; a returned
  thread exists; an edit is lost only to an overlapping edit; what is deleted
  stays deleted; a paged listing misses nothing that stays.
* *files*: no row without its object; an object without a row is explained; the
  same contents are kept twice only by overlapping attachments; a URL taken for
  valid is valid.
* *requests*: what the builder was told is what a request carries; the model is
  shown one conversation, in the loop and when it is read back; a tool call runs
  what was offered, with the arguments that are recorded; its result answers it;
  the usage returned is the sum.
* *filter*: a subsequence of the history, within its limits, with neighbouring
  pairs kept together and the newest message in it.

## The modules

| Module | Models | Relation to the code |
|---|---|---|
| `ConversationStore` | `storage/postgres.rs`, the schema | two variables, the tables; one operator per statement, because each is one atomic step |
| `Turn` | what one chat promises, either way it is answered | abstract: log of message kinds, rounds acted on, status |
| `AgentChat` | `Agent::chat` and the application's edits, for any number of concurrent calls | `pc[c]` is the await at which call `c` is suspended; an action completes it and runs to the next |
| `SseProtocol` | the order of events on a stream | abstract: which event may follow which |
| `StreamExecutor` | `Agent::chat_stream`, the executor, the channel, the reader | `pc` again; `outbox` holds the events the code sends before it goes on, each send being an await |
| `ContextFilter` | `ContextConfig::filter_messages` | pure operators, one per step, stated by what they keep |
| `FilteredHistory` | the histories that overlapping chats and the application's edits leave in a thread | a history grows message by message, each by any of the calls that run, and is edited meanwhile; the filter is applied to each |
| `ThreadRegistry` | `get_or_create_thread` and the `ThreadStorage` methods, with clients that edit, delete and list threads | the thread table at the level of its columns; each statement is a step |
| `FileStore` | `MinioClient`, `FileMetadataStorage`, the `files` table; extends `ConversationStore` for its foreign keys | the bucket and the table; a client's calls in the order their types leave |
| `ToolRegistry` | `tools/`: registration, lookup, execution, what a result carries | pure operators on a sequence of tools |
| `Conversion` | `context/convert.rs`, the conversions in `core.rs` and `executor.rs`, the accessors of `tensorzero/src/response.rs`; extends `ToolRegistry` | pure operators, one per function; blocks keep what the properties tell apart |
| `AgentRequests` | `AgentBuilder`, the requests of `chat_loop` and `execute_loop`, the tools they run, what the thread keeps of it; extends `ContextFilter` and `Conversion` | one agent and one call at a time, in either mode; an action for each await, as in `AgentChat` |
| `MCAgentChat`, `MCStreamExecutor`, `MCFilteredHistory`, `MCThreadRegistry`, `MCFileStore`, `MCAgentRequests` | - | the small instances |
| `AgentChatProofs`, `AgentHistoryProofs`, `StreamExecutorProofs`, `ThreadRegistryProofs`, `FileStoreProofs`, `AgentRequestsProofs`, `FilteredHistoryProofs` | - | the theorems about the module of that name; `AgentHistoryProofs` those about what calls leave in `AgentChat`'s tables |
| `SequenceFacts` | - | lemmas on sequences and on `FlattenSeq`, of no module in particular |

`AgentChat` and `StreamExecutor` both implement `Turn` (`CallsAreTurns`,
`IsTurn`); `StreamExecutor` also implements `SseProtocol` (`FollowsProtocol`).
`SseProtocol` allows one `Error` to be repeated when the budget is spent: that
is what the code does (see below). `AgentChat` has the calls that overlap and
their faults, `AgentRequests` the contents of what one call sends: the same loop
at two levels of detail, kept apart because the contents of a message decide
nothing in the first and the overlap of calls nothing in the second, whose calls
share only the tables.

State and variables. `AgentChat`: `threads`, `messages` are the tables; `pc`,
`on`, `iteration`, `batch`, `results`, `stamp`, `context` are the locals of a
call; `clock` is `Utc::now()`; `outcome` is how the future was resolved; `wrote`,
`ran`, `before` are history variables that only the properties read. A message
is `[call, pos, kind, thread, at, n]`: its UUID is `<<call, pos>>`, `kind` its
role and content as far as the properties tell them apart, `n` its number of
tool blocks, `at` its `created_at`. `StreamExecutor`: `blocks` are the content
block builders, `items` counts the response's items, `content` is the finished
response (an order of block indices), `todo` the tool calls still to run,
`channel` the mpsc queue; `lossy`, `wrote`, `stored`, `ran`, `emitted` are
history variables.

`ThreadRegistry`: `rows` is the table, `asks` the arguments of
`get_or_create_thread`, `stamp` the created_at of the thread a call has built,
`copy` the row an editor has read, `listing` a reader's progress; `before` and
`deleted` are history variables. `FileStore`: `files` and `objects` are the table
and the bucket, `wants` what is attached, `hand` the row a remover or a viewer
works with.

`AgentRequests`: `settings`, `target` and `registry` are the fields of the builder
and then of the agent; `told` remembers the last argument of each setter; `thread`
is the messages of one thread; `input`, `iteration`, `calls`, `results` and `usage`
are the locals of `chat_loop` or `execute_loop`, `tools` the registry the call
works with, `request` the last request it sent, `reply` the usage of the
`ChatResponse`. `truth` is the sum that `usage` stands for, without its width. A
tool call of a response has the five fields of `ToolCallBlock`, each of which may
be absent; a tool is described by what its function writes into its result.

No code in the repository calls the file operations or edits and lists threads,
so these clients are external. Their order follows from the types: a
`FileMetadata` needs the key and the checksum, only `upload_file` computes the
checksum, so upload comes first, then `find_by_checksum`, then `create_file`. Two
choices are theirs and assumed to be the careful ones: a removal deletes the
row before the object, and the time of expiry is taken before the URL is signed.

What is abstracted:

* A message's text is its identity. In a stream, a fragment of text is named by
  its place in the response. Wording and logging are left out; names, arguments
  and token usage are in `AgentRequests` only. A tool that is unknown or fails
  yields a result like any other, as in the code.
* A JSON value is named by its text, so that parsing gives back the same name;
  one text is not JSON. A file is the set of the parts it has. The two kinds
  of error a tool can return differ in wording only.
* The history a call sends is the set `context`; the filter is checked
  separately (`FilteredHistory`), because nothing a call stores depends on it.
* A statement that lands after its call was abandoned is modelled at the moment
  of abandonment (`StoreOrNot`). The clock does not step back.
* A thread's title and metadata are the set of edits that made them; a file's
  checksum is its contents. A name is a sequence of characters because `LIKE` is
  modelled by what it matches: two wildcards and the escape character.
* In `FilteredHistory` a rewritten message keeps its role and becomes a text.
  A call's own messages are stamped in order, so that a history grows at its end.
* In `AgentRequests` a stream's response arrives whole: its parts and its faults
  are the subject of `StreamExecutor`. A build with overflow checks panics where
  the other wraps; both are there (`Fail`, `AddUsage`).
* In a streamed response each block is started once and gets deltas of its own
  kind, which is what the gateway sends.

Definitions marked `Slip:` are plausible mistakes in the definition after them.
No specification uses one. With the slip in place of the definition, TLC
reports the property named:

| Property | Slip | Property | Slip |
|---|---|---|---|
| RequestBeforeTools | InferUnlogged | TypeOK (stream) | SendWaiting |
| ToolsRunOnceInOrder | NextToolLastFirst | DoneMeansStored | InsertReplyUnchecked |
| ResultsAnswerRequests | RunToolFirstOnly | EndIsTold | FailSilently |
| BudgetIsSpent | StartIterationEarly | ToolsAreAnnounced | BlockStartUnannounced |
| EveryCallEnds | StorageFaultRetried | FollowsProtocol | InsertToolUseAllStarted |
| CallsAreTurns | StartIterationLate | IsTurn | StartIterationLate |
| TypeOK (chat) | GatewayFaultSwallowed | TaskEnds | SendWaiting |
| UnansweredIsExplained | InsertResultsUnchecked | SentWithinLimits | OneMessageMore |
| WholeTurnsInHistory | LoadHistoryNoResults | PairsStayTogether | RetainLastRequests |
| StoredOrder | BuildMessageUnstamped | NewestIsSent | OldestMessages |
| RewindKeepsPairs | AfterOrAt | TypeOK (threads) | InsertRetried |
| SplitOnlyByOverlap | OpenAlwaysNew | NeverBackToAnOlderThread | OldestByExternalId |
| ReturnedThreadExists | InsertIgnoringErrors | EditLostOnlyToOverlappingEdit | GetThreadUntitled |
| ListingMissesNone | AnyOrder | TypeOK (files) | CascadeThreadOnly |
| RowHasObject | KeyWithoutId | OrphanObjectIsExplained | CreateIgnoringErrors |
| DuplicateOnlyByOverlap | FindByMessageAndChecksum | CachedUrlWorks | UpdateExpiryOnly |
| TypeOK (requests) | RegisterFirst | SettingsReachGateway | NameTargetForgetful |
| LoopAgreesWithHistory | SentResponseWithoutText | RunsWhatWasOffered | ToolsInForceShared |
| ResultsAnswerCalls | FilledNameOnly | RecordedArgumentsWereUsed | StreamedKeepingArguments |
| UsageIsTotal | AddUsageLast | RequestsGrow | SendRequestRefiltered |

## The runs

`tlc -config <run>.cfg <module>.tla`; each takes under a minute or two.

| Run | Instance | What it shows |
|---|---|---|
| `chat_turn` | 1 call, 3 iterations, up to 2 tools each, 1 edit, the clock may stand still; about 150 000 states | order of request, tools and results; budget; a rewind keeps pairs; every call ends; each call is a `Turn` |
| `chat_overlap` | 2 calls on 1 thread, 2 iterations, 1 tool; about 160 000 | unanswered requests come of faults only; what a later call sees of an earlier one, and in which order |
| `stream_chat` | 2 iterations, 2 blocks, 2 items, channel of capacity 1; about 170 000 | event protocol, `Turn`, Done, termination |
| `filter_all` | histories of up to 6 messages of any number of overlapping calls, 1 deletion, rewind or rewrite, requests of 1 or 2 tool calls, 36 configurations; about 970 000 | what the filter keeps, and keeps together |
| `thread_registry` | any 3 of 3 `get_or_create_thread` calls, 2 edits and a listing with pages of 1; 2 names, a wildcard and the backslash, 3 prefixes; 1 deletion; about 860 000 | when conversations split or fall back, which edits are lost, what a listing misses |
| `file_store` | any 4 of 2 attachments, 1 removal and 2 presentations; 2 threads, 1 message, 1 deletion, one tick of the clock; about 1 300 000 | rows and objects, duplicates, cached URLs |
| `agent_requests` | 3 of the setters, registrations and calls; 2 iterations, up to 2 tool calls of 3 shapes, 3 tools, counters of 3 values; about 1 100 000 | what requests carry, the agreement of loop and thread, which tools run with which arguments, usage |
| `cut_stream` | as `stream_chat` | **violated**: a cut or lossy response ends with Done |
| `stalled_reader` | as `stream_chat`, reader not fair | **violated**: no event timeout, the task waits for ever |
| `filter_first` | max_messages 3, up to 5 messages | **violated**: the filtered history may start with an assistant message |
| `filter_dedup` | deduplication on | **violated**: results are sent without their request |
| `stream_settings` | as `agent_requests`, one setter, one tool | **violated**: a streamed request carries no system prompt |

The bounds. Three iterations are the first, a repeated and a last one; two
tools are the least with an order, and the least of which one can be missed.
Two calls suffice for every property that speaks of another call, since each
speaks of one other. A channel of capacity 1 fills at once. Two items per response let a
block start and grow, or two start; a lost item may be any of them. Six messages hold
two rounds of tools behind a person's message, and two overlapping calls with both
their requests before both their results, in either order; one edit takes a request
or results away from these. The windows are empty, shorter than that and one short
of it, a pair is retained or none, a message keeps no block, one or all, so every
step of the filter meets a case in which it must choose.
The thread and file runs bound the clients that begin (`MaxBegun`) rather than
their kinds: each property speaks of at most three of them (two threads and who
comes back; a thread and two edits; a file, its copy, its removal). Pages of one
row put a page boundary between any two threads. One tick lets a URL that lasts
one tick expire and be renewed by two viewers.

In `agent_requests` an operation is a setter, a registration or a call
(`MaxOps`); three make every pair of a setter and the naming of the target in
both orders, a tool registered before and during a call, two tools of one name,
and a call behind another. Naming the target is not counted, so that each
of the others can stand before or after it. Two iterations send two requests,
and two tool calls give the second of them two results to pair. The shapes of a
tool call are those that the accessors tell apart: validated by the gateway, not
validated with arguments that are no JSON, and without a raw name. The tools are
one that leaves its result to the crate, one of the same name that does not, and
one that names no call; the first is needed to see the defaults, the second for
the order of lookup, the third for the exception in `ResultsAnswerCalls`. A
counter of three values overflows with two responses.

Deadlock is not checked: calls, tasks and histories come to their end.

Symmetry is over calls and clients, and only in runs without liveness properties.

Fairness. Nothing in the code bounds an await: `TensorZeroClient::new` sets no
timeout, and tools are arbitrary futures. Liveness is therefore stated under
the assumption that the runtime polls and that the database, the gateway and
the tools answer or fail: weak fairness of a call's own step, or of the refusal
of its statement (`AgentChat!FairSpec`), and of the task's steps
(`StreamExecutor!TaskSpec`). `FairSpec` of the stream adds that the reader goes on
reading or goes away. Nothing is assumed about the faults, which are never fair
except for the refusal just named.

## The disagreements found

Each of these is a run whose property quotes the source, listed in `PROJECT.json`:

* Done is sent for a response that was cut (`stream/events.rs:90`,
  `stream/executor.rs:263`): `cut_stream`.
* An event timeout is configured that nothing reads (`stream/config.rs:10`):
  `stalled_reader`.
* A filtered history starts with an assistant message, or breaks a pair
  (`context/config.rs:139` and `140`): `filter_first`, `filter_dedup`.
* A streamed request carries no system prompt, though it "overrides any system
  prompt" (`agent/builder.rs:261`, `agent/core.rs:358`): `stream_settings`.

Others were met and have no run of their own:

* A spent budget sends two terminal events: `stream/events.rs:186` calls `Error`
  terminal; `stream/executor.rs:131` sends one and returns the error, for which the
  task sends another (`agent/core.rs:380`). `FollowsProtocol` allows exactly that.
* The loop override (`context/config.rs:86`, "this config is used instead") is not
  applied: the history is filtered once, before the loop (`agent/core.rs:188`).
  `RequestsGrow` states what happens instead.
* A stream prefers the name of a tool as the model wrote it
  (`stream/executor.rs:294`), chat the name that the gateway validated
  (`tensorzero/src/response.rs:91`): one response may run a tool in chat and be
  answered "not found" in a stream. `RunsWhatWasOffered` holds of either.
* A stream sends the name of a model as `function_name` (`stream/executor.rs:154`).
* `limit_per_message(0)` empties a result message, which step 6 of the filter then
  does not recognise as results: the condition of `PairsStayTogether`.
* `list_threads` is "filtered by external ID prefix" (`storage/types.rs:27`), and
  puts the prefix unescaped into a `LIKE` pattern (`storage/postgres.rs:228`): an
  underscore in it matches any character, and a backslash makes the next one
  literal, so that with the prefix `\` or `a\` the threads that begin with it are
  not listed. `ListingMissesNone` says that nothing is missed for a prefix
  without a backslash, and is false without that condition; no property says that
  nothing is shown too many.
* `retain_last` counts a request and the results behind it as a pair by
  neighbourhood (`context/config.rs:211`). Nothing keeps two calls on one thread
  apart (`agent/core.rs:139-251`), and their messages, or what an edit leaves of them,
  need not be such pairs. When it takes a pair away, a request may come to stand
  before the results of another one: of [user, user, use 1, use 2, results 2,
  results 1, user, use 3, results 3] `retain_last(1)` sends [user, user, use 1,
  results 1, user, use 3, results 3]. So `SentWithinLimits` counts the pairs that
  were neighbours in the history, and `PairsStayTogether` speaks of these. A request
  whose results are stored further on may be sent without them.
* A response's blocks are collected out of a `HashMap` (`stream/executor.rs:270`): the
  text of a stream is joined, and its tools run, in any order. The models allow every
  order; `DoneMeansStored` compares the fragments, not their order.
* `generate_key` wants a file id (`minio/client.rs:216`) before
  `FileMetadata::new` makes one (`models/file_metadata.rs:50`): a caller has to make
  its own id, for the key or for both.

## What is proved

Each theorem holds for every value of its module's constants that the named
assumptions allow: any number of calls, clients, threads, names, tools, blocks,
and any faults. The bounds of the runs (`MaxOps`, `MaxBegun`, ...) are constants
too, so that nothing is proved only up to a bound.

| Module | Theorem | States |
|---|---|---|
| `AgentChatProofs` | `TypeCorrect` | `[]TypeOK` |
| | `OrphansNever` | `[]NoOrphanRows` |
| | `RequestsComeFirst` | `[]RequestBeforeTools` |
| | `ToolsOnce` | `[]ToolsRunOnceInOrder` |
| | `UnansweredOnlyByFault` | `[]UnansweredIsExplained` |
| | `BudgetSpentInFull` | `[]BudgetIsSpent` |
| `AgentHistoryProofs` | `OrderKept` | `[]StoredOrder` |
| | `ResultsAnswer` | `[]ResultsAnswerRequests` |
| | `TurnsRemembered` | `[]WholeTurnsInHistory` |
| | `RewindSafe` | `RewindKeepsPairs`, an action property |
| | `EachCallIsATurn` | `CallsAreTurns`, a refinement |
| `StreamExecutorProofs` | `TypeCorrect` | `[]TypeOK`, with the channel within its capacity |
| | `EndTold` | `[]EndIsTold` |
| | `ToolsAnnounced` | `[]ToolsAreAnnounced` |
| | `DoneStored` | `[]DoneMeansStored` |
| | `Protocol` | `FollowsProtocol`, a refinement |
| | `TurnRefined` | `IsTurn`, a refinement |
| `ThreadRegistryProofs` | `TypeCorrect` | `[]TypeOK` |
| | `SplitsOverlap` | `[]SplitOnlyByOverlap` |
| | `NeverOlder` | `[]NeverBackToAnOlderThread` |
| | `ReturnedExists` | `[]ReturnedThreadExists` |
| | `EditsLostToOverlap` | `[]EditLostOnlyToOverlappingEdit` |
| | `ListingComplete` | `[]ListingMissesNone` |
| `FileStoreProofs` | `TypeCorrect` | `[]TypeOK`, with the foreign keys |
| | `RowsHaveObjects` | `[]RowHasObject` |
| | `OrphansExplained` | `[]OrphanObjectIsExplained` |
| | `DuplicatesOverlap` | `[]DuplicateOnlyByOverlap` |
| | `CachedUrlsWork` | `[]CachedUrlWorks` |
| `AgentRequestsProofs` | `TypeCorrect` | `[]TypeOK` |
| | `SettingsArrive` | `[]SettingsReachGateway` |
| | `OfferedToolsRun` | `[]RunsWhatWasOffered` |
| | `ArgumentsRecorded` | `[]RecordedArgumentsWereUsed` |
| | `UsageCorrect` | `[]UsageIsTotal` |
| | `LoopAgrees` | `[]LoopAgreesWithHistory` |
| | `ResultsAnswer` | `[](settings.context = None => ResultsAnswerCalls)` |
| | `RequestsRepeat` | `RequestsGrow`, an action property |
| `FilteredHistoryProofs` | `HistoriesOfCalls` | `[]Histories`, what every message of a history looks like |
| | `LimitsHold` | `[]SentWithinLimits` |
| | `PairsKept` | `[]PairsStayTogether` |
| | `NewestSent` | `[]NewestIsSent` |

Assumptions, each named in the module that declares the constant:

* `BudgetAssumption`, `BatchAssumption`, `ClockAssumption`, `EditsAssumption`
  (`AgentChat`), `StreamBounds` (`StreamExecutor`), `ClockStepsAssumption`
  (`ThreadRegistry`), `BoundsAssumption` (`FileStore`): a number is natural; the
  capacity of the channel is not 0 (`mpsc::channel` panics at 0).
* `PageAssumption`: a page has a row. `DisjointAssumption`: who opens a thread
  and who edits one are different clients. `StringsAssumption`: names and prefixes are strings.
* `ExpiryAssumption`: the expiry of a presigned URL fits its width. Without it
  `CachedUrlWorks` is false.
* `RequestBounds` (`AgentRequests`): the numbers are numbers, the usages fit into
  the width, and contents, tools and tool calls have the fields and kinds of
  their types. `AbsentAssumption`: an absent field is not an empty one.
* `ConfigsAssumption`, `BatchesAssumption` (`FilteredHistory`): the fields of a
  configuration have the types of `ContextConfig`, and a request has tool calls.
* `EscapeAssumption` (`ThreadRegistry`): the backslash is none of the wildcards.

### The inductive invariants

Few of the properties are inductive as they stand. What each needs:

* `AgentChat`: `IInv` (theorem `Inductive`) adds to `TypeOK` how the phase of a
  call (`pc`), its iteration and what it has stored hang together: at each await
  the length of `wrote[c]` is a function of `iteration[c]`, its entries are those
  of a turn, and the tools in `ran[c]` are those of the rounds before and the
  first `results[c]` of this one. `RequestBeforeTools` then follows from the
  length, `ToolsRunOnceInOrder` from the last tool being below the next,
  `BudgetIsSpent` from the length at the moment the budget is compared.
* Its history: `HistoryInv` says that a row is what its call wrote at that place,
  and that the stamp of a message still to be inserted is later than every row
  of its own call and of the calls that had ended when it began (`DraftLater`);
  the interval between stamp and INSERT is where the order could be lost.
  `AnswerInv` counts the tools of a round. `RewindKeepsPairs` follows step by step:
  with calls in sequence and no ties, a cut by time is a cut by `(call, pos)`, and
  between a request and its results there is no place to cut at but the request.
* `CallsAreTurns`: each action of a call is the action of `Turn` that appends
  what it wrote, or a stutter; steps of the other calls stutter.
* `StreamExecutor`: `BaseInv` ties the stage of the task to the messages stored,
  to the tools that ran and to the blocks of the response; `Buffer` says that the
  channel is the end of what was emitted; `Story` that the events emitted and
  after them those about to be sent follow one another, the last of them fitting
  the stage; `Announcing` and `Showing` that the blocks of the response are
  exactly what the reader was told of this round. The last three are conditional
  on the reader, because the code goes on when a send fails.
* `ThreadRegistry`: `LookupStillTrue` (what a lookup found is still true of the
  earlier calls at the INSERT), `BuiltYounger`, `CopyHoldsEarlierEdits` (what an
  editor has read holds the edits acknowledged before it began, or one that
  overwrote them), and for the listing `NoneSkipped`: each thread not seen yet has
  at least `offset` threads above it, both for a prefix without a backslash, which
  `LIKE` is shown to find. The last counts rows, so that a page's
  lemmas are about cardinalities.
* `FileStore`: `CopyIsThere` (who is about to insert a row still has its object),
  `RemovedIsGone` (an object is deleted only when its row cannot come back),
  `SearchStillTrue`, and `HonouredAsLong` (a row or a hand about to be saved never
  outlives its URL).
* `AgentRequests`: `SettingsAreTold` (the fields equal what was told, and nothing is
  sent while the builder can still be told something else); `ToolsAreOffered` (the
  call's registry is the one the request was made from) with `RunsFirst`
  (`get` finds the least place that was offered); `CallsAreRecorded` (the calls in
  hand are recorded in the thread), with `GrowthKeeps` and `StreamedAgrees`;
  `RunningSum`; `Growing` (the input extends the last request by the messages of
  the round); `Agreeing`, for the two properties without a filter: the thread's
  conversion is the input, and every result in it has exactly one request
  before it.

* `FilteredHistory`: `Histories` says what a message of a history is: a text, a
  request, or results, each of one batch of tool calls, numbered like it and in its
  order, whoever is its neighbour; and the same of the batches that calls are
  executing. Each action adds such a message, takes messages away, or makes one a
  text. From there on the theorems are about one application of `FilterMessages`,
  stage by stage. `Nth` is shown to be the inverse of a rank, so that what a step
  keeps can be enumerated. Three facts carry the rest:
  * a pair of neighbours of the history that is still there after a removal has
    been neighbours all along, so that `retain_last` holds of what is sent too;
  * `limit_per_message` cuts the first blocks of a request and of its results, as
    many of both, so that the ids left are the same if they were;
  * each step keeps a request right before the results behind it unless the results
    come first of all, and the last step takes those away.

`TypeOK`, the properties and the invariants of `AgentChat` were model-checked
before they were proved, the other strengthenings on the same instances while
they were being found.

`FlattenSeq` of the library, with which blocks are put in a row, is defined by
recursion over a sequence. `SequenceFacts` proves what is used of it (that it
exists, its elements, that it commutes with appending) by least counterexample
over the places of a given sequence, which needs no induction theorem.

### Only model-checked

* Liveness under fairness (`EveryCallEnds`, `TaskEnds`): out of the prover's reach.
* `ResultsAnswerCalls` with a filter. `PairsKept` says it of the neighbours in the
  histories of `FilteredHistory`; those of `AgentRequests` have other blocks, among them results
  whose tool wrote its own id, and the shape of its threads is not yet an
  invariant. The run's filter is `max_messages` alone. (With deduplication a result
  may even be sent without its request, see `filter_dedup`.)
* The disagreements with the documentation, which are counterexamples.

## What is not modelled

* The gateway's and the database's insides, HTTP and JSON; the text of errors.
* The builders of tool schemas (`tools/definition.rs`): pure data, handed on as
  it is.
* `get_recent_messages`, `delete_thread_messages`, the count of messages and the
  reading file operations: nothing in the crate calls them. Of `update_message` only
  what it does to a history (`FilteredHistory`); that overlapping edits of a message
  lose one of them is as for `update_thread`, which `ThreadRegistry` has.
* What happens past the limits that the properties name: a sum of tokens that does
  not fit (`UsageIsTotal`), an expiry above `u32` (`ExpiryAssumption`), a channel of
  capacity 0, a gateway or tool that never answers (fairness), a rewind of a thread
  on which a call runs (`RewindKeepsPairs`). The models have the last, and no
  property denies what it does.
* Episode and inference ids: nothing reads them back.
* The builder's setters of the client and the storage: they have the shape of
  `function_name`, which is modelled.
* The example program and the gateway's configuration file.

## Plan

Done, in this order: `ConversationStore`, `Turn`, `AgentChat` and its proofs,
`SseProtocol`, `StreamExecutor`, `ContextFilter`, `FilteredHistory`,
`ThreadRegistry`, `FileStore`, `ToolRegistry`, `Conversion`, `AgentRequests`, and the
proofs about each. What would add most next:

1. `ResultsAnswerCalls` with a filter that does not deduplicate: an invariant that
   says of a thread of `AgentRequests` what `Histories` says, and the lemmas on the
   filter's stages stated for messages without a place.
2. An abstract specification of the registry (a person's current thread) that
   `ThreadRegistry` implements when calls do not overlap.
