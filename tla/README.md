# Verification of ChatGPT Web Gateway

The gateway offers the OpenAI HTTP API on top of the ChatGPT website: every
request becomes a turn in a browser Page, and the gateway keeps its own record
of each Conversation so that the website can be brought back in line with it.
This directory holds TLA+ models of the parts whose correctness depends on the
order of things, the TLC configurations that check them on small instances, and
TLAPS proofs of what matters most for instances of any size.

    tlc -workers 2 -config MCEngine_concurrent.cfg MCConversationEngine   # one run
    tlapm ConversationEngine_proofs.tla                                   # one proof module

`PROJECT.json` lists components, runs, mutants, hazards and theorems, and maps
every definition that models code to its lines. Paths below are relative to the
repository; `src/...` is its source directory.

## 1. The system

One Node.js process. Everything in it runs on one event loop, so code between
two `await`s is atomic, and everything else interleaves. SQLite is used
synchronously: a repository call or a transaction is atomic and durable.

| component | state | operations | talks to |
|---|---|---|---|
| **HTTP API** (`src/api`) | none | parse, normalize, encode | calls the engine, the file and the image service |
| **Conversation Engine** (`src/conversations/conversation-engine.ts`) | locals of each turn | `execute`, `stream` | queue, store, planner, registry, driver, resolver |
| **Conversation queue** (`conversation-queue.ts`) | the tail promise of every key | `run`, `close` | calls the engine's turn |
| **Context Sync planner** (`src/context/planner.ts`, `request-context.ts`) | none | `planContextSync`, validation | called by the engine |
| **Conversation persistence** (`src/persistence`) | SQLite tables | `save`, `markSyncInFlight`, `load*` | called by the engine |
| **Page registry** (`page-registry.ts`) | bindings, busy flags, the expiry timer | `acquire`, `complete`, `fail`, `hasAffinity`, expiry, eviction, `close` | the pool; called by the engine |
| **Page pool** (`src/browser/page-pool.ts`) | open, leased and idle Pages | `acquire`, `release`, `close` | Chromium; called by the registry, images, diagnostics |
| **ChatGPT driver** (`src/chatgpt/driver.ts`) | the turn in progress | `openFresh`, `openConversation`, `startText`, `observe`, `stop` | the website |
| **Text stream** (`src/stream`) | samples, emitted prefix | sampling, completion, flush | driver, tool detection, response |
| **Tool protocol** (`src/tools`) | the detection buffer | `push`, `finish`, parse | text stream, engine |
| **Streaming responses** (`src/api/streaming-response.ts`, `sse.ts`) | started, closed | sink, error frame, end | the client |
| **File service** (`src/attachments/file-service.ts`) | leases, content locks; the files and file_blobs tables; blob and temporary directories | create, promote, discard, delete, acquire, release, `cleanup` | file routes, resolver |
| **Attachment resolver, staging** (`src/attachments/resolver.ts`, `staging.ts`) | the leases of a turn, its staging directory | resolve, retain, stage, cleanup | file service |
| **Image generation** (`src/images`) | generated_images table, image files | `generate`, `read` | pool, driver |
| **Diagnostics** (`src/diagnostics`) | none | probe | pool |
| **Migrations** (`src/persistence/migrations.ts`) | schema_migrations | `runMigrations` | at startup |
| **Runtime** (`src/runtime.ts`, `src/index.ts`) | the components | start, `close` | everything |

What makes each correct, and what is hard about it:

* **Engine, queue, store.** The website cannot take part in a transaction. A
  prompt that was sent cannot be taken back, and whether it was answered is not
  known when a turn is aborted, times out or dies with the process. The engine
  marks the Conversation `in_flight` before it touches the website and `clean`
  when the whole turn is saved; what is `clean` must be what the website shows.
  Requests with one key run in order; requests without a key find the
  Conversation they continue by its content, before they wait, and may be
  wrong about it afterwards.
* **Planner.** It must never append to a web conversation that does not hold
  exactly the confirmed messages, must not refuse what can be rebuilt, and its
  several ways to say "the transcript" (the history of the plan, the history of
  a fallback, what is saved) must agree.
* **Pool and registry.** A Page is leased, bound, evicted, expired, lost and
  closed by different actors between awaits. No Page may be used by two,
  no lease may be lost, the last Page must stay, the limit must hold.
* **Files.** Rows change in transactions, bytes do not. Uploads and deletes of
  the same content, leases of running turns and crashes meet.
* **Text stream, tools, responses.** What has been sent to a client cannot be
  taken back, while the page re-renders; the tool marker must not leak; success
  is announced after the save only.
* **Driver.** A Page shows the website late, and in pieces. A turn finds its own
  answer by counting the answers it sees, so what it sees has to be the whole
  conversation; a click that reports a failure may have been delivered; an answer
  that stands still need not be complete.
* **APIs, attachments.** Two request formats have to become one transcript, and
  what was answered has to be recognised when it comes back. A file goes by a
  number in the request, a reference in the plan, a record in the database, a
  File and a name on the website: they must all mean the same bytes.
* **Migrations, shutdown, images.** Interruption in the middle, of anything, by a
  signal, a kill or a lost browser.

## 2. The plan

Ordered by importance. Modules in the first part exist.

| module | kind | composed of | what it is for |
|---|---|---|---|
| `ContextPlanner` (+ `MC`, `_proofs`) | pure operators | | the algorithm, against a reference definition |
| `ConversationLog` | abstract specification | `ContextPlanner` | what the engine promises: logs that change by whole turns, owners that never change |
| `ConversationEngine` (+ `MC`, `_proofs`) | state machine | `ContextPlanner` | turns, queue, checkpoints, website, crashes; implements `ConversationLog` |
| `StreamClients` (+ `MC`) | state machine | `ConversationEngine` | turns that wait for clients who do not read; what waits behind them |
| `PagePool` | operators on the pool's state | | one operator per synchronous stretch of the pool |
| `PageRegistry` (+ `MC`, `_proofs`) | state machine | `PagePool` | bindings, eviction, expiry, direct users |
| `FileStore` (+ `MC`, `_proofs`) | state machine | | Files, Blobs, bytes, leases, startup cleanup |
| `AnswerStream` (+ `MC`, `_proofs`) | state machine | | one streamed answer: sampling, completion, stable prefix, tool detection, the frames of both APIs, errors, a client that closes |
| `DriverTurn` (+ `MC`, `_proofs`) | state machine | | the turns of one Conversation on its Pages: what a Page shows, send, observe, verify, stop |
| `GatewayLife` (+ `MC`, `_proofs`) | state machine | | lives of the process: startup, migrations, serving, shutdown, a lost browser, stored images |
| `ApiRequests` | pure operators | | both request formats, answers as items, tool names |
| `Attachments` | pure operators | `ContextPlanner`, `ApiRequests` | attachments from the request to the upload, the prompt, the saved rows and back |
| `PlannedTurn` (+ `_proofs`, checked by `MCContextPlanner`) | state machine | `Attachments` | one turn from the client's request to its plan and to the records that are saved |
| *left* a composition of `PageRegistry` and `DriverTurn` | state machine | | several Conversations whose Pages wander; each has an abstraction of the other now |
| *left* `RemoteFetch` | state machine | | redirects and size limits of a remote image |

Theorems worth proving, in this order: the planner's agreement; the engine's type
invariant and mutual exclusion; what website and database agree on; the step
simulation of `ConversationLog`; the lives of the process; who has which Page; what
happens to Files and their bytes; what the client of a stream was sent and in which
order; which answer a turn of the driver returns; what becomes of a request and of
its attachments, and of the log it leaves (all done).

## 3. The modules

### ContextPlanner

Translates `planner.ts` and the transcript checks of `request-context.ts`. A
message is a record of what its fingerprint is made of: role, body (text and
attachments), the ids of the calls an assistant message makes, the call a tool
message answers. `Contexts` stands for the pair of instructions and tool
fingerprint, which the planner only compares. Hashing is injective here.
`PlanContextSync` follows `planContextSync`: `MustRebuild` is the disjunction of
the early returns to `rebuild`; `Planned` is the call of `validatePending`,
whose exception is the result `PlanningError`. `ContextHistory` and
`AuthoritativeMessages` are the two functions of the engine that read a plan.

### ConversationEngine

| variable | in the code |
|---|---|
| `store` | tables conversations, messages, tool_calls; `synced` and `status` are the sync checkpoint |
| `queue`, `slot` | `tails` of the queue, and the key a request runs under; an anonymous queue key is the Conversation's id |
| `pc`, `job`, `turn` | one call of `execute` or `stream`: where it is, its request, its locals |
| `web`, `generating` | the website (external): what each conversation has been told and has answered |

Actions are the stretches between awaits: `Submit` (the handler up to
`queue.run`, with the first anonymous lookup), `Start`/`Refuse` (load, verify,
canonicalize, plan), `PreparePage` (acquire, open or restore, or the fallback to
a fresh chat), `Checkpoint`, `Send`, `WebAnswer` (external), `Complete` (parse,
build, save in one transaction), `Respond`, `Fail` (anything thrown, a timeout,
an abort: the Page is discarded and the checkpoint stays) and `Crash`. The
streaming and the other handler do the same steps; the one difference that
matters here, that an abort may stop the answer short, is covered by answers
being arbitrary. The website counts a Context Prompt as the messages it carries.

### StreamClients

The engine with clients that stream. A turn writes to its client when it has its Page,
while the answer grows, and after it is saved (`Written`). When the socket is full
`waitForDrain` (`sse.ts:22`) waits until the client reads or closes, with no
timeout; a close that came before the writer listened is never heard of
(`sse.ts:54`). So each of these writes may leave the turn `stuck`, with its Page and
its place in the queue; `Drain` is the client that reads or closes, which it need not
ever do. Everything else is `ConversationEngine`'s `Step`.

### ConversationLog

An owner for every Conversation and a log that changes by whole turns. The
refinement maps the log to the confirmed prefix, so a checkpoint, a crash or a
failed turn is invisible in it.

### PagePool, PageRegistry

`PagePool` has the sets `open`, `leased` and the order `idle` of the pool and one
operator per synchronous stretch. `PageRegistry` has the bindings (`bound`,
`busy`, and `lru`, their order by `lastUsedAt`), the timer, and for each actor
(Conversation, direct user, timer callback) where it is and which Page it holds.
Each await is a step: `newPage()` in acquire, the throw of a full pool before the
eviction, the retry after it, `newPage()` of the replacement, closing a Page in
the expiry loop. A lease is identified with its Page, and what refers to an ended
lease is dropped, because release and close do nothing then. Wall-clock time is
left out: the timer finds any non-empty number of the oldest idle bindings
expired. Closing the whole registry or pool is a stage of `GatewayLife`.

### FileStore

`files`, `blobs`, `attached` are tables; `bytes` and `parts` the blob and the
temporary directory; `task` an upload, a delete or a turn; `leases` the lease
counts. `withHashLock` is the set `InLock` of places. `CopyBegins`/`CopyEnds`
separate creating the destination file from filling it; a file removed in the
middle of a copy is gone. `RemoveBytes` is the `rm` that runs after the rows have
been deleted. `CleanFile` and `Sweep` are startup cleanup, after which requests
are served.

### AnswerStream

One turn of `streamConversation` after its Page is ready, with everything the
text passes on its way to the client.

| variable | in the code |
|---|---|
| `samples`, `emitted` | `StablePrefixState` of `stable-prefix.ts` |
| `waiter`, `polls` | `stableText` and `consecutiveStable` of `completion.ts`, and its clock |
| `detector` | classification and buffer of the `ToolDetectionBuffer` |
| `item` | `textItemStarted` of the Responses encoder |
| `outbox`, `delta` | the frames of the sink call that is awaited |
| `wire`, `seen` | what was written to the client; the texts of its deltas |
| `saved`, `failure` | the answer in the final aggregate, or what ended the turn |
| `closed`, `deaf` | the connection is closed; it was so before the SSE writer listened |
| `calm`, `deep`, `quiet` | history, for the properties only |

A text is a sequence of symbols, a frame its kind. `See`, `Diverge`, `SeeMarker`,
`SeeNothing` and `Vanish` are the outcomes of a poll: the website (`Rerendered`)
takes up to `MaxRewrite` symbols away and writes a chunk. The code observes the
text for the stable prefix and for completion in one callback, and so does `See`;
the last poll of the completion loop and its reread, which the code makes without
a pause, are two polls. `Flush` and `Finish` give out what was held back, `Save`
parses and saves, `Announce` sends the two last events. While `outbox` is not empty
the handler waits (`At`) and only `Write`, `WriteFails` and `ClientCloses` go on.
Every exception goes through `Throw`, which forgets the locals and leaves the error
frame to be written. What happens to the rows, the website and the Page meanwhile
is `ConversationEngine`'s.

### DriverTurn

The turns of one Conversation, one after the other, on Pages that show the
website late.

| variable | in the code or outside |
|---|---|
| `web`, `text`, `writing` | the website: turns of every chat, what is written of each answer, by now or for ever |
| `page` | what each Page shows: its URL, and the turns it has mounted |
| `idle`, `bound`, `other` | the pool as far as this Conversation sees it; other users take idle Pages and leave them anywhere (`PageRegistry` has the real pool) |
| `saved` | the URL of the Conversation, as the engine saves and forgets it |
| `turn` | the locals of `openConversation`, `startText`, `observe`: step, baseline, stable samples, tiles, the modal, flags; `lapsed` is history |
| `answers` | what each turn has returned |

After a navigation the composer is there before the old turns are (`Mount`), and a
chat that begins shows a provisional route and a ghost node until it gets its URL
(`Settle`). How a Page came to what it shows is its `past`: it mounted the chat last
(`opened`), was reloaded since, or the chat grew from another Page (`behind`). The
website changes the composer as it likes until the prompt is sent (`ComposerChanges`):
tiles appear and vanish, uploads end and are taken back, the modal comes up. `OpenConversation` skips navigation on a Page that is there already;
`Hydrated` wants the old turns, complete, in two samples. `StartText` takes the
baseline; `Uploaded` waits for the attachments, `Compose` enters the prompt and
looks at them once more, and nothing looks at them after that (`driver.ts:641`); `Click`
and `RetryClick` send, where a click may be delivered and report failure all the same; `Look`, `Complete`, `CompleteBesideStop`,
`KeepObserving`, `Verify` and `Reload` read the answer at the baseline's position;
`StopTurn` and `Fail` end a turn, which gives its Page up. Locators are what a Page
shows. The login probe and the chunks in which a long prompt is typed are left out.

### GatewayLife

A life of the process goes `migrating`, `cleaning`, `launching`, `building`,
`listening`, `serving`, with a migration directory that may change between lives.
`closing` is the stage of the shutdown that comes next; every stage may throw, the
server and the database included, and the next one comes all the same (`After`); a
browser or a database whose own close throws may stay open (`threw`). `shutting` is `shuttingDown` of
`index.ts` with its exit code, `fatal` is `browserFatalBeforeReady`. Requests are
reduced to what they need of the process (`Needs`): the queue, the database, the
registry, the pool, the browser. An image is a temporary file, its bytes and its
row, with the compensation of `ImageGenerationService.generate`, whose removals may fail
unnoticed (`Removed`). A turn, or an image's reply, may be `stalled` by a client that
does not read, as in `StreamClients`, and turns of its Conversation (`KeyOf`) wait behind
it (`Held`): app.close() waits for all whose clients stay. A process with nothing left
to do ends, even with such promises unsettled (`Exit`). `Kill` ends a life anywhere. The database is durable; a migration is one transaction.

### ApiRequests, Attachments

`ApiRequests` has the transcript of either API as items: a Chat Completions message
or a Responses item. `NormalizeChatCompletions` and `NormalizeResponses` take the
instructions out, number the attachments and keep every other item as one message.
`EncodeChatCompletion` and `EncodeResponse` are the items in which an answer goes
out. A text is the sequence of its lines; a tool name is a sequence of characters
in which "P" is the marker of custom tools and "::" the separator. `Picked` is
`Array.filter`, in a form in which proofs can say where an element comes from.

`Attachments` follows one turn: descriptors are resolved (`Resolved`), messages
become canonical with them (`CanonicalMessage`, `CanonicalStoredMessage`), the plan
is made on fingerprints (`PlanWithAttachments`), references are chosen and staged
under names (`UploadReferences`, `Staged`), the prompt names them (`NamedIn`), and
the final aggregate keeps the records of the unchanged prefix and binds new ones
(`FinalAggregate`).

### PlannedTurn

Composes these with `ContextPlanner` into one turn: a client's request meets a
Conversation stored in some state (`StoredAs`), `PlanIt` plans it, `RunIt` sends, gets one
of `Answers`, a text or tool calls under ids nobody has seen, and saves it with the
records. `Families` gives the logs with the requests that may
meet them; `MCContextPlanner` makes these by normalizing items of both formats.
`PlannedTurnAssumption` asks of them what the code before this point ensures: a stored
log makes and answers every call once (`SoundLog`) and passed `validateAggregate`
(`Filed`): messages and attachment records have ids of their own, and the records are
just those of the places where messages enclose something. A request passed the
validation of its transcript, only its assistant messages have calls, a tool message
names the call it answers (`Plannable`), and it was made from items the API accepts by
resolving what they enclose (`WellMade`). TLC evaluates all of this on every log and
request of the run. `SavedLogsAreLogs` (section 6) shows that the part about logs
holds again for what a turn saves.

## 4. What is checked

Bounds are the CONSTANTS of each cfg; the guards `submits < MaxSubmits`,
`crashes < MaxCrashes`, `failures < MaxFailures`, `lost < MaxLost` are the only
ones inside the models, with two that are named at their place: one timer
callback at a time (`PageRegistry`) and an id for every creation in progress
(`FileStore`).

| run | instance | properties |
|---|---|---|
| `planner` | both APIs; all saved logs up to 4 messages and valid requests up to 5 with two tool calls, up to 3 and 4 with five ways to enclose files; two contexts; tool names of up to 2 characters; the answer a text or a call | `PlanReachesTarget`, `TargetIsSound`, `RefusesOnlyForeignResults`, `PromptMatchesUploads`, `SavedReadsBack`, `AnswersComeBack` |
| `engine_concurrent` | 2 requests at a time, 3 in all, 1 key and anonymous, 3 Conversations and URLs, forking transcripts and an invalid one, 1 crash | `CleanMatchesWeb`, `UrlExclusive`, `OneTurnPerConversation`, `OneConversationPerKey`, `InFlightWhileUncertain`, `ImplementsLog`, `TypeOK` |
| `engine_tools` | `MCStreamClients`: 3 requests in all, tool transcripts with two call ids alone, text transcripts 2 at a time, 1 client at a time that does not read, 1 crash, fair | `PromptDeliversTranscript`, `ToolCallsSound`, `RequestsEnd` |
| `page_registry` | 2 Conversations, 1 direct user, 2 open Pages by the limit and 5 Page objects, 1 failing `newPage()`, 1 lost Page, fair | `PagesNotShared`, `LeasesAccounted`, `KeepsLastPage`, `IdlePagesExpire` |
| `file_store` | 2 tasks, 3 Files, 2 contents, 2 Conversations, 1 crash | `UsedFilesKept`, `BlobInsertedOnce`, `NothingLeftBehind`, `OnlyLateRemovalsLose` |
| `answer_stream` | one answer of up to 7 symbols, chunks with white space and with parts of both markers, 4 polls, 2 samples, holdback 1, rewrites of up to 2; both APIs, with and without tools; fair | `SavedIsSeen`, `PrivateMarkerHidden`, `WireFollowsProtocol`, `ShallowRewritesSurvive`, `SavedWhenQuiet`, `ResponseEnds` |
| `driver_turn` | 3 turns, 2 Pages, 2 chats, answers of up to 2 chunks, none or 2 attachments, 2 reloads | `OwnAnswerUnlessTorn`, `WholeAnswerUnlessTornAgain`, `PromptSentOnce`, `SavedChatAnswered`, `PromptCarriesFiles` |
| `gateway_life` | 3 lives, 5 migration directories, 2 turns of one Conversation, 1 image, fair | `SchemaIsDeployed`, `ImagesAccounted`, `EndsInOrder`, `AcceptedAreServed`, `LostBrowserEnds` |
| `page_busy`, `page_capacity`, `file_bytes_late`, `stream_close` | | violated: section 5 |

Why the bounds are enough. Three requests on two slots let a turn be in progress
while a second one waits and a third one comes after the first has failed; with
three Conversations there is one for the key, one that is continued and one that
is new. Two transcripts that extend the same first answer differently make two
clients diverge. One crash at any step is enough because a crash clears all
memory, and requests follow it. `engine_tools` checks liveness, where a symmetry set
would be unsound: its action constraint `Environment` takes the first free of the
slots, ids and URLs, which are alike, and lets a request with tools run alone and
only from the second on at the latest, because two such requests at a time add
nothing to what `engine_concurrent` shows of interleavings. A turn that waits for its
client meets one other request, in its queue or in another one. `PagesInOrder` does the
same for Pages. In the registry two Conversations and a direct user on a pool of two
Pages make every acquire compete, and five Page objects let the limit be overrun and
one Page be lost; a third Conversation would run out of Page objects before it met
anything new. In the file store two tasks already meet
in every place where the code is not atomic; three File ids let two Files share a
content while a third one is created.
In `answer_stream` the two markers share their first symbol, as the real ones do,
so that a delta can end where nothing is decided yet; seven symbols hold a start
marker, two calls and an end marker with white space. Two samples, a holdback of
one and rewrites of two are the smallest numbers for which a rewrite can stay
inside the holdback or reach into what was sent. Four polls let a text become
stable, change in the reread, and become stable again.
In `planner` a log of two rounds with tools and a request with one more message than
it holds is the first instance of everything the planner distinguishes: a
continuation, a divergence at every place, several new turns, results alone. With
files, three and four messages let two enclosures with one name meet, stored and
new, and a stored record be kept while a later one is made. One text and one call are
the two forms of an answer; which text, or how many calls, its row does not tell apart. Responses transcripts
with tools are those with an answer of several calls only; without one they are the
same messages as in Chat Completions. In `driver_turn` the third turn meets the
Page on which the first two ran, and the second Page is the one on which an answer
is verified, or another user's; with two reloads a turn that was torn can be followed by
one that is. Two attachments are the least of which one can be ready and one not. In
`gateway_life` two turns let one wait behind the other, and the third life follows one
interrupted migration and one rollback or edit.

`CHECK_DEADLOCK FALSE` is used where a behaviour ends because all requests have
been submitted (the engine), the turn has been saved (the planner), the turn has
ended (`AnswerStream`), all turns have been made (`DriverTurn`) or all lives have
been lived (`GatewayLife`).

**Fairness.** `StreamClients!FairStreamSpec`: weak fairness of the steps of each
request that does not wait for its client. Every other await in a turn has a timeout
(navigation, composer, completion) or ends with the client's connection. A `stuck`
turn takes no step and nothing makes its client read or close, so `RequestsEnd` has to
name who is held up: a request whose own client, or that of the turn its
Conversation is in, waits for ever; nobody else. Nothing is assumed about new
requests, the website's answers (a turn may always time out) or crashes. `PageRegistry!FairSpec`: opening a Page ends, a turn ends
(`Fail`, so no assumption that it succeeds), the eviction and retry of an acquire
follow, and a timer that is set fires. `IdlePagesExpire` excuses behaviours in
which `newPage()` has failed: a failure inside the timer callback does lose the
timer (`page-registry.ts:108`). That `page.close()` ends without an error
(`page-pool.ts:81`) is part of the model: one that rejects there loses the timer, too.
`GatewayLife!FairSpec`: the process goes on with what it has begun (`Ready`, a stage of
its shutdown, `Exit`), and a request goes on (`Fails`, `Remove`, `Answered`) unless it
waits for its client or behind such a turn in its queue. Clients owe nothing, so
app.close() may be waited for for ever, and `LostBrowserEnds` excepts exactly that: from
some time on a client is always connected that does not read, or is held up by such a
one. Nothing is assumed about starts, signals or success.
`AnswerStream!FairSpec`: the handler goes on. Polling ends by `CanPoll`'s bound,
which stands for the generation timeout, and every other await by a timeout of the
driver (`Interrupt`); a write ends because the client reads or closes. Nothing is
assumed of the website or of the client otherwise.

Each property of a passing run has a mutant in `PROJECT.json`: a definition of the
model changed the way a bug would change the code, under which TLC finds the
property violated.

## 5. What the code does otherwise than its documents say

* **`page_busy`**: the expiry callback closes every binding of its snapshot
  without looking at `busy` again after an await, so a turn that started in
  between loses its Page (`page-registry.ts:87`; `docs/architecture.md:132`).
* **`page_capacity`**: the pool's limit is checked before, and the Page counted
  after, the await of `newPage()` (`page-pool.ts:52`; `README.md:188`).
* **`file_bytes_late`**: bytes are removed after their rows, outside the content's
  lock; an upload that adopts them in between ends with rows without bytes
  (`file-service.ts:382`; the Phase 6 design, lines 466 and 483).
  `OnlyLateRemovalsLose` shows that this removal is the only step that can do it.
* **`stream_close`**: a client that closes after completion was confirmed, while
  the tail of the answer is written, makes the turn fail and its answer is not
  saved (`text-stream.ts:44`; the Phase 5 design, lines 81, 946 and 1015). Only
  the two last events are guarded.

One more was met and has no run of its own. `createSseWriter` registers its close
listener when the first event is sent (`sse.ts:54`). A client that closes earlier,
while its request waits in the queue or its Page is prepared, is not noticed by
the writer; writing to the destroyed response returns false and no event follows,
so `waitForDrain` never returns, and the turn keeps its Page and the queue of its
key. The design expects the sink to fail then (the Phase 5 design, lines
825-827). In `AnswerStream` this state is `deaf`, and `ResponseEnds` excludes it
by name, because it speaks of one response only. What such a turn does to the others is in
`RequestsEnd` and `LostBrowserEnds`: it holds up its own Conversation and, if another
client stays connected behind it, the shutdown.

## 6. What is proved

`ContextPlanner_proofs` — `PromptsReachAuthoritative`, for every stored
Conversation and every valid request, of any length: a plan that rebuilds carries
the authoritative transcript as history and pending turn; a plan that appends is
made for a `clean` Conversation with a URL only, its confirmed messages followed
by the pending turn are the authoritative transcript, and so is the history of
the fallback followed by the pending turn. The argument goes by what a plan can
look like (`PlanShape`), by splitting a request at its pending turn
(`RequestSplit`, from the range of `PendingStart`), and by a prefix
that is followed by exactly the pending turn (`PrefixSplit`).

`PlannedTurn_proofs` — `PlansReachTheirTarget`, `TargetsAreSound` and
`OnlyForeignResultsRefused`, under `PlannedTurnAssumption`: logs and requests of any
length, any attachments, checkpoints and contexts. The invariant `TurnInv` only says
that the plan was made from this log and request; the work is in what that plan is.

* `PrintsType`, `PrintsSplit`: a fingerprint differs from its message in the body only,
  so the plan, which is made on fingerprints, splits the request where a plan of the
  messages would;
* `ResultsArePending`: the pending turn of a request that ends with a tool result is
  nothing but results;
* `FullFits`, `IncrementalFits`: a full request brings the history its pending turn
  fits; an incremental one is its pending turn, which fits the confirmed log or is refused;
* `InStepWithHistory`: whatever is appended goes behind messages the request repeats.

`PromptsNameTheirUploads`, `SavedTurnsReadBack`, `SavedLogsAreLogs` and
`RepeatsAreContinued`, there too, follow the attachments. The code finds them by counting,
in lists that are put one behind the other, so the argument is about places.

* `FlatAt` and `FlatOnce`: every element of a flattened list of lists has one place
  there and one in a list of the lists. `FlattenSeq` is recursive, so the first step is
  that the partial results exist for every length (`RunsExist`) and are what it
  computes (`FlatIs`). `ListAt` says so for what a filter picks from every list;
* `CoalescedIs`: joining neighbouring texts keeps all attachments in their order and leaves
  no two texts side by side; `CoalescedAgain` and `ReadAgain`: doing so again, when the
  content is read back, changes nothing;
* `RequestIs`, `StoredIs`: in the messages of a client, and in those read from a log,
  every attachment is one item (`Carried`), of its File's name and, but for images,
  type (`Faithful`), and no two have one reference (`OneReference`). So the number of an
  enclosure, which the code counts in three places, is the same in all of them;
* `SavedIsFiled`, `SavedAgain`: the kept and the created records together are those of
  the saved messages, one for each place (`Saving`), and give back the messages that
  were saved, but for references and the types of images;
* `NamesDiffer`: the upload names of different attachments differ, because the counter
  of a name only grows, as long as no name looks like a numbered one
  (`NumberedByClient`);
* `NamedAreThere`, `UploadsAreNamed`: the uploads are chosen by the plan, the messages by
  what happened on the Page; both show the same attachments, unless a Page could not
  be restored (`FellBack`).

The invariant `RanInv` only says what a turn that ran has sent and saved.
`SavedLogsAreLogs`: the log a turn leaves satisfies again what is assumed of logs
(except that its bodies are among the constant `Bodies`), so nothing
of it need be assumed of a log that turns have made. `RepeatsAreContinued`: a client that repeats the
transcript of a saved turn is continued, unless an image was stored under another type
than its bytes have (`Retyped`, section 7); that both cases occur was checked by TLC on
a small instance. The request may enclose the same files in other ways and under other
references, because a fingerprint has content, name, kind and type of an attachment only.

Two theorems about the names of tools hold over any alphabet with ":" and the marker:
`CalledNamesComeBack`, a name ChatGPT calls is the name the items stand for when they
come back, and `DeclaredToolsComeBack`, a declared tool is called back under its own
kind, namespace and name. The second needs `Separable`: no separator in the namespace or across
its end, and none in a name without namespace. Without that, and for a function whose
name begins like a custom tool's (section 7), it is false.

`ConversationEngine_proofs` — under `EngineAssumption` only, with any number of
requests, Conversations, keys and URLs and without finite sets (that only assistant
messages of a transcript have calls is a matter of both request formats):
`TypeCorrect`, `OneTurnAtATime`, `KeysAreUnique` and `UncertainIsMarked`, all from
`InvariantHolds`. None of the four is inductive by itself. The invariant adds

* `QueueInv`: a request with a queue key is in that queue exactly once and in no
  other, and a request whose turn has begun is at the head;
* `JobInv`: a request in progress has a job, and its queue key is its key, or the
  Conversation it found, or it has none;
* `StoreInv`: of every stored Conversation some prefix is confirmed, so that it can
  be planned against;
* `TurnInv`: a turn was planned against its Conversation, which stays as it was
  until the turn marks it; that Conversation has the request's key, or is the
  anonymous one the request waited for, or is new and the first with its key; plan
  and prompt fit together; from checkpoint to save its row is `in_flight`.

Two turns under one queue key are impossible because both would be at its head;
two turns under different queue keys have different Conversations by `TurnInv`:
a row has one key, and an anonymous Conversation has its id as its queue key. The
step that needs most care is `Start`, where a fresh id is drawn; there is one
lemma per conjunct (`QueueStep`, `JobStep`, `StoreStep`, `KeyStep`, `TurnStep`,
`OneTurnStep`), each with one step per action.

`CleanIsOnTheWeb`, `UrlsAreApart` and `PromptsDelivered` follow, in the same module,
from `IInv` and a second inductive invariant, `WebInv`, about
the website. It adds to `CleanMatchesWeb` and `UrlExclusive`

* `RowsOnWeb`: a row that names a URL names a chat that is not empty, so that a
  fresh chat is nobody's;
* `TurnsApart`: two running turns have different URLs;
* `AppendReady`: between checkpoint and append the website shows the messages the
  turn was planned against, and nothing is being generated there. That row was
  clean when it was loaded and is `in_flight` now, so `CleanMatchesWeb` alone no
  longer says so;
* `Delivered`: after the prompt the website has `Authoritative(r)`, and one answer
  behind it as soon as it has stopped generating. The planner's theorem shows that
  either prompt leads there.

`SentPrompt` is the heart of it: the URL a prompt goes to is in no other turn and in
no row but the turn's own. Steps that touch neither rows, website nor URLs are
covered by `QuietStep`.

`EngineImplementsLog`, also there: the engine implements `ConversationLog` under the mapping of `ImplementsLog`. `LogInv` says that the log of
a Conversation stays what it was when its turn was planned, and that an anonymous
turn never rebuilds a stored Conversation (it was found by planning an append, and
is looked up again after the queue). So the first checkpoint is `Create`, a later one
a stutter, and completing a turn is `Continue` or `Adopt` according to the form of
its transcript (`TranscriptForms`).

`ToolCallsAreSound`: in every saved Conversation each call is made once and each result
follows its call and is its only one. `CallsInv` says it of the rows, of the website and of what
running turns were planned against; what is new, the pending turn and the answer, is
sound behind them by the planner's validation, and a parsed answer gets fresh ids.

`WaitingIsStuttering`: `StreamSpec` implies `Spec`. A turn that waits for its client is one
that has not taken its next step yet, so all of these theorems hold with clients that do
not read as well.

`WebInv` and `LogInv` were model-checked with the constants of `engine_concurrent`
and `engine_tools` before they were proved.

`GatewayLife_proofs` — `ServesDeployedSchema`, `ImagesAreAccounted`,
`LivesEndInOrder` and `NobodyIsCutOff`, under `LifeAssumption` only: any migration
directories, any number of lives, turns and images. `LivesEndInOrder` says what it
excepts: a life killed, or thrown out of `listen()` while its shutdown runs, leaves things
open, and a browser that is lost during a signalled shutdown is no reason for another
exit code than 0. The inductive invariant `IInv`
is the type invariant and

* `SchemaInv`: what the database has executed is what it has recorded, and from
  `cleaning` on that is what is deployed. The step that needs care is
  `ApplyMigration`: the least missing version is the next one, because everything
  that was applied is among the deployed files, which are numbered without a gap;
* `StageInv`: what is open, lost or closed, or has thrown when it was closed, for every
  stage of life and shutdown;
* `DoomInv`: a browser that was lost before any shutdown has left `fatal`, a shutdown
  with code 1, or an error behind;
* `ServeInv`: clients wait only for a process that serves and has closed nothing but
  its server;
* `ImageInv`: what an image has on disk follows from where its request is.

`PageRegistry_proofs` — `NoPageShared`, `NoLeaseLeaks`, `LastPageStays` and
`PagesTypeCorrect`, for any Pages, direct users and (finitely many) Conversations, any
pool limit and any number of failures. The inductive invariant `IInv` is the type
invariant, `PagesNotShared`, `LeasesAccounted` and

* `PoolInv`: the idle Pages are open and in the order only once, and some Page is open;
* `ActorInv`: who works with a Page or closes one knows which; who waits for one is
  bound to none; a Page has one Conversation at most; the binding of a running turn is
  busy, unless it is gone;
* `ClosingInv`: a Page that waits for its replacement, or in the list of the expiry
  loop, is not idle in the pool and no direct user has it. Without it the loop could
  close a Page somebody else has got meanwhile;
* `UnboundInv`: a running turn whose binding is gone has a Page that is not leased
  any more, or is being closed: this is why `complete` may leave such a lease alone.

Two steps give somebody a Page (`GotStep`, of a Page that is `Free`, and `ReuseStep`).
All others only take Pages away, and `LeaveStep` proves the invariant from what they
have in common: `ActorsLose`, `PoolGains`, `LeasesEnd`. The order of last use plays no
part: the least recently used binding could be any idle one. Sets in the order of
insertion are sequences without repetition (`Distinct`), and the lemmas about
`Without`, `Append` and `Tail` say which elements they have.

`FileStore_proofs` — `UsedFilesStay`, `BlobsAreUnique`, `NothingStaysBehind`,
`OnlyLateRemovals` and `FilesTypeCorrect`, under `FileAssumption` only: any Files,
contents, Conversations and tasks, any number of crashes. The inductive invariant
`IInv` is the type invariant, `UsedFilesKept` and

* `RowsInv`: every File has its Blob, every Blob a File;
* `OwnInv`: the File a task has created is that task's alone, private and not deleted
  until the caller has learnt its id. So a delete of a public File, and a release,
  cannot take it, and `Discard` takes nobody else's;
* `LockInv`: who works under the lock of a content is the only one there, and there is
  no Blob of that content. It holds without a word about bytes, which a removal
  outside the lock may still take;
* `DiskInv`: bytes without a Blob belong to a task that is about to insert the Blob or
  to remove them, and a temporary file to a task that has not yet tidied up. A task
  that adopts or rejects the bytes it finds needs no clause of its own: whoever left
  them there is still `Working`;
* `DownInv`: nothing runs before startup cleanup is over.

`MoveStep` proves the invariant for every step that neither creates nor deletes a row,
from what such a step may do at most (`RowsStay`, `OwnStays`, `LockKept`, `DiskKept`);
`GoStep` and `AnewStep` are its two usual forms. `SaveStep` and `DeleteStep` are the
others. `RowsHaveBytes` does not hold (section 5); `OnlyLateRemovals` says that once
bytes and Blob are both there, only a removal outside the lock parts them.

`AnswerStream_proofs` — `SavedSeen`, `MarkerHidden`, `ShallowSurvives` and
`QuietBeforeSaved`, under `StreamAssumption` only: any alphabet, any start marker, any
texts of any length, any holdback and number of samples. The first half are lemmas
about texts. Those that carry the weight:

* `OpensGrows` and `NeverOpens`: a text that begins with the marker, after white space,
  goes on doing so, and one that can no longer begin with it never will. So the
  detector decides once;
* `MarkerComesInside` and `EnoughIsHeld`: when the buffer keeps what may be the
  beginning of a marker (`HeldBack`) and the whole text had no marker yet, a marker
  that comes with the next delta lies in the buffer, however it is cut;
* `TrimOpens`: the parser, which trims both ends, finds a tool call only in a text the
  detector took for one. With `ParseAgrees` the two never disagree about an answer;
* `CommonPrefix` and `ShallowIsSafe`: what was given out is a prefix of every sample and
  of what the rewrites so far left alone, as long as none went deeper.

The inductive invariant `IInv` ties the buffers together: what was sent and what the
detector keeps are together what the stable prefix gave out (`DetectInv`), a delta is
in the outbox or there is none (`OutInv`), an answer is saved when nothing is on its
way (`SavedInv`), and the completion loop counts no poll that was not seen
(`QuietInv`). It was model-checked with the constants of `answer_stream` before it was
proved. `FramesInOrder` is about the protocol of both APIs (`WireFollowsProtocol`). Its
invariant `WireInv` speaks of the `Sheet`, what is on the wire and what is on its way
there: that is in order, and as long as the answer can go on (`Started`) nothing terminal
is in it, its item is open exactly when the encoder says so, and there is no delta
or item without text. One lemma, `AppendFrame`, says when a frame may come next;
the frames of several tool calls are handled by the least place where they would break the rules.

`DriverTurn_proofs` — `OwnAnswerReturned`, `WholeAnswerReturned`, `DeliveredOnce`,
`SavedIsAnswered`, `FilesComeFirst` and `TypesAreRight`, under `DriverAssumption` only:
any finite set of Pages, any chats, turns, attachments, chunks and reloads. The
inductive invariant `DInv` is the type invariant and

* `Owned`: every Page is with the turn, retained, with another user or idle once;
* `Prompts`: a prompt is on the website once, from its delivery on, and nothing else is
  answered; before that all of its attachments are ready (`Loaded`), but for those that have
  lapsed since the last look;
* `Views`: what a Page shows of a chat lags behind the website, and a Page that counts as
  having mounted its chat shows all of it: the others at a chat that grows no longer count;
* `Kept`, `Continued`: the chat that stays saved consists of turns that have returned, and a
  turn that continues a chat continues that one;
* `Counted`: an untorn turn has counted all answers of its chat;
* `Positioned`: after the send its prompt is the last of the chat, at the position it counted;
* `Read`: what is read there is its own, and what is kept over a reload is finished;
* `Returned`: and so are the texts that were returned.

The step that needs care is the count: `OpenConversation` may skip the navigation, so
`Views` has to say for every Page, whoever had it before, what it may still be showing.
`DInv` was model-checked with the constants of `driver_turn` before it was proved.

Only model-checked:

* liveness (`RequestsEnd`, `IdlePagesExpire`, `ResponseEnds`, `LostBrowserEnds`), which is
  out of the prover's reach;
* `AnswersComeBack`: it speaks of the transcripts `MCContextPlanner` makes, item by item
  and in both formats, and is kept as the test of the encoders. `RepeatsAreContinued`,
  `CalledNamesComeBack` and `DeclaredToolsComeBack` are its two halves for requests of
  any size, except that they begin where the client has repeated the items of an
  answer: that encoding an answer and normalizing it again gives its message stays with TLC;
* that `PlanContextSync` is the independent definition in `MCContextPlanner`.

## 7. What else was found

These have no run of their own, because the properties that hold name them as their
exceptions.

* **An old answer after a reload.** `resynchronizeCompletedSourcePage`
  (`driver.ts:460`) reloads the Page on which an answer was verified and returns as
  soon as the composer is there and Stop is not. The next APPEND finds the same
  pathname (863), does not wait for the old turns (877), and `startText` may count
  no answers at all; the answer at that position is then the first one of the
  conversation, complete, and is returned and saved as the new one. Checking
  `OwnAnswer` in place of `OwnAnswerUnlessTorn` with `MCDriverTurn.cfg` shows the
  behaviour. Once the Page has mounted the chat again the turn is held to the property. `docs/architecture.md:145` and the Phase 5 design, line 299, want a turn
  to read its own answer only. The same happens on
  a Page that a probe of the diagnostics gave back without having navigated, when its chat
  has grown on another Page since.
* **And an unfinished one.** Such a torn turn can return the older answer while its own
  is still being written. A later torn turn can then find that unfinished answer at its
  position, take it for one that was complete before, and return it. It takes four
  turns and two reloads, more than `driver_turn` has: the inductive invariant did not
  hold without the exception that `WholeAnswerUnlessTornAgain` names.
* **An attachment that is gone when Send is clicked.** Readiness can regress, which is why
  `driver.ts:631-640` looks again after the prompt was entered. Between that look and the
  click (641), and between a click that met the modal and the second one (312-324),
  nothing looks: the prompt then goes out without the attachment.
  `docs/superpowers/plans/2026-08-18-phase-6-attachments-files.md:418` wants Send "never
  clicked before all owned uploads are ready". `PromptCarriesFiles` excuses exactly this
  gap (`turn.lapsed`); without the excuse `MCDriverTurn.cfg` shows it.
* The reload also means that a turn can return the text read before it, that an
  answer which is not mounted yet when streaming goes on is taken for one that has
  disappeared, and that `stop()` is not possible while it lasts. The Page opened for
  verification is not counted against the pool's limit.
* **Answers of several calls, in Responses.** They go out as one item per call and
  come back as one item per call; `normalize/responses.ts:183` makes a message of each,
  while one message with all calls was saved. Such a transcript never continues
  its web conversation: with a key it is rebuilt in every turn, without one it is a
  new Conversation every time. `docs/api-compatibility.md` says that both APIs map to
  the same normalized request. `AnswersComeBack` shows that this and the next item are
  the only ways to get there.
* **Images by file id.** Resolving gives them the type their bytes have
  (`resolver.ts:197`), reading them back the type of the File's row (85). An image
  uploaded under another type, or with none, never continues its conversation either.
* **Upload names.** The second "notes.txt" becomes "notes (2).txt"
  (`staging.ts:119`), which may be the name of another attachment of the request.
* **The fallback of a failed restore** sends the history with the uploads of the
  planned append: the prompt names attachments that are not there. A rebuild may
  upload more attachments than `MAX_ATTACHMENTS_PER_REQUEST`, which is checked on the
  request alone. Images in a `function_call_output` are resolved and then dropped from
  the canonical message (`request-context.ts:42-48`).
* A function tool in a namespace that is called like the marker of custom tools
  comes back as a custom tool.
* The lookup of a remote image's host (`network-policy.ts:145`) knows neither the
  signal nor the total timeout: both are looked at again when it has ended. A
  response whose temporary file cannot be opened (`file-service.ts:348`) is read and
  closed by nobody and stays open until that timeout.
* `defaultRemoteTransport` pins the address by a `lookup` that answers with one address
  (`network-policy.ts:245`). Node.js calls a custom `lookup` with `all: true` and wants a
  list when it selects the address family itself, which is the default of the version
  `package.json` requires. The tests inject a transport of their own, so this
  should be tried. This and the item before come from reading; no module has
  the fetching of remote images.
* `listen()` that fails while a shutdown is already running ends the process at once,
  with the database and the browser open (`index.ts:49-52`). `EndsInOrder` names this end.

## 8. What is not modelled

* Of the HTTP API: schemas, authentication, ignored parameters, refused ones, and the
  table of error codes: stateless, and no property here depends on them.
* The contents of SSE frames other than the text of deltas, and the JSON of tool
  calls: the parser's verdict on a payload is a set of accepted ones. Structured output
  is a check of one answer, whose failure is a `Fail` of the engine.
* The bytes of attachments: size limits, Base64, image signatures, the staging
  directory, and the address policy and redirects of a remote image.
* That several small rewrites in a row, each inside the holdback, may together
  reach what was sent and end the turn: this happens, and no document excludes it;
  `ShallowRewritesSurvive` says what is kept.
* Private Files without an attachment, and image bytes left by a killed process, are
  never collected; no document says they are, so there is nothing to check.
* What a migration does to the tables; reading Files and images; the choice of one
  image on a Page; selectors and inspection; configuration.
* The executors of earlier phases (`conversation-executor.ts`,
  `phase3-executor.ts`, `phase4-request.ts`, `conversation-pages.ts`,
  `context/sync.ts`): not used by the runtime.
* Backup, restore, container scripts and the maintenance browser: run by hand on a
  stopped system.
