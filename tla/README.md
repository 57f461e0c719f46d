# A TLA+ model of x-tool

x-tool is a proxy in front of language models. Clients speak one of three protocols (OpenAI chat
completions, OpenAI Responses, Anthropic messages); upstreams speak one of the same three. Where an
upstream model has no tool calling of its own, the proxy injects a prompt that teaches the model to
write tool calls as text after a secret *trigger*, and turns that text back into tool calls: a *soft
tool call*. An admin API changes the configuration of the running program.

This directory holds TLA+ modules that model the parts of the program where order, concurrency and
failure matter, TLC configurations that check them on small instances, and proofs that TLAPS checks.
Every definition is translated from the Go code; `PROJECT.json` (`map`) names the lines.

    tlc -workers 2 -config MCDetector.cfg MCDetector      # one run; all runs are in PROJECT.json
    tlapm StreamEmitters_proofs.tla                       # the proofs of one module

## The system: components, state, operations

### The streaming pipeline (`internal/proxy`)

A streamed request runs in one goroutine. An **engine** reads the upstream's response line by line
and calls the functions of a `chatStreamCallbacks` value; an **emitter** supplies those functions and
writes the client's events. Any engine can drive the emitters of its protocols:

| engine | emitter |
|---|---|
| `streamChatCompletion` (`stream_helpers.go`) | `proxyStream` (`upstream_proxy.go`), `streamResponsesWithCallbacks`, `streamAnthropicWithCallbacks` (`protocol_handlers.go`) |
| `streamResponsesUpstream` (`same_protocol_tools.go`) | `streamResponsesWithCallbacks` |
| `streamAnthropicUpstream` (`same_protocol_tools.go`) | `streamAnthropicWithCallbacks` |

* *Chat completions engine.* State: where the read loop is, the detector, what was called back. It
  connects, reads, feeds content to the detector when soft tools are on, parses tool text when a turn of
  it is complete or the stream ends, and calls `OnDone`. Hard: many ways out of the loop (status, read
  error, end of stream with and without a last newline, complete tool turn), text that is held back must
  still come out on each, and a write to the client may block for good. Correct when: `OnDone` exactly
  once, no text lost or shown twice, no tool text shown, every tool turn reported once.
* *Tool call detector* (`parser.go`). State: a buffer, detecting or tool parsing, the depth of think
  tags. Hard: tags, fences and the trigger are cut anywhere by the upstream's chunks. Correct when:
  the cuts make no difference.
* *Parsers of tool text* (`parser.go`, `soft_tools.go`, `tool_schema_normalizer.go`): three formats
  (XML, sentinel JSON, markdown blocks), pure functions. Arguments are fitted to the schemas of the
  tools; one invalid call spoils the batch. Hard: each format loses something, guesses types, and must
  decide about a text that was cut off. Correct when: a call written clearly arrives as it was meant, and
  nothing arrives that the request did not allow.
* *Native engines.* State: the event being assembled. Hard: events over several lines, streams that
  end or break inside one.
* *Anthropic and Responses emitters.* State: indices of open blocks or items, buffers, a stop reason.
  The chat emitter keeps none; each callback is a chunk. Hard: indices remembered from callback to
  callback, whatever the order of text, thinking, errors and tool calls. Correct when: a client can
  assemble the message from the events, and the same one in each protocol.

### Requests that are not streamed (`internal/proxy`)

Five near-identical loops ask the upstream, transform the response, and ask again if its tool text
is bad. State: the attempt, the response; they write to the tool call store. Correct when: at most
six requests, a good response is never asked for again, the answer is the last response, and the
store gets exactly the calls that are answered.

### Tool call store (`internal/toolcall`)

A map and a list under one lock, shared by all requests and a cleanup goroutine: `Put` (evicts the
least recently used beyond 1000), `Get` (drops what has expired), cleanup. Requests of all three
protocols write to it; the result a client sends later is put together with its call from it.
Correct when: map and list agree, and a call in use is not lost.

### Conversations and the prompt (`internal/proxy`, `internal/protocol`)

State: none but the names of the calls, in the store: the client keeps the history and sends all of it
each turn. Operations: convert between protocols, turn the calls and results of the history into text,
add the prompt that teaches the model. Hard: five pairs of protocols that group the same things
differently; places in a list computed before it is changed and used after; settings that change
between the turns, names that are forgotten. Correct when: all that was said reaches the upstream in
order, said by whoever said it, and the prompt is there once, where the settings want it.

### Admin API (`internal/admin`, `internal/config/store.go`)

State: the password's hash (a row of the features table), the sessions table; both survive restarts.
Every request is a goroutine that runs SQL statements one by one. Operations: login, logout, status,
password change, everything behind `RequireSession`. Hard: statements of requests interleave, fail
and are cut off by crashes. Correct when: what ended a session is final, only that ends one, the
admin API cannot lock itself out, and a password change is not undone.

### Configuration (`internal/config`, `internal/proxy/app.go`, `cmd/x-tool`)

State: three tables; in memory, the state behind an atomic pointer and the log level. Saving is a
transaction, loading three queries, reloading two stores; nothing serialises saves. Seeding at the
start is not a transaction. Correct when: what was answered "applied" runs, and restarts keep it.

### Routing (`internal/config/config.go`, `internal/proxy`)

State: none of its own; every request loads the configuration anew a dozen times. Operations: verify
the client key, collect the services it may use at the endpoint, choose one by model, protocol and
default, resolve the prompt profile, write the headers. Hard: a reload between any two loads; two
modes (keys passed through, models passed through) that change what each step means; `openai_compat`
services that serve every endpoint. Correct when: a key only reaches services it is assigned to, what
is listed is served, and a reload that leaves a model alone does not disturb requests for it.

### Log (`internal/logging`)

State: the file, its backups, a buffer, the estimated size, one mutex; a follower's offset and rest of
a line. Operations: write, flush (a goroutine, and every reader), rotate, close; list, follow. Hard: a
rotation is many calls to the file system, each of which can fail or be the last; readers look at the
directory without the mutex; the buffer writes to the file by itself when it is full. Correct when: the
files hold the newest records in order, the file keeps to its size, and what is read is what was written.

### Others

Runtime statistics (counters and a flush goroutine); schema migrations; the texts of prompts; raw
proxying; HTTP helpers; the admin user interface. See *Not modelled* and *Plan*.

## Modules

| module | what it models |
|---|---|
| `CallbackProtocol` | The contract between engines and emitters: any text, thinking and error calls, at most one batch of tool calls, one `OnDone`. An abstract specification. |
| `StreamingFunctionCallDetector` | `ProcessChunk` and `AppendToBuffer`, character by character, with short stand-ins for the tags (`ControlsApart` says what they have in common with the real ones). Cutting is what the component is about, so text is a sequence here and nowhere else but in `ChatStream`. |
| `ChatStream` | `streamChatCompletion`. Extends the detector, whose steps its turns take. Each turn of the loop is an action; its callbacks are delivered one by one. In tool text a character stands for what the parsers tell apart: a call of one of the three formats, an end tag, the opener of a Markdown block, a line that is a fence, which ends a Markdown turn wherever it stands. Refines `CallbackProtocol`. |
| `NativeStream` | The two native engines. A line is what the code tells apart in it. Refines `CallbackProtocol`. |
| `AnthropicStream`, `ResponsesStream`, `ChatEvents` | The emitters, driven by any behaviour of `CallbackProtocol`. Each callback is an action. `view` is the message a client has assembled from the events. |
| `StreamEmitters` | The three emitters side by side, given the same callbacks: what their clients make of one turn can be compared. Extends `AnthropicStream` and takes an instance of the other two. |
| `ToolText` | Tool calls as text: what each grammar makes of a call, coercion by JSON and by schema, validation. A JSON value is a record with one field, named for its type; numbers are counted in halves, so that there are some that are no integers; a string is known by what the code tells apart in it. A message that was cut off has calls that were whole (`written`) and some lines of the next (`more`). Pure operators. Values contain values; what becomes of the inner ones (`NormalizeInner`) and of markdown (`MarkdownCalls`) are parameters, so that the module has no recursion. A run gives them `NormalizeValue` itself, and the parser of `MarkdownBlock`. |
| `MarkdownBlock` | The third grammar, whose lines take values apart and put them together again, recursively, and end at the first line that is a fence. |
| `SoftToolRetry` | The retry loops and transforms; `shape` stands for the two kinds of transform. What calls a text gives is a parameter, `CallsIn`. |
| `SoftToolRequest` | `SoftToolRetry` over `ToolText`: which calls the client may be given (`Allowed`). |
| `SoftToolMeaning` | The same with `MarkdownBlock`: what a model writes, as the client is given it, against a reference (`Conforms`, `Survives`) that does not use the parsers. |
| `ToolCallStore` | The store; each locked method is an action. Time is the age of each call. Refines `ToolMemory`. |
| `ToolMemory` | What the store promises: it knows what was put until it forgets, which it may at any time. An abstract specification. |
| `Conversation` | The life of a call and its result over several turns: the client's history, what the proxy makes of it for each pair of protocols, the prompt, the answer. Written over an instance of `ToolMemory`. |
| `AdminSessions` | Password and sessions. Each SQL statement is an action, `SaveAppConfig`'s transaction is one. |
| `ConfigReload` | Start, seed, save, load, validate, replace, log level. A table's contents are named after the request that saved them. |
| `Routing` | Configurations as records, `Validate` as a predicate on them, the routing table as operators; one request, one action per load of the configuration, with reloads in between. Requests share nothing but the configuration, so one is enough. |
| `BufferedFileWriter` | The writer. Records are sequences of cells; each call of a rotation to the file system is an action, with failure and stop in between. A write to the open file, by whoever it is, may fail with any part of it written; the `bufio.Writer` then fails until the next file is made (`sticky`), and may keep the front of a record. |
| `LogStore` | Extends it with the readers: `List` as an operator on what is in the file (`Listing`), `follow` step by step. |
| `StreamEmitters_proofs`, `NativeStream_proofs`, `ChatStream_proofs`, `SoftTools_proofs`, `Persistence_proofs`, `ConfigReload_proofs`, `Routing_proofs`, `Conversation_proofs` | Theorems and lemmas, see *Proofs*. |

The modules whose names begin with `MC` give the constants their values for TLC. Definitions that end
in `_Bug` are plausible slips: replacing the definition they vary by one of them must break the
property listed with it under `mutants`, which shows that the property depends on the code.

Engines and emitters are not multiplied out into one large state space. They meet in
`CallbackProtocol`: both engines' modules implement it (`KeepsCallbackProtocol`, a refinement with the
phase of a turn as a function of the calls made), and the emitters are checked against everything it
allows. In the same way the store and the conversations meet in `ToolMemory`: `ToolCallStore`
implements it (`ImplementsMemory`: what is known are the cached calls that have not expired), and
`Conversation` allows all that it allows, a restart of the program included.

## Runs

| run | bounds | shows |
|---|---|---|
| `detector` | every text of 8 characters over two tags, a trigger and a fence, in chunks up to 3 | The detector agrees with a reference that sees the whole text (`ChunkingIrrelevant`), and holds back only what may still become a tag (`HeldOnlyWhileAmbiguous`). Stand-ins have two characters, as many as are needed for a cut inside; eight characters nest two tags before a trigger. |
| `chat_stream` | turns of 5 characters in three formats, chunks up to 2 | Callback order, `OnDone` once, text intact, tool turns reported: on every path out of the loop; and a turn ends once the client left, or the stream ended and the client reads on. Five characters are a trigger of two, the opener of a block, a call, and a fence; or calls, a fence among them, and an end. |
| `native_stream` | 5 lines | Every delta of every event is handed on once, in order. Five lines are an event with its blank line and a second event that ends with the stream. |
| `stream_emitters` | 6 deltas, 2 calls | All orders of callbacks. Every event addresses an open block or item, messages end cleanly, final texts are the sums of the deltas, and the clients of the three protocols are told the same (`ClientsAgree`). Each block changes state at most twice, so longer turns repeat what short ones do; the proofs remove the bound. |
| `soft_tool_retry` | settings -1, 0, 6; every message of the instance, in three formats, whole and cut off; three protocols; three choices of the client | Up to six attempts, with both clamps. The store gets the calls that are answered, the answer is the last response; calls written clearly arrive as they were meant (`CallsAsMeant`); those that arrive are the ones that were read, the request allows them, and they were whole unless a Markdown block was cut off (`OnlyAllowedCalls`); the loop ends (`Answered`). The messages hold every kind of value under every kind of schema, alone and beside others; responses have up to two parts, enough for a decisive part that is not the first. |
| `tool_call_store` | 5 calls, size 3, TTL 1, without symmetry for liveness | Coherence of map and list, retention, that expired calls are dropped unasked, and the refinement of `ToolMemory`. Five calls evict twice while one of them stays in use. |
| `conversation` | 3 turns, 2 calls, five pairs of protocols, settings that change between the turns | All that was said reaches the upstream (`HistoryReaches`), with the prompt where the settings want it (`PromptPlaced`). Three turns are a question, the results of two calls together or one of them, and what follows; every target and role is there, alone and together, from the upstream, from the features, and from both. |
| `admin_sessions` | 3 requests of any kind, 2 passwords, crashes and failures at every statement, with and without a password in the environment | Ended sessions stay ended; nothing else ends one; the API stays available. Three requests are a login, a use of its session, and one that interferes. |
| `config_reload` | 3 saves, 2 features, crashes at every statement | What a reload may see (its own save or a later one, and torn one way only), that saves which do not overlap are applied, and what a restart keeps. Three saves let a torn load take each table from another one. |
| `routing` | 2 client keys, 2 models, 1 profile, 113 configurations of up to 3 services, of which those that are valid come into force, 2 while a request is served | Which service a request may reach, that listed models are served, precedence of protocols, what a reload may not disturb, and that what is sent is made as configured (`SentAsConfigured`: credentials and profiles). Three services are what it takes for two of one protocol beside one of another. The properties compare what a request does with the configurations it was served under, and any two of the 113 may be those, changed back and forth between any two loads. |
| `log_store` | 4 records of 2 or 3 cells, a buffer of 4, a file of 5, 2 backups, 1 failure or stop, chunks of 2, the last 2 lines | The files hold the newest of what was logged, in order, whatever write, flush or rotation fails or is stopped; `Close` writes everything unless a write failed; listings are whole records, the follower misses nothing of an unrotated file and gets to everything. Four records overflow the buffer, rotate and fill the new file again; a chunk cuts every record. |
| `log_max_size` | as above | A finding, below. |

Every module with state of its own has one type invariant, `TypeOK`. It is the first conjunct of one of
the invariants that are checked (of the three emitters together, `EmittersTypeOK`). That of
`SoftToolRetry` (`RetryTypeOK`), whose sets are large over `ToolText`, is proved and not run.

`CHECK_DEADLOCK FALSE` is set where a turn or a set of requests is over at some point. Symmetry is
used only in runs without liveness.

### Fairness

* `ChatStream`: the goroutine runs, a connect attempt ends (the client's dial and header timeouts of
  `NewApp`). Nothing makes an upstream speak: there is no timeout on a streamed body, so a turn is only
  promised to end when the stream does, or the client leaves. A read then fails when what bufio holds
  is used up: strong fairness of the failing read while `cancelled`. Nor does anything make a client
  read: the server has no write timeout (`main.go:114-117`), so a callback to a client that stays and
  stops reading blocks for good, even when the upstream has closed. A callback is therefore only sure to
  end once the client has left; where the stream has ended, `TurnEnds` has it as a hypothesis that
  the client goes on reading (`ClientReads`).
* `SoftToolRetry`: weak fairness of `Progress`, all its steps, for `Answered`: `doJSONRequest` sets a
  timeout for every attempt.
* `ToolCallStore`: the cleanup goroutine's ticker fires again and again.
* `LogStore`: the follower's ticker and steps, its subscriber (who reads what is sent), and a rotation
  that has begun, go on. Nobody has to write, list, flush or close: the flusher is not needed for
  `Followed`, because a follower flushes for itself.
* `AdminSessions`, `ConfigReload`, `Routing`, `Conversation`, the emitters and `NativeStream` have safety
  properties only.

## Findings

* The log file outgrows `X_TOOL_LOG_MAX_SIZE_MB` (`log_max_size`). `currentSize` counts what `Flush` and
  `rotateLocked` find in the buffer, never what the `bufio.Writer` wrote by itself because it was full:
  a program that logs more than 64 KB per flush interval rotates too late, by all that overflowed.
  `FlushedLogFits` shows that this is the only way. `PROJECT.json` quotes what it contradicts.

The models have more behaviour a maintainer may not expect. It is stated by no property, because the
code does it, or is what a property above exempts:

* `OnThinking` of the Anthropic emitter writes deltas for block -2 when thinking follows text
  (`EventsAddressOpenBlocks` exempts them).
* A configuration saved while the password changes can put the old password back: `SaveAppConfig` reads
  the hash before its transaction (`ReadHash`, `CommitConfig`).
* Of two concurrent saves the older can be left running, or its log level; both were answered
  "Config applied" (`AppliedAlone` is about saves that do not overlap).
* A login that was verified before a password change gets its session after it and keeps it.
* On the way to chat completions `last_user_message` is the index of a message before empty tool results
  are dropped, and then used in the list without them: the prompt can land one message too late. For
  Responses an item that leaves out its type is not taken for a message (`Misplaced` exempts both from
  `PromptPlaced`).
* A role of user or assistant alone implies message injection, says `prompt_injection.go:24`; so do the
  tests (`same_protocol_tools_test.go:734-760`) and the admin page (`Config.vue:248`). `Validate` turns a
  target that is not set into `auto` first (`config.go:183-187`), so in a program that has been started
  the prompt goes into the system message; the tests skip `Validate`. Code and documentation disagree,
  and `PromptPlaced` accepts either place for that setting.
* A Responses history that holds a `function_call` is refused (422) on the way to chat completions, where
  the calls of the same conversation came from; the native handler passes such items on as they are.
* Each format of tool text loses something. XML: blanks at the ends, entities twice, null. Markdown: empty
  arrays, null, a last newline, think blocks, everything after a fence in a value; a word `mbcall:` in
  a value starts a call; a property whose name has a dot is read as a path. Both: a string that reads as
  JSON comes back as what it reads as, but for a number or Boolean where the schema wants a string.
  `Survives` lists them.
* Strings are never coerced to objects or arrays: `tool_schema_normalizer.go` (369-380, 414-425) sets an
  `ok` that shadows the one that is tested afterwards.
* A number of 2^63 passes for an integer (the float is compared with a limit that rounds to it).
* Of an XML text that was cut off, the invokes that are whole are still called.
* A Markdown turn is over at the first line that is a fence, also one inside a value. Streamed, the calls
  read so far are reported and the rest of the message is not read (`HasCompleteToolTurn`); a message
  that was cut off behind such a line still gives its calls, the last with that value cut off and without
  the arguments after it, if it has what its tool requires (`OnlyAllowedCalls` exempts it).
* No write timeout: a client that stays connected and stops reading holds its turn, and the upstream's
  connection, for good.
* `emitToolCalls` has no caller in the program.
* Native streams never convert soft tool calls, though the prompt asks the model for them.
* A Responses stream that fails ends with both `response.failed` and `response.completed`.
* A request over a change of `key_passthrough` can be refused with 401 though both configurations
  admit it, or go out with an empty key.
* With keys passed through, a model that is listed can be ambiguous at `/v1/responses` and `/v1/messages`
  (`ListedModelsServed` says when).
* After a rotation that failed the log file stays closed until the program is started again.
* One write to the log file that fails, the disk being full for a moment, stops the log until the program is
  started again: the `bufio.Writer` keeps the error, and nothing resets it but a new file, before which the
  rotation must flush. Half a record may be left, with the next one behind it on the same line.
* A follower whose file is rotated can miss the last lines of the old file, or, if the new one is already
  longer than the old offset, start in the middle of a line.
* `main` defers `logStore.Close`, but leaves by `os.Exit`, so the last half second of the log is lost.

## Proofs

Eight modules hold theorems. Each has an inductive invariant (or the few conjuncts it takes), lemmas
that each action preserves it, and theorems that follow from it. The provers check every leaf. The
assumptions are those of the constants, named in the modules that declare them; TLC evaluates them on
every run.

**Emitters** (`StreamEmitters_proofs`), for turns of any length. `IInv` is about the Anthropic emitter:
that a delta addresses an open block depends on what the emitter's indices mean, so it adds to `TypeOK`

* `IndexInv`: `nextIndex` counts the client's blocks, the remembered indices point into them, at
  blocks of their type;
* `OpenInv`: before `OnDone` the open blocks are exactly the remembered ones;
* `TextInv`, `TextInBlock`: where the text is, and that there is one text block at most;
* `StopReasonInv`, `NoBlockOpenAtEnd`.

Lemmas about `BlockStart`, `BlockDelta` and `BlockStop` say what one event does to the client's
message; one lemma per callback shows that it preserves `IInv`. It gives `EventsAddressOpenBlocks`,
`TextDelivered` and `CleanEnd`. `ResponseInv` does the same for the Responses emitter
(`EventsAddressOpenItems`, `FinalTextIsDeltas`): its next index is the number of the client's items
until calls are written (the emitter does not count these: it may write no item after them, which
`CallbackProtocol` sees to), and the client's items are those at the remembered indices, each with the
text in the emitter's buffer, and finished calls.

Given the same callbacks each emitter behaves as it does by itself, so both hold of the three side by
side. `AgreeInv` then relates them: what each has kept is what the chat client was told (`SaidInv`), how
many of the items and blocks are calls (`CountInv`), how the turn ends (`StoppedInv`), and that until
thinking comes after text one block has all of it (`ThinkingInv`). That is `ClientsAgree`.

**Engines.** `NativeStream_proofs` proves, for a stream of any length that ends or breaks anywhere, that
both native engines implement `CallbackProtocol` (`KeepsCallbackProtocol`) and hand on each delta and
error once and in order (`EverythingHandedOn`). The refinement rests on `CallsInv`: no callback has run
before the request is sent, none of the calls is `OnDone` until the end, and `OnDone` is the last call
once the stream is over; the phase of the protocol, a function of the calls made, depends on it.
`EverythingHandedOn` compares the calls with a reference that reads the whole stream at once, and the
engine has forgotten all lines but those of the event it is in. `StreamInv` says what it still knows:
`AssemblyInv`, the name and the data it has kept are those of the open event; `HandedInv`, what was
handed on is what the events that have ended said, and nothing of the open one. The lemmas about `First`
say how one more line moves the place where the open event begins.

`ChatStream_proofs` proves the refinement of `CallbackProtocol` for the chat completions engine, for any
text in any chunks. There the callbacks of a turn of the loop are a list, delivered one by one, so `IInv`
also says what the list may be: `PendingInv`, nothing but text, thinking and errors before the end, and
at the end `OnDone` last with at most one batch of calls right before it. That needs nothing of the
detector.

The same module proves what the engine does with the text: `ChunkingIrrelevant` and
`HeldOnlyWhileAmbiguous` of the detector, `TextIntact` and `ToolTurnReported` of the engine. The
detector reads its buffer once and forgets it, the reference counts tags in the whole text, before and
after every place. What relates them is `ScanInv(t, p, d)`: the loop has come to place `p` of the text
`t` at depth `d`, `d` is the depth the reference gives (`IsDepth`), and every place before `p` is
`Passed`: no tag or signal can begin there any more, or the reference is inside thinking there. `Passed`
says that the characters *differ*, not that nothing was found, so it stays true when text comes behind
(`PassedLater`), and that is why the cuts do not matter. `DepthMoves` gives the depth behind a tag from
that before it, over `Count`; `ScanStops` carries `ScanInv` through the loop, whose end is reached
because each turn asks only for turns behind it (`LoopExists`, by the least place where it would go
wrong; the loop is a recursive function, not an operator, and these lemmas do for it what induction
would).

The proof shows what the detector depends on, `ControlsApart`: none of the tags and the trigger is the
beginning of another, and none of them, nor a fence, begins with a character from inside one. It holds of
`<think>`, `</think>`, `<Function_..._Start>` (`prompt.go`), and fences of backticks or tildes; TLC
evaluates it on every run of the two modules. For the engine, `TextInv` says that what was shown and
what pending callbacks will show (`Owes`) is what was said (`Said`): the text passed on by the detector, and
when a turn ends without a trigger what it held, too. `ReportInv` follows the outcome from the list of
pending callbacks into the calls made; that it is the outcome of the right text rests on `OneOffset`, one
trigger has one fence.

**Requests that are not streamed.** `SoftTools_proofs` proves `RetryTypeOK` (with it, at most six
attempts), `StoreMatchesAnswer` and `AnswerIsLastResponse` for any settings, responses and parser
(`CallsIn` is a constant operator): all that changes a response is one transform at the end, and a
part it makes is none the upstream sent (`SettingAssumption`). That a transform decides by the first
part with a trigger needs `LeastNatural`, which rests on the well-foundedness of the natural numbers.

`OnlyAllowedCalls` is proved for any tools, texts, choices and protocols, any markdown parser and
whatever becomes of values inside others, since it depends on neither: the arguments of a call are
fitted to their schema before those that are required are looked for, and of the types a schema may name
only one makes anything of an object, with the same keys (`ObjectForType`), so that fitting drops no
argument and adds none (`KeysKept`). `ParsedCalls`: but for markdown, what is read of a message that was
cut off is no longer than what was whole. `TextAssumption`: parsers, the markdown parser too, read lists
of calls, and the calls of `SoftToolRetry` are those that `ParseSoftToolCalls` finds; `ToolsAssumption`:
the types of a schema are a list.

**Tool call store.** `SoftTools_proofs` also proves `Coherent`, `KeptWhileRecent` and the refinement of
`ToolMemory`, for any IDs, size and TTL. `Coherent` is inductive as it stands, once it is known what
moving an ID to the front, dropping the last and walking the list do to a list without repetition.
`KeptWhileRecent` is not: `RecentInv` adds that the list is in the order of last use, measured by
the sets `since` of IDs used since. The last of the list then has had all others used after it,
`MaxSize` of them with the new one, when it is evicted. For `ToolMemory` only the ages and the map matter.

**Admin sessions.** `Persistence_proofs`, which is about what the program keeps outside its memory,
proves `TypeOK`, `EndedSessionsNotAdmitted`, `SessionsKept` and `StaysAvailable` for any number of
requests and passwords, over any failures and crashes. `IInv` says what operation each statement belongs
to and that a request's answer is its last word (`OpInv`), that sessions in the table have no end and
belong to requests that are over (`SessionInv`), that what had ended when a request arrived is gone
before it looks for its session (`BeforeInv`), that a password is in force behind `RequireSession`
(`AvailableInv`), and what removed each session that is gone (`KeptInv`). `PasswordAssumption`: no
password is the absence of one.

**Log.** `Persistence_proofs` also proves `KeepsNewest` and `FlushedLogFits`, for any sizes of records,
buffer and file, any number of backups, writes that fail with any part of them written, and calls that
fail and stops anywhere in a rotation. The core of `WriterInv` is `PiecesInv`: the backups from old to
new, the file and the buffer are adjacent pieces of what the buffer took (`taken`): the records `Write`
returned no error for, and of one it failed for the front that the buffer or the file has. It speaks of
the places where they are cut (`Cuts`), not of their concatenation, because each action moves one or two
of these: flushing moves the one between file and buffer, a rename shifts a cut to the next name and
leaves an empty piece, a stop moves the end. That the pieces joined are a suffix (`KeptIs`) is then
proved once, by the least place where joining would go wrong. `OrderlyInv`, unless a rotation was cut
short, says that the files that are there have no gap but the one that a rotation moves (`Hole`), from
which nothing is removed while a backup is unused, and that nothing makes the `bufio.Writer` fail but a
write that failed (`torn`), which is why `Close` leaves nothing in the buffer otherwise; `SizeInv`, that
`currentSize` counts the file until the `bufio.Writer` writes by itself or fails; `PhaseInv`, that a
rotation works on a closed file. `WriterAssumption`: the sizes are numbers, and `None` is no contents of
a file.

For the readers, `FollowsFile` and `ListsWholeRecords`, over the same failures and stops. `TextInv`
speaks of what is in the file and the buffer together (`Log`), which a flush leaves as it is: no line in
it is blank (`LinedInv`), and until something fails its records come one after the other, whole
(`RecordsInv`). A step of the writer adds to the end of the file or puts another one in its place
(`GoesOn`), so a follower's offsets stay good while the file is the same one. `FollowInv`: what was sent,
is to be sent and is carried over, joined, is what lies between `since` and `offset`, but for the end of a
line whose rest was there before. When it reads, `SplitFlat` says that splitting a text loses nothing but
that end; a blank line would be lost too, which is what `LinedInv` is for. `WholeRecordsListed` rests on
`TailLists`, about any text and any chunk: `LinesAt` gives the places where the lines of a text begin and
end, and counts the line ends against them, from which it follows that with one line end more than the
limit, the line that a chunk cuts is never among the last. Splitting is a recursive function (`Split`), and
what it comes to is proved along its argument (`StepByStep`, by the least number where it would fail).
`ReaderAssumption`: the chunk and the limit are not 0, and a record is more than its line end, since slog
writes time, level and message in front of it.

**Configuration.** `ConfigReload_proofs` proves `ReloadSeesOwnSave`, `AppliedAlone` and
`RestartKeepsSaved` for any number of saves, over failures, crashes and starts. All three compare ages, the
places of saves in the order of their transactions. `TablesInv`: the tables are those of the last
transaction, and after the first one `Seed` finds nothing to do; `CourseInv`: a request saves once, and
before it reads; `LoadedInv`: what a request has read is no older than its own save, and what it read
later no older than what it read before, which is why what runs is torn one way only; `AloneInv`:
where requests have not overlapped, the one under way saved last and has read what it saved.
`VersionAssumption`: the defaults are nobody's save, and there is a feature.

**Routing.** `Routing_proofs` proves the five invariants of the run for any configurations and any
number of reloads between the loads of a request. `BaseInv` says where what a request holds is from: the
services allowed are those of *one* configuration that was in force, a match or the upstream of one that
was in force then or later. `KeysKeepToServices` follows. `CourseInv`, for `UndisturbedByReload`: a
service that alone lists the model all along is allowed, and neither the search by model nor the default
is reached. `SentInv`, for `SentAsConfigured`: a credential is of a mode that was in force, and the
blank one needs both modes. `SteadyInv`, for `ListedModelsServed` and `RoutedByEntry`: while the
configuration stays, what each of the questions asked so far has told. `ConfigAssumption`: the
configurations are records as the loader builds them, and `None` is none of the values it stands for the
absence of.

**Conversations.** `Conversation_proofs` proves `TypeOK`, `HistoryReaches` and `PromptPlaced` for any
settings, pairs of protocols, and numbers of turns and calls, over everything that `ToolMemory` allows the
store. `IInv`: the history is made of messages in the form their protocol has for them (`HistoryOK`), the
first of them has text in it (`OpensWithText`), calls that are pending or remembered are calls of the
history, and the request at the upstream is what `Prepare` makes of the history now, with the settings of
this turn. So both properties come down to `Prepare`, and to lists of any length.

Of these the proofs need how `FlattenSeq` goes with appending (`FlatConcat`), with a change to each member
(`FlatFlat`, `FlatMap`) and with leaving members out (`OnlySame`). For `HistoryReaches`, what is said and
what is read are both flattened lists of what is heard of each message. A lemma for each handler says that
it leaves what is heard of *one* message as it was, though it makes several messages of it or drops parts
(the lemmas ending in `Heard`), one for each path that the request as a whole does (`ChatRequest`,
`ResponsesRequest`, `AnthropicRequest`; of what is heard the prompt is no part, `FrontSilent` and
`LatestSilent`). The order within a message may change, results before text before calls: `Reaches` is
what `HistoryReaches` asks of one message, and what holds of each message holds of all (`AllReaches`).

For `PromptPlaced`, no part that was said is the prompt (`Promptless`), so a request that is made of the
prompt and of such parts holds it in one place (`OnePlace`). The lemmas for the three kinds of request
(`PromptInResponses`, `PromptInAnthropic`, `PromptInChat`) say that this place is the one the settings
want. Over chat completions the hard case is the prompt in the last message of a user: its place is
found in the converted messages, and used on those that `PreprocessMessages` makes of them. `LastInChat`
says that the last message of a user there is the one made of the client's, since nothing of a user
comes behind it, and `PreprocessedKept` that the places agree as long as no empty result is dropped,
which is where the hypothesis `~Misplaced` is needed. `SettingAssumption`: function calling is on or
off; nothing is assumed of targets and roles, `Validate`'s part in them is in the model
(`NormalizePromptInjectionTarget`). `PathAssumption`: the pairs of protocols are the five there are.
`BoundAssumption`: the bounds are numbers.

**Only model-checked.** The liveness properties (`TurnEnds`, `ExpiredDropped`, `Answered`, `Followed`: the
provers know no fairness), and `CallsAsMeant`, which is about every value inside an argument and would take
induction over them. All other properties of the runs that pass are proved.

## Not modelled

* Raw proxying copies bytes; the log's fan-out hands a record to two handlers; the listing of upstream
  models is one request and a conversion of its answer. They keep no state.
* Prompt generation fills in templates; which one is chosen is in `Routing`.
* Of protocol conversion: images, usage, the definitions of tools and `tool_choice` are converted field
  by field, without a decision that another part depends on. How the pieces of a message are joined
  into one string is left out of `Conversation`, and with it that list content of a tool result is
  printed as Go prints it (`fmt.Sprint`), and that a list of parts may be written out as one text when
  the prompt is put in front of it.
* Of the parsers: the repair of broken JSON and the regular expressions tried when XML does not parse;
  what they find depends on every character. `ToolText` names the few spellings of keys it leaves out.
* Environment variables, HTTP helpers, logging calls and the browser program are I/O or another
  language's program.
* Runtime statistics and schema migrations: see *Plan*.
* `SaveAppConfig` is one step, which replaces all tables, in `ConfigReload` and `AdminSessions`. That is
  so with SQLite, whose transactions that write run one after the other. With Postgres, at its default
  isolation (read committed), two that overlap can leave rows of both (`store.go:494`); that is not
  modelled.
* In what is modelled, event payloads other than text and block structure, wording and IDs are left out;
  so are `handleAdminStatus`, which runs the statements of `RequireSession` and shows the result, and the
  single-row operations of `ConfigStore`, which only `Seed` and the tests call.

## Plan

1. `RuntimeStats`: counters, dirty flag, flush goroutine and restart (`runtime_stats.go`,
   `stats/store.go`); nothing counted twice, at most one flush interval lost.
2. `Migrations`: steps, the recorded version and crashes between them (`storage/migrations.go`).
3. An abstract specification of the log, an append-only sequence of which a suffix is kept, that
   `BufferedFileWriter` implements.
