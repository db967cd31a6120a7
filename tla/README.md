# kiro.rs in TLA+

kiro.rs is a gateway: clients speak the Anthropic (or OpenAI) protocol to it, and
it forwards each call to the Kiro upstream with one credential out of a pool. It
refreshes tokens, fails over between credentials, heals disabled ones, limits
their request rate and is administered while it runs.

This directory models it in TLA+, checks the models with TLC and proves
theorems about them with TLAPS.

    tlc -workers 2 -config PoolHistory.cfg MCPoolHistory.tla
    tlapm CredentialPool_proofs.tla

## 1. Inventory

| Component | State | Operations | What is hard | What makes it correct |
|---|---|---|---|---|
| Credential pool, `kiro/token_manager.rs` | `entries` (counters, disabled + reason, cooldown, self-heal streak, request window), `current_id`, `next_id`, settings, `credentials.json`, `stats.json` | reports of finished calls, self-heal, operator's edits, import, delete, restart | every operation is a lock section of its own, its save another one that may fail; a crash between any two; counters reset by some paths only | counters below thresholds, durable limits of self-heal, ids never reused, nothing final revived by itself |
| `acquire_context`, same file | per request: attempts, picked credential, its copy; the refresh lock | select, heal, refresh, reserve | five lock sections and a network wait per round; copies used after the wait | quota never exceeded, no false refusal, termination |
| Provider, `kiro/provider.rs` | per call: attempts, last error, forced refreshes | send, classify the answer, report, fail over | 14 classes of answers in a fixed order; other clients change the pool meanwhile | bounded attempts, an answer always, a 429 not hidden by a later failure to get a credential |
| Error rules, `kiro/error_rules.rs` | the rule table | match, CRUD | interacts with thresholds | a rule's floor |
| Token endpoints and logins, `kiro/auth/*`, `admin/service.rs` | tokens, login sessions, callback servers and their ports | refresh, import, relogin, poll, paste | rotation before the save, several savers, polls racing a paste | never a lost or doubled token, a login used once |
| Event stream parser, `kiro/parser/*` | buffer, state, error count | feed, decode, recover | chunks, corruption | bounded errors, progress past a corrupt frame |
| SSE translation, `anthropic/stream.rs` | open blocks, four text buffers, stop reason | one handler per upstream event | interleaved text, thinking and tools, cut anywhere | event order the clients require, no word lost, no call executed by mistake |
| Message handlers, `anthropic/handlers.rs` | per request: decoder, context, usage hook | chunk, end, failure | body fails, client leaves | message always completed, status right |
| Request conversion, `anthropic/converter.rs` | none | pure: history, tools, arguments both ways | pairing, merging and renaming over a conversation of several turns | every call answered, nothing lost, calls repeated as made |
| OpenAI front ends, `anthropic/{openai,responses}.rs` | none | requests in, answers and streams out | three protocols, flattened tool names | calls come back as declared |
| Web search loop, `anthropic/websearch_loop.rs` | rounds, retries, history | rounds, searches, flush | budget, empty answers, calls leaked as text | ends, with an answer, no call twice |
| Cache metering, `anthropic/cache_{metering,force}.rs` | prefix table and its file, the mode | lookup, record, evict, flush | isolation, expiry, rounding | own prefixes only, tokens add up |
| Keys and groups, `admin/{client_keys,groups,handlers}.rs` | registries, their files, config.apiKey | CRUD, rotate, rename and delete cascade, boot repair | cascades in several steps without a lock across them; a crash, a failed save or another handler in between | no dangling group, a revoked key stays dead |
| Proxy pool, `admin/proxy_pool.rs` | proxies, health, failures | CRUD, probe, assign | probe races edit | judged by its own probes |
| Usage and traces, `admin/{usage_stats,trace_db}.rs` | buckets, log files, SQLite | record, ingest, rebuild, purge, clean up | midnight, restart, reused ids | the panels show what happened |
| Self update, UI, balances, images, token counts | | | I/O or pure formatting | not modelled, see PROJECT.json |

How they interact: a client call enters `anthropic/handlers.rs`, is converted,
and `KiroProvider` loops: `acquire_context` picks a credential of the pool and
a token, the request goes upstream, the class of the answer is reported to the
pool. The answer is decoded by the parser and translated by `stream.rs`. The
admin API calls the pool's operator methods from other threads at any time.
The pool is shared memory behind mutexes; no lock is held across an `await`
except the refresh lock, a tokio mutex.

The hazards that follow from this are in PROJECT.json, each at its line.

## 2. Modules

    CredentialPool         the shared state, one action per lock section
      |-- PoolHistory             + an observer; implements CredentialLifecycle
      |     `-- MCPoolHistory
      `-- AcquireContext          + requests, the refresh lock, an operator, a crash
            |-- AcquireHistory    + an observer of what stays selectable
            |     `-- MCAcquireContext
            |-- MCAcquireFindings
            `-- KiroProvider      + calls: the retry loop of the provider
                  `-- ProviderHistory  + an observer of the upstream's 429s
                        `-- MCKiroProvider
    CredentialLifecycle    what the pool promises about one credential

    SseStateManager        the state machine of outgoing events
      `-- StreamContext    + the translation of each upstream event
    EventDecoder           the decoder of upstream frames
    SseStream              composes EventDecoder and StreamContext into a request
      `-- MCSseStream      scenarios, an abstract client, the properties

    Converter              Anthropic request -> Kiro request, arguments both ways
    FrontEnds              Chat Completions and Responses <-> Anthropic
    WebSearchLoop          one round of the search loop, the flushed answer
    Conversation           composes the three with a client and the upstream
      `-- MCConversation   scenarios and the properties

    TokenRotation          refresh tokens, their saves, imports, relogins
    Registry               client keys, groups, cascades   -- MCRegistry
    ProxyPool              proxies and probes
    LoginSessions          interactive logins
    CacheSplit <- CacheMeter   the bill; the simulated prompt cache
    UsageStats, TraceLog   the usage log and chart; the hops of requests
      `-- MCBackOffice     all seven parts, one per behaviour

    proofs:
      CredentialPool_proofs  PoolHistory_proofs  TokenRotation_proofs
                             about the module each is named after
      KiroProvider_proofs    KiroProvider, AcquireContext and both observers
      SseStream_proofs       SseStream and all it composes, with the client of MCSseStream
      SseWords_proofs        the same, on top of SseStream_proofs: where each word is
      BackOffice_proofs      ProxyPool, LoginSessions, Registry, CacheSplit, CacheMeter,
                             TraceLog, UsageStats, with the properties of MCBackOffice
      Conversation_proofs    Conversation and all it composes, with the properties of MCConversation

**CredentialPool.** `entries` is a function from live ids to records with the
fields of `CredentialEntry`; `disk` is credentials.json as `persist_credentials`
would write it. Each public method that changes state is one action of the same
name, with its early returns as guards and its save as `Save(S)`, for the credentials
it changed, or `UNCHANGED storage` if it has none. The code gives up `entries` before it
saves, and a save that fails is only logged or returned: so `Save` either writes at
once (`Write`) or leaves the save for later (`SaveLater`), when `Persist` writes what
memory holds then, or nothing. `saves` counts the saves to come and remembers whose last change the
file may lack (`unsaved`); any save that succeeds writes all entries and clears it.
What a restart may forget is stated of the others. Note which reports are *not* saved:
`report_failure`, `report_quota_exhausted`, `report_refresh_failure` and
`report_refresh_token_invalid` change memory only, so a restart may forget an
automatic disable; rule hits, heals and operator steps are saved. `Restart` loads
`disk` (and a statistics file that may lag) at any moment. Abstractions:

  * a deadline is replaced by the action that lets it pass (`ThrottleExpire`,
    `RpmSlide`), a time stamp by its age in ticks (`Tick`);
  * of a credential only priority, groups, opus support and "API key missing"
    are kept: these are what selection reads. Secrets are not in the model;
  * `credentials_path` is set and the file is in the multi-credential format;
  * at most `MaxLate` saves are to come at a time;
  * success counts, rounds and ages saturate at `SuccessCap`, `U32_MAX`, `AgeCap`.

**AcquireContext.** `pc` walks through `acquire_context`; each value is the code
between two lock sections. The picked credential's fields are copied into
`snapshot` where the code clones them, and `EndRefresh` writes the copy back
where the code does. `Answers` says what the token endpoint may do for each
credential: it is an API key, its access token is still good, or missing, or the endpoint
answers, fails, limits, or rejects the refresh token. `Crash` drops every request; `Operator` takes one step of the
operator; both are bounded by `MaxEdits`, rotations by `MaxRotations`.

**KiroProvider.** `call` walks through `call_api_with_retry` and
`call_mcp_with_retry` (which is the same loop without the API-only branches and
the profile step). `Answered` lists the classes of upstream answers in the code's
order; the exits without an answer (no endpoint for the credential, no client or request,
no connection) are classes too, since each overwrites `last_error` or takes its place. Where the code waits for the network the step is split in two.

**CredentialLifecycle** is the abstract specification: a credential is active,
healable, final or manual; request traffic may trip an active one and revive
healable ones, and nothing else; only a rotation or the operator lifts the rest;
a restart may forget an automatic verdict but not a manual one.
`PoolHistory!ImplementsLifecycle` is the refinement.

**SseStateManager, StreamContext** are operators from a context record to a
context record, one per method, in the order of the code; `out` is the list of
events emitted so far. Text is a sequence of numbered pieces: a word, a blank
line, a line with a stray token, a line of back-quotes, or half a tag, so that a
chunk may end inside a tag. `PieceKinds` lists them. A loop over a buffer is a
recursive function that repeats its body (`StripNext`, `DrainNext`, `DecodeNext`) as often
as the buffer is long: a round that finds nothing to do changes nothing. Buffer lengths that the code
counts in bytes are counted in pieces. Left out: the newline stripped after
`<thinking>`, signature values, token and credit counters, which decide nothing.

**EventDecoder** has `feed`, `decode`, `try_recover` and `decode_iter` on frames
of two cells. A corrupt prelude comes in three kinds, because `parse_frame`
compares the claimed length with the buffer before it looks at the checksum; the
checksum of the message is right if what follows the head is the rest of its own
frame (`RestFollows`). `DecoderAssumption` wants room for two frames (`MAX_BUFFER >= 4`):
the code has 16 MB for the frames of a text stream, and with less than that an intact chunk
behind an intact half would be refused by `feed`.

**SseStream** is one streaming request: a chunk is fed, what decodes goes through
the context (`Receive`), and the body ends, fails, or the client leaves. `Delivered`
is what the client has been sent: at once (`create_sse_stream`) or at the end
(`create_buffered_sse_stream`). A frame whose event does not parse is skipped by
the code and is not modelled. A scenario may mix `<thinking>` tags with reasoning and redacted
events, as the converter asks for both; `ctx.mixed` (history) remembers which of the two met a
tagged block.

**Converter, FrontEnds, WebSearchLoop** are operators, one per function and in
its order of steps: messages are sequences of records, a text is an opaque
fragment, an image its format and data, a tool's arguments a record. What a name
becomes when it is lowered or shortened is a constant table (`Lowered`,
`Shortened`). A loop is the recursive function `Accumulate`, a
filter by place is `Selected`, so that both can be reasoned about. Schemas, descriptions, session
ids, token counts and the model's name are left out, `include_ignored` of the
Kiro tools is dropped, and inside one round of the search loop the order of text
and reclaimed calls is not kept.

**Conversation** has a client that appends to its conversation (`ClientSays`,
`ClientReturns`) and may keep half an answer, repeat, forget the first item or
undeclare a tool, as `conf.faults` allows; `ClientSends` is `post_messages` behind
one of the three front ends; the upstream answers each call with one of
`conf.rounds`, cut, refused or empty; the answer is translated back and joins
the client's conversation. `records` is what the usage hook wrote.

**TokenRotation** complements AcquireContext: there tokens are not kept, here
nothing else is. A token is `[login, gen]`, and a rotating endpoint accepts the
newest generation only. Every caller of the endpoint is a `kind`: "request"
(`try_ensure_token`, `prepare_request_token`), "query" (`get_usage_limits_for` and
its like), "force", "add", "relogin", "delete". The lock sections of
`refresh_lock` and `persist_lock` are steps, and so are the snapshot and the write
of `persist_credentials`. A save may fail, an answer may be lost, `Restart` may
come at any point. An outside program that rewrites credentials.json is in
AcquireContext only. `crossed` (history) has the ids for which such a reload met a
relogin in progress and brought back a token of the other login; `LiveTokenKept`
leaves them out.

**Registry** has `Handlers` requests of several steps at a time, since the admin
server runs them in parallel and no lock spans their steps: `jobs` says where each is,
and the operations of one step (`CreateKey`, `AssignGroups`, ...) come at any moment. A crash or a failed
save falls between the steps, and `Reboot` is what `main.rs` does with the files. Writing
config.json is a load and a save (`LoadConfig`, `SaveConfig`), so two writers may overtake each other. A
plaintext is the number of its draw; the write of the key and group files is taken to succeed (the
code only logs a failure). Names, descriptions and usage totals are left out. Two history variables name the
exceptions of the properties: `strays` are names given when not registered, or
when a deletion of the name was past its last look; `keyLost` says that config.json
missed the last rotation.

**ProxyPool, LoginSessions, CacheMeter, UsageStats, TraceLog** each keep the
state of one file, one action per operation; history variables (`failedInARow`,
`presented`, `past`, `unlogged`, `outlived`, ...) are marked "history" and are read by
properties only. In CacheMeter the look-up and the record of a request are two
lock sections, with other requests between them (`recording`); conversations say the same things, so only the
isolation seed tells them apart; in LoginSessions an expired session goes when a poll
finds it so or with the background task's next round (`SweepExpired`); in UsageStats a record is the day of its time
stamp, and the file it goes to that of a day taken before the lock, perhaps yesterday's; in TraceLog an account is the number of those added before it, because
ids are given again after a restart.

## 3. Runs

| Run | Question | Bounds and why they are enough |
|---|---|---|
| `pool_history` | Does any sequence of reports, heals, edits, ticks and restarts break the counters, the durability of the self-heal limits, the ids or the life cycle? | One live credential and two ids (the actions touch one entry each, `TrySelfHeal` a set; reuse of an id needs two), two failures to disable, one model beside "no model", min_interval of one tick with AgeCap 1, rounds limit 1 and unlimited, a self-healable rule, one save that is still to come or fails |
| `acquire_context` | Do two concurrent requests exceed the quota, get refused wrongly or loop? | Two credentials, one of which the token endpoint rejects, quota of one per window, two priorities, self-heal on with one round, one rotation, a caller whose calls succeed or hit a rule; saves are written at once, since the file is read by a restart only and `pool_history` has those |
| `kiro_provider` | Does a call always return, with the right error? | One call over two credentials, every upstream class, token refreshes that fail or are limited, one step of other traffic, operator or crash |
| `sse_stream` | Does the client read a well-formed message, with every word in order and only whole tool calls, wherever the upstream cuts its response? | Seven scenarios, each with the events that meet in one part of the code: tags, native reasoning (buffered), both in one response, `<invoke>` text, unknown tools, `<tool_use>` text, corrupt frames. Up to 5 frames: a tag cut in two, what is around it and an event in between. Repeat guard at 2, hold limit 3 pieces, 2 decoder errors, so each limit is reached within 5 frames |
| `conversation` | Over several turns, through each API: does the upstream get a history it accepts, with everything the client said and the calls as the upstream made them, and does the client get each call once, as declared, within the budget and recorded once? | Fifteen scenarios, each with the tools, faults and answers that meet in one part of the code; up to 3 turns and 4 items (a call, its result, a repetition and one more), 2 search rounds and 1 retry, so each limit is reached |
| `back_office` | Do tokens, keys, proxies, logins, bills and statistics survive interleavings, failed saves and crashes? | One part per behaviour, since they read nothing of one another. Two callers and three calls (one spends a token the other waits with), two tokens to import; two keys beside the system key, three plaintexts, two group names, two handlers under way (a deletion and a rename, two rotations); two URLs and three proxy ids; two logins, two pollers, one port; two metered turns that may overlap, three cache entries (an eviction), two ticks of the short ttl; four days with a horizon of two; three accounts, two hops |
| `rename_rolled_back` | Does a refused rename leave registry and credentials in step? | Violated: see findings |
| `midsentence_invoke` | Is an `<invoke>` in the middle of a line left as text? | Violated: see findings |
| `corrupt_frame` | Does the decoder get past one corrupt frame? | Violated: see findings; a frame of 2 cells with a limit of 2 errors stands for 16 bytes or more with a limit of 5 |
| `min_available_floor` | Does `min_available` keep credentials available, as its doc says? | Violated: see findings |
| `edit_survives_refresh` | Does an operator's edit survive a refresh in flight? | Violated: see findings |
| `manual_hold_kept` | Is a manual disable lifted only by the operator? | Violated: see findings |

`NeverRefusedWhileServable` (in AcquireHistory) uses an observer variable,
`steady`: the credentials that stayed selectable for the request since it
entered. `RateLimitPreserved` (in ProviderHistory) uses `limited`: the last attempt that
got as far as a credential came back with a 429. It sees what the upstream answers, not what the call
makes of it; a later attempt that goes wrong in another way than finding no credential does take the
429's place, and the property says so. Observers only watch: their specifications conjoin an
update of the observer to every step and constrain nothing else.
`ClientReadsMessage` (in MCSseStream) runs a client, written from the protocol
and not from the code, over the delivered events. `NoWordSwallowed` compares the
numbers of the words delivered, held and discarded with each other and with
`sent.words`, the history of what the upstream sent: a word is in the text or the thinking
of the client, in order, or in one of three buffers behind what was sent, or
discarded by a filter, and never in two of these. While no frame was corrupt and no half of one
is on its way, they are all the words sent.
`EveryCallAnswered` and the others of `conversation` compare the request with what
the client and the upstream said (`items`, `calls`), not with intermediate values of
the conversion. `PanelsTellTheTruth` is the conjunction of
`UsageStats!ChartMatchesLogs` and `TraceLog!FailuresAreItsOwn`.

`sse_stream`, `conversation` and `back_office` check safety only and state no
fairness: nothing obliges the upstream to end its body, a client to go on or an
operator to finish a login. They switch the deadlock check off, because a
bounded conversation, a delivered stream and a spent bound do stop. That a
request of `conversation` cannot go round for ever is stated as the budget
`AnsweredWithinBudget`.

**Fairness.** `WF` on each step of a request: the executor polls every ready
task and a network wait ends by an answer or a timeout. `SF` on taking the
refresh lock: tokio's Mutex is FIFO, so a waiter is not overtaken for ever. No
fairness for clients, operators, clocks, rotations or crashes.

**Findings.** (1) A rule's disable that would break `min_available` becomes a
counted failure, and the third one disables. (2) `try_ensure_token` writes the
credentials back that it cloned before the refresh. (3) A rotated token in the
file re-enables a credential even if the operator disabled it. (4) An `<invoke>`
in the middle of a line is recovered as a call if the text before it left with an
earlier chunk. (5) One frame with a corrupt prelude stops the decoder, because
each skipped byte is one more error. (6) A group rename that is refused because the
credentials could not be saved is undone in the registry only. Each quotes the line it contradicts in
PROJECT.json.

## 4. Proofs

Every theorem holds for every value of the constants that satisfies the modules'
named assumptions (`PoolAssumption`, `AcquireAssumption`, `ProviderAssumption`,
`RegistryAssumption`, `StreamAssumption`, `DecoderAssumption`, `ScenarioAssumption`,
`ToolIdAssumption`, `WebSearchAssumption`, `ScenariosAssumption`, `UsageStatsAssumption`, ...); TLC evaluates those on every run. They type the constants
and say what is true of any configuration: ids are positive, thresholds are not
zero, a credential file is finite, the priorities a credential is given are among
`Priorities`. Nothing else is assumed: the number of requests, credentials, groups,
keys, proxies, callers, sessions and ticks is not bounded, save by the counters that
the models themselves cap.

| Theorem | What it says | Property |
|---|---|---|
| `PoolTypeCorrect`, `EnabledMeansBelowThreshold` | types; enabled means failures left | `TypeOK`, `EnabledBelowThreshold` |
| `StreakAlwaysDurable`, `IdsHandedOutOnce` | a crash rewinds only a change whose save failed or is to come, whatever overtakes it; ids once | `StreakDurable`, `IdsNeverReused` |
| `StreakIsWhatHappened`, `HealsStayWithinBudget` | a streak is the heals an observer counts, who falls back to the last save at a crash, and they obey the limits | `StreakObserved`, `HealBudget` |
| `PoolImplementsLifecycle` | the pool implements CredentialLifecycle | `ImplementsLifecycle` |
| `RequestsTypeCorrect`, `RpmLimitHolds` | bounded attempts; the quota under any interleaving | `TypeOKAcquire`, `RpmNeverExceeded` |
| `RefusedOnlyWithoutChoice` | no request overlooks a credential that stayed usable | `NeverRefusedWhileServable` |
| `AcquireImplementsPool`, `ProviderImplementsPool` | requests and calls only take the pool's critical sections | `SpecAcquire => Spec`, `SpecProvider => Spec` |
| `CallsTypeCorrect`, `ProviderKeepsRpmLimit` | bounded attempts of a call; the quota again | `TypeOKProvider`, `RpmNeverExceeded` |
| `RateLimitReachesClient` | a 429 is not lost to a failure to get a credential, nor to the end of the attempts | `RateLimitPreserved` |
| `OneRefreshAtATime` | the refresh lock is held exactly while its holder refreshes | none: `RefreshLockHeld` |
| `WaitersSendNewest`, `QuietMeansSaved` | the second look under the lock; nothing unsaved when quiet | `NewestUnderLock`, `SavedWhenQuiet` |
| `SpentTokenNeverSaved`, `TokenImportedOnce` | no stale save over a live token; no double import | `LiveTokenKept`, `NoDoubleImport` |
| `IndexAndEntriesAgree`, `RevokedNeverAuthenticates`, `NamedGroupsAreRegistered` | index, revocation and cascades through crashes and concurrent handlers | `KeyIndexExact`, `RevokedStaysDead`, `RegistryConsistent` |
| `AuthorisationSpentOnce` | one authorisation, one credential, no port left behind | `LoginUsedOnce` |
| `ProxyJudgedByItsOwnProbes` | verdicts hit the proxy probed | `JudgedByItsOwnProbes` |
| `FailuresStayWithTheirAccount`, `PanelsShowWhatHappened` | failures shown for an account are its own; the chart has of each day what the logs have | `PanelsTellTheTruth` and its part `FailuresAreItsOwn` |
| `StreamIsTyped` | indices name blocks of their kind; the decoder keeps its limits | `TypeOKStream` |
| `ClientIsTold` | the client reads a well-formed message, complete at the end, unless a redacted event met a tagged block | `ClientReadsMessage` |
| `CallsAreWhole` | exactly the completed calls, each once; an error event and status for one that is cut short or no JSON | `OnlyWholeToolCalls` |
| `NoWordIsSwallowed` | each word is in the text or the thinking, in order unless reasoning met a tagged block, or held behind it, or discarded | `NoWordSwallowed` |
| `CallsWithinBudget`, `EveryCallRecordedOnce` | bounded upstream calls; one true record per request | `AnsweredWithinBudget`, `RecordedOnce` |
| `EveryCallHasItsResult` | no call without its one result, no result without its call | `EveryCallAnswered` |
| `HistoriesAreWellFormed` | roles alternate, every called tool is declared, none twice | `HistoryWellFormed` |
| `ImagesGoOnce` | an image is in the history once, and none is left out | `ImagesSentOnce` |
| `BillsAddUp`, `CacheReadsItsOwn` | the parts of a bill add up; own prefixes only | `TokensBilledOnce`, `ReadsItsOwnPrefix` |

**The pool.** `PoolInv` types every entry and says that its counters are below the
threshold. Neither is inductive alone: a counted failure stays in range only
because an enabled credential has failures left, and that survives a heal only
because a healable one has not spent its refresh failures. A restart reads its
entries from `disk`, which is why the invariant types the file, too. `StreakDurable` holds of the ids outside `saves.unsaved`, action by action. The proof has a lemma per kind of change of one entry
and one step per action that cites the lemma that fits. PoolHistory adds what the
observer saw: `Same` (status and streak stay), `Tripped` (an automatic disable) and
their like classify every action once, and both the streak theorems and the
refinement follow from the classification.

**Requests and calls.** `PoolStep` says what one critical section may do while the
process lives: entries keep whether their API key is there and their priority among
the possible ones, count a call only below the limit, are added under `next_id` or
go. Every action of the pool is one (`RunningStep`). On it rests the invariant of
the requests, `AcquireIInv`: attempts are left while a request tries, and what it
picked is `Tracks`ed, that is, its id is below `next_id`, so no credential it did
not mean can get that id, and as long as the credential lives the copy agrees
about its API key. That is why a token obtained after the wait may be written back,
and so why a request takes only steps of the pool. `SteadyInv`, for the refusals, says
that whoever is past the selection has nothing left that was selectable all along;
it needs that `select_next_credential` finds a candidate whenever there is one
(`SelectNextFinds`, by the least priority or the least use and priority).
`ProviderIInv` adds that a call in an attempt has tries left and a call past the
acquire holds its context; `LimitedInv`, that an unreturned 429 is in `last_error`.
`RefreshLockHeld` is inductive on top of it: `refresh_lock` is `r` if and only if `r`
waits for the token endpoint, be it in `try_ensure_token` or in
`force_refresh_token_for`, so two refreshes never overlap and none leaves the lock
behind, also when a crash takes the endpoint's answer away.

**Tokens.** `RotationInv` puts the locks, the snapshots and the generations together:
what was just answered is newer than every copy of its login in memory, in the file
or in a snapshot on its way (`AnswerInv`, `FreshInv`); memory is ahead of snapshots and
they are ahead of the file, unless the older token is spent (`OrderInv`); and the login
a relogin is about to paste is nowhere else (`ReloginInv`). `SavedWhenQuiet` is
inductive only with the snapshot of the one writer (`SyncInv`).

**Keys, logins, proxies, cache, traces.** `RegistryInv` follows each cascade: a name in use
and not registered is one that a rename is about to take from its users, or a stray; and no
deletion that is past its last look has its name in use, unless it is a stray. That is
inductive for any number of handlers, because what another handler does between two
steps either keeps a name's users or makes it a stray. The plaintext of the system key is the one
config.json has, or is to have, or `keyLost` says why not; on it rests that a boot revives nothing.
`LoginInv` says who may still hold a code: the session or the request that took it
out, never two. `ProxyInv` needs that a probe's id is that of the URL it started with or of
nothing. `CacheIInv` needs that the prefix of a client's last turn outlives that
turn's ttl and that the file, too, has only what its owner sent. The bill is
arithmetic: `SplitAddsUp`, `SimulateAddsUp` and `ResolveAddsUp` hold of all naturals.
`TraceInv` says of every stored hop that its account lives, or that its id waits for
the purge or was left with failures of an older account (`outlived`); an id is never both alive and
waiting, and both kinds are below the next one given. `StatsInv` says that a log file holds no day
after its own: so the files of the horizon have all that was logged of a day the chart shows, whichever file that
went to. A day's balance is the chart's count, with what is on its way there (`Coming`), against the logs'
count, with what no log took (`unlogged`); each action moves a record from one term to another or adds
one to both sides.

**A response.** `StreamInv` has three layers. `Managed` says that what a client has
read of `out` is the blocks the manager keeps, type by type and state by state, and that
the message is begun and not ended; a second argument names the blocks that
have all they need and are not stopped yet (a signed thought, a call's input), a state that
exists only inside a handler and that `Managed(c, {})` rules out between them. That is why the
thinking deltas may bypass the manager's checks: `Core` says that inside a tagged thinking
block, and only there, the block `thinking_block_index` names is open. `Full` adds the
recovered and the structured calls: the inputs sent are those of the ids that have a block,
each once, and the structured ones are `done`. Every method of StreamContext has a lemma that says
which fields it changes (`Keeps`), which events it adds (`Adds`) and that it maintains the layer
it belongs to; the loops have an induction over their rounds (`UpTo`, from the
well-foundedness of the naturals, which the provers take because it speaks of a
set and not of an operator). `Told`, `Settled` and `Finished` are the stations of
`generate_final_events`: all blocks stopped, one `message_delta`, `message_stop`, and an error event
if a call was cut short. `DecoderOK` bounds the decoder on its own.

**Words.** `WordsInv` follows one set, the words that have entered the context (`A` in `Carried(A)`). The
upstream numbers its words as it sends them, so those in the decoder's buffer all come
after `A` (`Wired`), and as long as no frame is corrupt the decoder holds nothing but the half
that is on its way (`Whole`). What a handler is given is at any moment in order: written, in the
invoke buffer, in the thinking buffer or the filter, then what the handler still has in hand (`Ordered`, with the
rest as a parameter `R`). Each method has a lemma that
moves a prefix of `R` to one of the places before it or to `dropped` and keeps the order (`Flow`), and the loops
carry it through their rounds. Between events the words are `Underway`, or `Rested` when the
thinking buffer has been flushed; after `generate_final_events` they are `Emptied`. Words go to the thinking
only while the text behind them is held, which is why the thinking needs to be ordered in
itself and disjoint from the rest, but not before it: reasoning events
overtake what the buffers hold. That a response of words alone loses none (`Untouched`)
needs that no filter finds anything to discard in words.

**A client request.** `CallInv` counts: the calls a request has made are at most its
finished rounds times one call and all its retries, and those of the round it is in.
It speaks of the phase, the round and the retries only, so it holds whatever the
client, the model and the search service say. `RecordedStep` follows action by action:
a step that ends a request writes its one record, every other step writes none.

**A conversation.** The conversion is pure, so its theorem is of one request: `RequestIs` says of the
request made of any good messages (`GoodMessages`: content of the kinds its role may have) that it
pairs its calls, alternates, declares what it calls and has each image once. The proof follows
`convert_request`: `ContentCollected` says what one message adds to what was collected,
`RunsAre` that merging messages of a role makes runs that alternate, `HistoryBuilt` that the entries of
those runs are the history, and `PairedAnswers` that `validate_tool_pairing` and `OrphansGone` leave no call without
its one result. Each loop is unfolded once (`LoopExists`, for whatever a step does), and what holds after its last
element is shown for its first `n`, by the least `n` for which it fails: the library's induction
theorems take an operator, but the least element of a set of naturals is a fact about a
set. `Talk` carries this through the conversation: what the client holds are items its API may be sent
back, in each of the three APIs, through `OpenaiToAnthropic` and `ResponsesToAnthropic`, the streams
and the search loop; and while the upstream has a request, it is the conversion of the payload being served.
`Talk` has to name the answer and the loop's presentation too, because the client keeps what it is given and
sends it with the next turn.

**A finding of the proofs.** `LiveTokenKept` was not provable as first stated: a reload
of credentials.json may meet a relogin whose save is still to come, and bring back
the other login's token for the same id. The code does that, so the model
says it (`crossed`) and the property leaves those ids out. Likewise the background
task of `AdminService::new` drops expired logins, which the model now has as
`SweepExpired`: without it a login nobody polls would have kept its port for good.

`HistoryWellFormed` was not provable as first stated either: two tools of the history whose names
differ only in case, neither declared any more, get two placeholders, because `convert_request` compares each
with the declared tools only (converter.rs:802), although Kiro ignores the case (converter.rs:793). The
property says now that of two such tools neither was declared, and `conversation` has a scenario for it.

`NoCallFromCodeFence` is not true without `~ctx.repeat_tripped`: once the repeat guard has tripped, the
lines of a code fence it discards no longer reach the fence state nor the client, and a call recovered
after them follows an odd number of fences in what the client was sent. The code means to
give up the text there, so the property is stated for a guard that has not tripped.

**Model-checked only.** `AcquireEnds` and `CallEnds` are liveness under fairness, out of
the prover's reach with ENABLED. `NoCallFromCodeFence` relates the fences of all
pieces sent, held and discarded to a state that is kept by the guard, not by what was sent; `Flow` knows words only.
`CallsRepeated` and `CallsAsDeclared` compare arguments and names there and back: they need that
the tables `Lowered` and `Shortened` confuse no two names, true of the scenarios' tables and only likely of a
hash, and that two ids made by `ToString` differ, which the provers know nothing of. `OnlyClientCalls`
depends on the scenarios: an upstream that repeats one id within a round would violate it.
`NothingSaidIsLost` is about the order of texts through every step of
the conversation. The violated properties are refuted, not proved.

## 5. What is left

**To prove.** The properties listed above as model-checked only, of which
`NothingSaidIsLost` is next to `RequestIs`; and that the handlers of Registry
implement an atomic rename when nothing fails between their steps.

**Not modelled, and why.** Self update and the UI (files and processes outside the
proxy); images, token counts and signatures (pure functions of one request, of
pixels and bytes); the balance cache (read by the panel only); the retry without
thinking, ping events, the filters of statistics queries.

**Observed while modelling, with no property.** These are behaviours a reader of
the models should know of; the code promises nothing there that a run could
refute, or the promise is outside what is modelled.

  * The text held back after a lone `<` (stream.rs:1989) has no length limit; it is
    delivered at the end at the latest (`NoWordSwallowed`).
  * A tool call inside an unclosed `<thinking>` leaves the thinking block open
    (stream.rs:2377). `decode_iter` ends at the first error, so intact frames behind a
    corrupt one wait for the next chunk (decoder.rs:304); a corrupt length is
    believed until that many bytes came (frame.rs:104). A client that leaves takes
    the usage record with it (handlers.rs:954).
  * `map_tool_input_from_kiro` also rewrites the arguments of a client's own tool whose
    name is that of a Kiro tool. Orphaned results inside the history are not
    removed, only those of the current message.
  * The search loop never returns "no results" silently by its doc, but an MCP answer
    that does not parse is treated as one without results. The `/cc` buffered stream never calls
    `set_official_truth`.
  * A reload of credentials.json after a failed save and a lost answer takes an older
    token of the file over memory's. A forced refresh may send a spent token.
  * A social login's comment says the session stays for another poll when the state
    does not match; it stays, but its callback is used up and its server gone: a
    paste can still finish it, and the next poll drops it. An abandoned login keeps its
    port until it is polled or swept; a relogin by device code without a refresh
    token reports success.
  * `process_redacted_content` (stream.rs:2243) closes a thinking block that a `<thinking>` tag opened and
    leaves `in_thinking_block` set, so the next text is a `thinking_delta` to a closed
    block (stream.rs:1788, 1830), which a client may refuse. A reasoning event inside a tagged block
    overtakes the words that wait in `thinking_buffer`. The converter asks for tags and for native
    reasoning in one request; `ClientReadsMessage` and `NoWordSwallowed` name these two cases.
  * In the search loop a call that is cut off or is no JSON reaches the client as a call without
    arguments (websearch_loop.rs:217-224), a custom tool's as the text `{}`, although the
    streamed path takes care that no such call is forwarded (stream.rs:883-889).
    `CallsRepeated` names the case.
  * A credential or key that gets a group while `delete_group` is between its count or clean-up and the
    deletion (handlers.rs:1603-1638) keeps a name that is not registered, though the deletion was not
    forced; so does one that is renamed onto a group being deleted. `RegistryConsistent` sets these names aside
    as `strays`, and the next boot registers them.
  * A setting saved while the system key is rotated may write the old key back into
    config.json (service.rs:1254): the next boot then revives the plaintext the operator
    rotated out. So does a rotation whose write of config.json fails, which is only logged. `RevokedStaysDead` names
    these cases (`keyLost`).
  * A network failure, a missing endpoint or another answer after a 429 replaces it in `last_error`
    (provider.rs:538, 588), so the client does not learn of the 429 then.
  * groups.rs:6 says that every group name given to a credential or a key is
    checked to be registered; nothing checks it (`create_client_key`,
    `update_client_key`, `update_credential`). Registry lets an operator give any
    name, and `RegistryConsistent` sets those names aside (`strays`) until they are
    created or the next boot registers them.
  * A crash between the steps of a group cascade leaves keys in the old group
    while credentials have the new one: both names are registered at boot
    (`RegistryConsistent`), but the key selects nothing. Ids of keys start after the
    highest one saved, so they are given again after a restart.
  * Credential ids, too, are given again after a restart once the highest was deleted,
    contrary to the comment at token_manager.rs:3263: the counter is monotone
    within a process. A request that outlives its account, or a purge cut short, lets
    a new account inherit failures; `FailuresAreItsOwn` excludes these ids.
  * The digest of a cached prefix ignores the input of a call and the content of a
    result, and a shorter ttl overwrites a longer one.
  * Keeping usage logs for fewer days than the chart shows shortens the chart at the
    next restart.
