# Verification of the Aldar middleware

This directory holds TLA+ specifications of the parts of the middleware
(`src/aldar_middleware`, a FastAPI service over PostgreSQL and Redis) whose
correctness depends on what several requests, threads or processes do at once,
the TLC configurations that check them on small instances, and proofs, checked
by TLAPS, of the properties that matter most for instances of every size.

Paths below are relative to `src/aldar_middleware` unless they start otherwise.

## 1. The system

### How it runs

`startup.sh` starts gunicorn with two uvicorn workers. Each worker is one
process with one event loop: handlers interleave only at an `await`. The workers
share PostgreSQL (one `AsyncSession` per request, READ COMMITTED) and Redis, and
nothing else: a module-level dict, set or client cache is private to a worker.
`lifespan.py` starts two daemon threads that push metrics to Azure. Celery
workers run the periodic tasks.

    client --HTTP--> route handler --await--> PostgreSQL  (row locks, unique keys)
                         |  \--await--> Redis             (caches, counters)
                         |  \--await--> AI service, AGNO, Azure AD, blob store
                         \--> module globals of the worker (rate limits, blacklist)

### Inventory

| Component | State | Operations | Hard part | What makes it correct |
|---|---|---|---|---|
| Chat rate limiter, `routes/chat.py` 7654-7808 | a deque of times per user, in each worker | one call: drop old entries, refuse or append | window edge; two workers; restart | never more than the limit in a window; refuse only when it is used up |
| Question tracker, `services/question_tracker_service.py` | a row (user, month, count) | increment, read, create on first use | concurrent first use, lost updates, month's end | the count is the number of messages stored |
| Sending a message, `routes/chat.py` 5370-6042 | session, message, attachment and agent rows | one long handler, two commits | a failure between statements; deadlock on agent rows; refusals | message and count together or neither; the answer fits what is stored |
| Available-agents cache, `services/agent_available_cache.py`, `routes/user_agents.py` 232-526 | a global version and one entry per user, page and version in Redis | read through; invalidate by increment | a fill that overlaps an invalidation; lost keys; failed calls | no deleted agent is served; an invalidation is seen |
| User memory cache, `services/user_memory_cache.py`, `routes/azure_ad_obo.py` 4040-4660 | one key per user in Redis; the memories in AIQ | read through; change a memory and delete the key | a fill that overlaps a deletion, no version; failed calls on both sides | an old list is explained by a fill in flight; every change is seen in the end |
| Memories of a message, `routes/user_memory.py`, `routes/context_memory.py` | a JSON column of the message; rows of `agno_memories` | analyse, save, change, discard, delete one or several | the column is written back as it was read; two commits, the second's failure swallowed | a saved memory has its row; a decision is lost only to an overlap |
| Chat sessions, `routes/chat.py` 279-600, 982-1160, 1974-2330, 7600-7790, `monitoring/chat_cosmos_logger.py` | the session's row, its messages, AGNO's copy, the user's log | create, rename, mark, delete, show, send | flag and mark share a JSON column; AGNO's title is copied in; a deleted session comes back | a rename or mark is lost only to an overlap; no message without its session; the log tells the truth |
| Feedback, `routes/chat.py` 5067-5360, `routes/feedback.py`, `services/feedback_service.py` | rows of `feedback_data` without a unique key; files in the blob store | react, clear, delete, the form with files | look, then insert; count, then insert; only changed attributes written | one reaction to a message, a limit on a user's items, unless requests overlap; deleted is final |
| User agents over AIQ, `routes/azure_ad_obo.py` 1011-1420, 3160-3990 | the agent in AIQ, its row in `agents` | create, update, status, delete | AIQ first, then the row; lost answers; swallowed failures | the two differ only by a request that stopped in between or crossed another |
| Administrators' agents, `routes/admin_agents.py` 137-320, 736-1700, 2694-2790 | `agents` and three tables of tags, tools and features | create, update, delete | helpers that roll the request's transaction back and go on; names checked, not unique | an agent is what one request asked for |
| Metrics forwarder, `monitoring/azure_metrics_ingestion.py`, `monitoring/metrics_forwarder.py` | a queue shared by three threads | add, flush, periodic flush, stop | copy and clear are two steps; failed uploads; join timeouts | every queued metric is sent once; the queue is bounded |
| OBO token cache, `auth/obo_utils.py` | Redis, and a dict in the worker | store, get, with fallback | the fallback outlives what it stood for | no token after it expired or was replaced |
| Circuit breaker, `services/circuit_breaker.py` | a row per agent | before and after a call | unlocked read-modify-write; time | opens after the threshold, lets one probe phase through |
| Rate-limit service, `services/rate_limit_service.py` | counters in Redis, configurations in the database | check, increment | check-then-act; expiry renewed by each request | a limit is a limit |
| Quotas and budgets, `services/quota_service.py` | usage rows | check, record | check-then-act | usage stays under quota |
| Workflows, `services/workflow_service.py`, `services/agent_executor.py` | executions and steps | order, run, fail, cancel | dependencies; a failed step | a step runs after what it depends on |
| Remediation, `services/remediation_service.py` | rules, executions | guardrails, run an action | counting before recording; cascades | at most N actions per period |
| Routing and health, `services/routing_service.py`, `services/health_monitor.py` | agents' health and load | choose an agent; probe | a choice made on old health | a disabled agent is not chosen |
| Run events, `services/webpubsub_listener.py` | run status, event log | handle an event | out of order, twice | a run that completed stays completed |
| Token blacklist, `auth/token_blacklist.py` | a set in the worker | add, test | two workers; restart | a revoked token is refused |
| AGNO client, `orchestration/agno.py` | a response cache in the process | get with a time to live | stale entries | an answer is not older than its time to live |
| Login and group sync, `routes/auth.py` 347-938, `services/rbac_pivot_service.py` | a pivot row per user, `users.is_admin` | fetch the groups, replace the row, check the admin groups | overlapping logins; outages of Graph; failures between commits | the row is what Azure AD has; `is_admin` follows it; nobody sees a user without a row |
| RBAC: agent assignment, roles, directory sync | role rows, a pivot row per agent | assign, remove, check access | two reads of one decision | an access is one the rows allow |
| The rest: authentication, logs, downloads, blob store, service bus, MCP, administration | rows or external calls | CRUD, I/O | little here that interleaving can break | |

The components interact through a few points, and these are what the modules
compose: the chat handler calls the rate limiter, the question tracker and the
agents' rows; the agents' writers (administration, role assignment, the chat
handler's own creation of the Super Agent) invalidate, or fail to invalidate,
the available-agents cache; a login replaces the pivot row that decides which
agents the user may use. The `agents` table has two sorts of writers that do not
know of each other: users, whose agents live in AIQ and are copied to the table,
and administrators, who edit the table alone. Sessions live in PostgreSQL and in
AGNO, and the handlers that show one copy AGNO's title into the row. The
memories of a user are AIQ's, those of a message are rows of `agno_memories`
and a column of the message.

`PROJECT.json` lists under `hazards` what is hard to test in each of them, at
the line where it bites, with the property that covers it or why none does yet.

## 2. Modules

### ChatRateLimit, ChatRateLimitProofs

`_enforce_chat_rate_limit` holds an asyncio lock and does not await inside, so
one call is one action: `Admit` or `Reject`. `store[w][u]` is the deque of user
`u` in the `_rate_limit_store` of worker `w`. The `while` loop is the choice of
how many entries it pops (`Pops` holds for exactly one number). `Restart` is a
worker that gunicorn replaces; `Tick` is the clock, which the model does not let
step back (`utcnow` of a host whose clock is slewed). `admitted` is a history of
all calls let through since the worker started, which the code forgets as it
pops: the properties are about that history, not about the deque.

### MessageLedger, ChatMessage, ChatMessageProofs

`MessageLedger` is the promise: a message and its increment appear in one step,
and the answers given do not contradict what is stored.

`ChatMessage` is the handler. `pc[r]` is the next statement of request `r`; one
action is one database statement with the Python around it:

| `pc` | action | code |
|---|---|---|
| tracker, insert | `SelectTracker`, `InsertTracker` | `increment_question_count`: `SELECT ... FOR UPDATE`, or `INSERT` and flush |
| validate | `Validate` | the attachments' checks |
| resolve, insert_agent | `Resolve`, `InsertSuperAgent` | `_resolve_agent` |
| touch, touch_session | `TouchAgent`, `TouchSessionAgent` | `_update_agent_last_used`: an `UPDATE` and flush |
| session | `OpenSession` | an existing session, or a new row |
| store | `Store` | the message and `db.commit()` |
| link, reply | `Link`, `Reply` | the attachments' commit, the answer |
| peek, peek_insert, peek_commit | `Peek`, `PeekInsert`, `PeekCommit` | GET `/question-tracker` |
| failed | `ReplyError`, `Reject` | the exception handler, or a check that refuses before the next statement |

A transaction is `Held(r)`, the rows it locks or inserts; `rows` and `count` are
what is committed. `newCount[r]` is the ORM object's count, computed when the
row was read and written at the commit. PostgreSQL is modelled from what the code
relies on and marked external: a row lock is held to the end of the transaction,
an `INSERT` of a key another open transaction inserted waits for it and then
fails, a cycle of waits fails one statement (`DeadlockVictim`). `StatementFails`
is a lost connection or `command_timeout`, `Crash` the death of a worker. A
failed statement rolls the transaction back and leaves the session unusable
until someone rolls it back, which the two `except` blocks that swallow it
(5387, 6606) do not: `pc` is then "failed", and the next statement raises.

### AgentAvailableCache, MCAgentAvailableCache (proofs in AgentProofs)

One user and one page (entries of different pages share only the version).
`at[r]` is the next call of reader `r`.
A list is the set of committed writes it reflects and the reader that built it.
`Begin` to `StoreEntry` are the awaits of `get_available_agents`, in order: GET
of the version (and SET to 1 if there is none), GET of the entry, count of the
deleted agents, the queries that build the list, GET of the version again, SETEX.
`EntryFails`, `VersionFails`, `CheckFails` and `FetchFails` are the `except`
branches of those calls. Writers commit and then increment (`CommitWrite`,
`Increment`), or never do (`CommitSilently`: the Super Agent created by a chat,
role and grant changes), or only increment (`BeginManual`).
`settled`, `filling`, `stamp`, `before`, `deleted` are histories: which writes an
increment has followed, which readers then held a list not stored yet, under
which version, and what was settled or deleted when a reader began.

### GroupSync, GroupSyncProofs

A login of an existing user (`routes/auth.py`, `azure_ad_callback`), from the
moment its user row has been updated. `pc[r]` is its next await:

| `pc` | action | code |
|---|---|---|
| idle | `Load` | the user is found, updated and committed (508-750); the session is then closed |
| fetch | `Fetch`, `FetchFails`, `FetchRefused` | `get_user_groups`: the groups; an empty list after a timeout or a 5xx; an exception after a 401 or 403 |
| delete, deleting | `BeginDelete`, `EndDelete` | the `DELETE` of the user's pivot row: its snapshot, and its effect |
| insert, commit | `Insert`, `Commit` | the flush and the commit of the new row |
| refresh | `Refresh` | `refresh(user_pivot)` |
| check, compare | `Reload`, `Compare` | the admin check: `SELECT` of the user, `UPDATE` of `is_admin` if it differs |

`Fail` is the rollback and the two handlers that swallow the exception: the login
goes on to the check without a `user_pivot` (`pivot[r]`). `CheckFails` is the same
for the check. `row` is the committed pivot row, with the login that inserted it
because a `DELETE` under READ COMMITTED deletes the row of its snapshot or nothing;
`deleter` and `inserter` are the logins whose open transactions hold the key.
Groups are numbered in the order Azure AD has them (`directory`); 0 is the empty
list of a failed call. `asOf`, `synced`, `met` and `crowded` are histories: the
directory when a login began, who has committed, who held fetched groups at that
moment, and whether logins have overlapped at all.

### ChatSession, MCChatSession, ChatSessionProofs

One session and the requests about it. `row` is the committed row with the two
values of `session_metadata` that the handlers tell apart, the flag `renamed`
and the mark. Each transaction writes one session and takes no lock that others
take in another order, so its statements and the commit are one step; what the
handler read earlier is `snap[r]`.

| `pc` | action | code |
|---|---|---|
| read | `ReadForRename` ... `ReadForMessages` | the `SELECT` every handler begins with |
| insert, inserted, first | `InsertSession`, `AfterInsert`, `FirstMessage` | `create_chat_session` |
| write | `Rename`, `Mark`, `SendMessage` | the flush and commit; an `UPDATE` that matches no row is no error |
| refresh | `Refresh` | `db.refresh`, the log entry, the answer |
| load, erase | `LoadMessages`, `Delete` | the messages are read, then deleted one by one and the session with them |
| agno, title, reply, spoiled | `QueryAgno`, `CopyTitle`, `CopyFails`, `Reply`, `ReplySpoiled` | the title copied from `agno_sessions` unless the flag is set; its failure swallowed |
| ask, recreate | `AskAgno`, `Recreate` | the list of messages of a session that is not there but that AGNO has |

A rename writes the whole `session_metadata` with the mark as it was read, a mark
with the flag as it was read. `effective` are the requests whose write found the
row; `lastRename` and `lastMark` with `metRename` and `metMark` say who last
decided and who then held an older reading (for the mark also who held one when
the row was inserted, since a rename writes back the mark it has read). AGNO
(`AgnoTakesSession`) is external; it may have a session the table never had, which
`Recreate` then inserts (`routes/chat.py` 2238-2258). Of `send_chat_message` a session
that is there is modelled; the one that opens a new session logs its creation (5572)
before its commit (5643), so `SaidIsDone` is not claimed of it.

### MessageFeedback, MCMessageFeedback, MessageFeedbackProofs

The reactions of one user to one message and the rows of the form, about this
message or another. A row is known by the request that inserted it. `Lookup`,
`LookupToErase` and `LookupById` are the `SELECT` of submit, of clear and delete,
and of the deletion by id: `scalar_one_or_none` finds one, none, or raises.
`Update` writes only what differs from what was read, as the ORM does: a reaction
equal to the one read is not written although the row may have another by now.
`Count` and `Insert` are the limit and the new row; `Flush`, `Upload`, `Commit`
and `Respond` the form, whose file is in the blob store before its row is
committed. `looked` and `counted` are histories: who, when a row was written, had
looked for one, or counted them, and not written yet.

### StaleReads, UserMemoryCache (proofs in MemoryProofs)

`StaleReads` is the promise of a cache that nobody locks: an answer shows the data
as it was at some moment, no earlier than the oldest copy in circulation when the
reader asked, and what has gone out of circulation does not come back.

`UserMemoryCache` is the list of a user's memories. `Ask`, `Hit` or `Miss`,
`Fetch`, `Store` are the awaits of `get_all_user_memories`; `Change` and `Invalidate`
those of the three handlers that change a memory; a name in `...Fails` or
`...Unanswered` is the `except` branch of that call. `AiqChanges` is AIQ, which
changes memories from conversations and tells nobody; `Expire` is the time to
live (`ex=ttl`) or an eviction. A list is known by the number of changes it
shows, which is all that tells an old one from a new one.
The refinement mapping is `Promise == INSTANCE StaleReads WITH oldest <- Oldest`:
`Oldest` is how many changes all copies show, the entry in Redis, the lists that
readers hold and have not stored, and AIQ's own. A cache that wrote a hit back,
or that a reader stored twice, would break it.

### MessageMemory, MCMessageMemory, MemoryProofs

The memories found in one message. `pc[r]` is the next statement of a request,
`items[t]` is the item of text `t` in the
message's JSON column, `rows` are the rows of `agno_memories`, known by who
inserted them and the text. `Analyze`, `AutoSave`, `Attach` are
`analyze_user_memory`: a row and a commit for each certain text, then the column
replaced. `Insert`, `Find`, `Update`, `LookToMark`, `Mark` are saving and changing
one: the row is committed, then the column written in a transaction whose failure
is swallowed (`MarkFails`). `ReadToDiscard`, `Discard` leave the row.
`Find`, `Erase`, `CommitDelete` are the deletion of one row or of a list of rows
(`Found`): one transaction, which holds the rows from the `DELETE` to the commit
(`Locked`) and writes the columns that name them as it read them. `last[t]` is
who decided last about a text, `met` who held an older reading then.

### UserAgents, MCUserAgents, UserAgentsProofs

`aiq[a]` is the agent in AIQ, `row[a]` its row. Each handler is a call
(`CallCreate`, `CallUpdate`, `CallStatus`, `CallDelete`), whose answer may be lost
after AIQ has served it (`Serve`), the `SELECT` of the row (`Look`; `Find` for the
deletion, which looks first), and the write (`SaveCreate` ...). `SaveFails` is the
`except` that logs and answers with success, `Crash` the worker's death.
`AdminEdits` and `AdminDeletes` are what `routes/admin_agents.py` does to the same
row. `lost` are the requests AIQ has served whose row was not written (yet or
ever), `met` who was between call and row when AIQ served another.
The handlers for documents, starter prompts and knowledge sources pass a call on
to AIQ and write nothing that the row has.

### AgentAdmin, MCAgentAdmin, AgentProofs

An agent is a row with tags, tools and features in three more tables, and what is
stored is known by the request that wrote it (`by`).

| `pc` | action | code |
|---|---|---|
| find | `Find` | the `SELECT` of the row; `changes[r]` are the fields that differ from it |
| name | `CheckName` | any other agent of that name, deleted or not |
| fields | `WriteFields` | the flush of the fields that differ, which locks the row; nothing and no lock if none does |
| category, type | `SetCategories`, `SetType` | `_set_agent_categories` swallows an exception, `set_agent_type` does not |
| tools, features | `SetTools`, `SetFeatures` | `_set_agent_tools`, `_set_custom_features` |
| commit, commit tools | `Commit`, `CommitTools` | the commit; a create stores its tools in a second transaction |
| delete | `DeleteAgent` | `is_deleted`, and nothing else |

Each replacement is two steps, as READ COMMITTED makes it. `Delete` takes the
snapshot of the `DELETE` (`scan[r]`); `Replace`, once nobody else has deleted those
rows in an open transaction, deletes the ones that are still there, and inserts.
What another transaction inserted in between is not in the snapshot and stays. An
`INSERT` waits for a key another open transaction has written, and then clashes
with it or not (`InsertWaits`, `Clashes`: the unique indexes on an agent's tag and
on an agent's feature; tools have none). The features are sent by the commit.

`holds` are the requests that hold their agent's row, `gone[r]` and `put[r]` what the
open transaction of `r` has deleted and inserted. `Apply` writes the fields in
`changes[r]` and leaves the others as they are by then: a name that was as the
request read it may be another's when it commits, and stays the other's.
`RolledBack` is the `except` of the helpers: `db.rollback()` in the middle of the
request, which undoes everything before it and frees the lock, after which the
handler goes on. `StatementFails` is any other exception in a helper.

`UserWrites` is the other writer of these tables (`routes/azure_ad_obo.py` 1243,
3296), for the agents in `Theirs`: a user who creates or updates an agent checks no
name, writes what it likes, replaces the features, and knows nothing of tools and
tags. It locks the row first (`updated_at` always differs), so that its statements
are one step. A user's deletion (3887) is `DeleteAgent`: it writes the same field.
The Super Agent that the chat and AGNO's client insert (`routes/chat.py` 423, 2272,
`orchestration/agno.py` 1149) is one more row whose name nobody checks, and is
covered as one of `Theirs`.

`rolled`, `unlocked`, `stale`, `passed` and `last` are histories: who was rolled
back, who has replaced something without holding the row, who had read a row that
another has committed since, whose name was checked and not stored when another was
committed, and who committed an agent last. `FreshIsWhole` is what an administrator
is told by a success, with the two exceptions the code has (`rolled`, `stale`);
`MixedOnlyUnlocked` says what an overlap can do to the rows beside the agent's, and
that the row's lock, where it is held, prevents it.

## 3. Runs

All runs finish in a few minutes on two cores. The one marked *violation* checks
what a comment of the code says, and TLC finds it broken; `findings` in
`PROJECT.json` has the quote.

| Run | Question | Result |
|---|---|---|
| `rate_limit` | Does a worker ever let too many calls through, or refuse one wrongly? | no |
| `chat_message` | Do count, message, answer and locks fit together through races, deadlocks, failed statements, crashes and a month's end? Does the handler implement `MessageLedger`? Does each request get an answer? | yes |
| `agent_cache` | With the version in Redis: is an answer that misses a settled write explained by a fill that overlapped it, and by nothing else? | yes |
| `agent_cache_faults` | Is an agent ever served that was deleted before the request, when Redis fails or forgets? | no |
| `group_sync` | Is an old pivot row explained by a login that overlapped, or an outage, and by nothing else? Does anybody ever find the user without a row? Is each login answered? | yes; no; yes |
| `chat_session` | Is a lost title or mark explained by a request that had read the session before? Does a message outlive its session? Has what an answer or the log says been done? | yes; no; yes, but for two cases the property names |
| `message_feedback` | Where do two reactions, too many items and a mixed row come from? Does a deleted row come back? | from requests that overlapped, only; no |
| `user_memory_cache` | Is an old list explained by a fill in flight? Does the cache implement `StaleReads` under every failure? Is every change seen in the end? | yes |
| `message_memory` | Does a saved memory have its row? Who can undo a decision? | unless a request overlapped its deletion; only one that had read the message before it |
| `user_agents` | Do AIQ and the table agree on which agents there are, and on what they say? | unless a request stopped between the two, crossed another, or an administrator wrote |
| `agent_admin` | Is an agent what the last to write it asked for? Can rows of two requests stand side by side? Are names unique? | yes, unless a helper rolled it back or another had committed since it read; only if one replaced its own without the row's lock; unless one was checked before the other was committed, or a user wrote it |
| `agent_admin_duplicates` | Is it true that duplicates of a tag are not fatal? | *violation*: the rollback undoes the fields the request has just written, and the answer is a success |

Ten more configurations state what a comment, a docstring or a message of the
code says and TLC refutes. They are not runs of `PROJECT.json`; each is
`tlc -config X.cfg M` and ends with a counterexample within half a minute.

| Configuration, module | Property | What the code says, and what happens |
|---|---|---|
| `RateLimitTwoWorkers`, `ChatRateLimit` | `ServiceWideBound` | "Maximum 100 requests per minute" (`routes/chat.py` 7806): each of two workers grants the limit |
| `ChatMessageTracking`, `ChatMessage` | `TrackingNeverBlocks` | "If tracking fails, we log it but don't block the request" (`routes/chat.py` 5384): of two first uses of a month the second's session is unusable |
| `ChatMessageLastUsed`, `ChatMessage` | `LastUsedNeverFails` | "Log error but don't fail the request if last_used update fails" (`routes/chat.py` 6607): two requests with two agents deadlock, and the victim answers 500 |
| `AgentCacheColdStart`, `MCAgentAvailableCache` | `StaleOnlyFromOverlappingFill` | "all existing cache entries unreachable" (`services/agent_available_cache.py` 40): with no version key yet, `SET 1` undoes an increment |
| `AgentCacheManual`, `MCAgentAvailableCache` | `NextRequestIsFresh` | "forces all users to fetch fresh agent data on their next request" (`routes/admin_agents.py` 3492): an overlapping fill stores the old list under the new version |
| `GroupSyncOverlap`, `GroupSync` | `PivotIsLatest` | "always has the latest AD groups" (`services/rbac_pivot_service.py` 39): the login that fetched first commits last |
| `GroupSyncAdmin`, `GroupSync` | `AdminLostIsRemoved` | "if user loses admin groups, is_admin is set to False" (`routes/auth.py` 815): a login with older groups writes it last |
| `ChatSessionRename`, `MCChatSession` | `AgnoNeverOverwritesRename` | "prevent agno_sessions from overwriting" (`routes/chat.py` 1024): a request that read the session before the rename copies AGNO's title after it |
| `MessageFeedbackOne`, `MCMessageFeedback` | `OneReaction` | "User can only select one option at a time" (`routes/chat.py` 5083): two clicks, or the form and a click, leave two |
| `UserAgentsStatus`, `MCUserAgents` | `StatusIsTheOneAskedFor` | "Agent status: DRAFT, ACTIVE, etc." (`routes/azure_ad_obo.py` 3573): whatever status AIQ is given, the row becomes active |

Three configurations check properties of the runs at other bounds, and one a property no
run has; they pass within two minutes, and are not runs of `PROJECT.json` either:

| Configuration, module | Properties | Why |
|---|---|---|
| `AgentAdminTags`, `MCAgentAdmin` | `FreshIsWhole`, `MixedOnlyUnlocked` | two words, so that two categories can stand side by side; no user |
| `AgentAdminNames`, `MCAgentAdmin` | `SameNameOnlyFromOverlap` | three requests that give fields only: a row may keep the name of a second request, committed under a third |
| `AgentAdminUsers`, `MCAgentAdmin` | `FreshIsWhole`, `MixedOnlyUnlocked`, `SameNameOnlyFromOverlap` | two fields, of which overlapping updates leave one each, and two features, of which an administrator's may be one the user gives; no tags |
| `GroupSyncAlone`, `GroupSync` | `AloneIsConsistent` | logins one after the other keep `is_admin` with the row; it is proved, and says nothing of logins that overlap |

### Bounds

- `rate_limit`: limit 2, window 2, clock to 6. The window passes over the log
  three times, so entries are popped one by one and all at once, a call falls on
  the edge of the window, and a refusal follows each kind of pop.
- `chat_message`: two requests, of one user or of two, and two agents, starting
  either before anybody has used the chat (two first uses of a month race, two
  requests both create the Super Agent) or when the Super Agent and the trackers
  are there (two increments of one row race, two agent rows are locked in
  opposite orders). Two months, so that the month ends between any two
  statements. The theorems have the invariants and the refinement for any number
  of requests.
- `agent_cache`: three readers (one to leave an entry, one to fill late, one to be
  served) and two writers, of which one deletes; versions to 3, one more than two
  increments need from 1. `agent_cache_faults` adds lost keys and failed calls
  with two readers. Readers are interchangeable, writers are not.
- `group_sync`: two logins that overlap, over a row left by an earlier one or
  none, and two versions of the groups with the admin group in the first: the
  right is gained and lost. The theorems have the row's properties for any number
  of logins; that three or more are all answered is not checked.
- `chat_session`, `message_feedback`, `message_memory`, `user_agents`: three
  requests of any kind. An overlap takes two; the third is the one that deletes,
  recreates or decides in between, or that finds what the two have left.
  `chat_session` starts with the session or without it, and inserts it by a
  `create` at most once, by `Recreate` as often as it is deleted, and for the first
  time if AGNO has it and the table never had;
  `message_feedback` has a limit of two items, which three requests can exceed;
  `message_memory` has two texts, one to decide about and one that is written
  back unread, and starts before the message was analysed or after, with any of
  its texts saved; `user_agents` has an agent there was and the ones created.
  Requests are interchangeable, and in `message_memory` texts are.
- `user_memory_cache`: two readers and two writers, three changes. Readers are not
  declared interchangeable because the run has a liveness property.
- `agent_admin`: two requests and a user, whose agent they may edit too; two names
  and one word, which may be category, type or both, so that a new tag clashes with
  one there was, with one of the same request, or with another request's; that a
  category is given twice is a choice of `SetCategories`. A request may ask for no tags
  and for fields as they are, and then locks nothing. The run has 1.5 million states;
  what would make it too large is in three configurations of its own, below.
  `agent_admin_duplicates` has two words and no failing statements.
- `CHECK_DEADLOCK FALSE` where requests are handled once and then nothing is left
  to do.

### Fairness

`ChatMessage!FairSpec` assumes weak fairness of `Work(r)` for each request: the
event loop runs each handler whose await has completed, PostgreSQL grants a free
lock, and its deadlock detector runs. It does not assume that a client sends
anything, that a statement fails, that a worker dies or that time passes. Weak
fairness is enough although a lock may be taken by others again and again,
because each of finitely many requests takes it once.
`GroupSync!FairSpec` assumes the same of the steps of a login. A login that waits
for Graph goes on by `Fetch`, `FetchFails` or `FetchRefused`: httpx's default
timeout of 5 seconds ends the wait.
`UserMemoryCache!FairSpec` assumes weak fairness of the readers' steps and of
`Expire`: Redis removes a key whose time to live has passed. It assumes nothing of
the writers, so `ChangesAreSeen` holds although an invalidation is never made.

## 4. Theorems

TLAPS proves these for every value of the constants, under the named assumptions
in the modules (all of them about constants: a limit of at least 1, a reader
that is nobody, disjoint row names). TLC evaluates these assumptions in each run.

- `ChatRateLimitProofs`: `TypeCorrect`, `WindowBoundHolds`,
  `RefusedOnlyWhenFullHolds`. The invariant says that the deque is the end of the
  history of admitted calls, that everything cut off is out of the window, that
  times in the history increase, and that the history is sparse. The last alone
  is not inductive: it is the deque the code looks at, so the deque has to be
  tied to the history.
- `ChatMessageProofs`: `TypeCorrect`, `CountIsMessagesHolds`,
  `LocksAreInUseHolds`, `OkIsCompleteHolds`, `ImplementsLedger`. The invariant
  adds to the four properties that a request that has passed the tracker holds
  its row's lock and carries the committed count plus one. This is why the count
  cannot change under it. The refinement needs no mapping beyond the names: each
  step of the handler is `Store`, `Tell` or a stutter of the ledger, and the
  invariant shows that `Store` raises exactly one count by exactly one.
- `AgentProofs`, about `AgentAvailableCache`: `CacheTypeCorrect`,
  `ServedNeverDeletedHolds` (of `CacheSpec`, under every failure),
  `StaleOnlyFromOverlappingFillHolds` (of `SteadySpec`, from a start with the
  version key). The second invariant ties each entry and each list in hand to the
  increments since: an entry under a version at or above the stamp of a settled
  write reflects it, or was being filled then.
- `AgentProofs`, about `AgentAdmin`: `TypeCorrect`, `FreshIsWholeHolds`,
  `MixedOnlyUnlockedHolds`, `SameNameOnlyFromOverlapHolds`, all of `Spec`, for any
  number of requests, users, names and words, under every failure. Two invariants carry
  them. `NamesSafe` (`NamesAreWritten`, `CheckedBefore`): a name a request is said to
  have written is the one it asked for, and whoever has checked a name and not ended
  is in the history of every row that was given that name since. `PartsSafe` ties an
  open transaction to what is committed. As long as nobody has committed the agent
  since a request read it, the fields it will not write are as it asks (`Unchanged`)
  and its snapshot, and what it has deleted, leave out no row of the parts it replaces
  (`Covered`); so its commit leaves what it has put and nothing else (`Fresh`, and
  `Kept` between the two commits of a create). A request that holds the row sees in
  the same way all that was not stored without the lock, and holds it alone
  (`OneHolder`): from this follows `MixedOnlyUnlocked`.
- `GroupSyncProofs`: `TypeCorrect`, `OldOnlyFromOverlapHolds`,
  `RowNeverVanishesHolds`, `AloneIsConsistentHolds`, all of `Spec`, under every
  failure. The invariant of the first three adds that what a login holds was
  fetched after it began, that a login commits once, and that whoever holds groups
  fetched before another's commit is in the history of that commit: so the next
  commit of the row can be old only if its login is. `AloneIsConsistentHolds` has
  an invariant of its own, `Alone`, about runs in which no login has met another:
  one login is under way at most; from its commit to its check the row holds the
  groups it compares with; what it compares them to is the `is_admin` that is
  stored; and as long as no row waits for its check, and no check was given up,
  `is_admin` is the row's. That one login failed between the two is what lets them
  differ, and the property excludes it (`pivot[r]`, and `pc[r] = "done"`).
- `MemoryProofs`, about `MessageMemory`: `TypeCorrect`, `SavedHasRowHolds`,
  `DecisionLostOnlyByOverlapHolds`, all of `Spec`, for any number of requests and
  texts. Both properties speak of the column; a request writes back what it has
  read. So the invariant speaks of the readings too: each is the column of this
  moment or is in the history of one who wrote since (`ReadIsCurrent`), names no
  row that is gone unless it met the deletion (`ReadHasRows`, `HeldRowsAreThere`),
  and shows the last decision about each text or was met by who took it
  (`DecisionsRead`). That who wrote has ended (`WritersAreDone`) keeps the
  histories from changing afterwards. Two lemmas cover the actions: a step
  that takes no row and decides nothing (`QuietSafe`, to which the look at the column
  and an end without a write reduce), and the end that meets the others and may
  write the column (`EndsSafe`).

- `MessageFeedbackProofs`: `TypeCorrect`, `DuplicateOnlyFromOverlapHolds`,
  `OverLimitOnlyFromOverlapHolds`, `MixedOnlyFromOverlapHolds`,
  `DeletedIsFinalHolds`. The three properties speak of rows that are there; the
  invariant speaks also of requests on their way: whoever has looked and found no
  reaction is in the history of every one inserted since; the rows a request has
  counted that are still there are below the limit until it inserts its own, and
  not only all the rows but any part of them larger than the limit has two that
  overlapped (a deletion leaves a part); what a request has read of a row is what
  is there, or an update has come between. One lemma, `StoreKeepsInv`, is about
  any insertion.
- `MemoryProofs`, about `UserMemoryCache`: `CacheTypeCorrect`,
  `OldOnlyFromOverlappingFillHolds`, `PromiseKeptHolds`, the refinement. The
  arithmetic of the mapping is in lemmas about `Oldest`: it is no more than any copy
  shows, and it does not fall when each copy of the next state is one there was or
  shows every change. Each step then maps to one of `StaleReads` or to a stutter.
- `UserAgentsProofs`: `TypeCorrect`, `ListsAgreeHolds`, `FieldsAgreeHolds`. The
  invariant adds who has created what (an agent is in AIQ since its request was
  served, in the table since it ended), that the fields in AIQ are those of a
  request it has served, and that whoever is between AIQ and the row is in the
  history of all that AIQ has served since: so the last to write the row is AIQ's
  last, or was met by it.

- `ChatSessionProofs`: `TypeCorrect`, `MessagesHaveSessionHolds`,
  `RenameLostOnlyByOverlapHolds`, `MarkLostOnlyByOverlapHolds`, `SaidIsDoneHolds`.
  `Control` ties each step to the kind of request that takes it and says that
  nothing happens before the first row. Three lemmas then reduce the twenty
  actions to what the properties see: `RowStep` (a step leaves the row alone or is
  one of six kinds), `CarriedStep` (what a request works on it has read before, or
  is the row of this moment) and `MovedStep` (how a request comes to have answered
  or logged). The properties speak of the row, and a rename writes what it has
  read: so the invariant speaks also of each reading, which shows the last
  rename's flag (the last mark) or belongs to a request in the history of it.
  `SaidKept` adds that a row that is gone was deleted, and that one that is there
  after a deletion was made anew. The proof needs the readings from before an
  insertion in `metMark`: with four requests a rename that has read a deleted
  session gives its mark to the one made anew, which three requests do not reach.

`AgentProofs` and `MemoryProofs` each extend two modules that share no state: the
agents and the cache of the available ones, a message's memories and the cache of
the user's. This is why the two caches call their next-state relation `CacheNext`,
their program counter `at`, and so on: a module cannot extend two of one name.

TLAPS checks all 38 theorems from nothing, about 6600 obligations. Every invariant
that a run checks is proved.

What is only model-checked: liveness (`EveryRequestAnswered`, `EveryLoginAnswered`,
`ChangesAreSeen`), which needs fairness and `ENABLED`, neither of which the provers
handle; and everything a configuration finds violated.

What the properties do not say: `AloneIsConsistent` is about logins one after the
other; when they overlap, `is_admin` and the row may differ, as `GroupSyncAdmin`
shows. `OldOnlyFromOverlappingFill` is about changes whose key was deleted; that a
change shows although its answer was lost or its `DEL` refused rests on
`ChangesAreSeen` alone. The rows of `agno_memories` have other writers, which
`MessageMemory` leaves out.

## 5. What is not modelled

- After the commit, `send_chat_message` calls the AI service and AGNO, exchanges
  tokens and stores the assistant's answer in sessions of its own. `Reply` and
  `StatementFails` stand for how this can end; its content is not modelled.
- The fields of messages, agents, entries and metrics, and pagination; a list or an
  export that only reads.
- `datetime.utcnow()` stepping back, and a replica or failover of PostgreSQL or
  Redis.
- The rotation of Azure AD refresh tokens, which several handlers do on the way, and
  the exchange of tokens on behalf of the user.
- In `UserAgents`, what AIQ alone keeps of an agent: its documents, prompts and
  knowledge sources. In `AgentAdmin`, legacy tags, drafts, icons and health checks.
- In `ChatSession`, lists, downloads and analytics.
- Code that nothing calls: `services/circuit_breaker.py`,
  `services/health_monitor.py`, `services/webpubsub_listener.py`,
  `update_feedback_comment`, and the rate-limit middleware, which is not added to
  the application; the metrics forwarder is off by default.
- The components listed as `not_modelled` in `PROJECT.json`, each with its reason.

## 6. Plan

In this order; each with its runs, and its invariants proved where they do not
need recursion over data.

1. `UserPreferences`: one JSON column of the user, written back whole by a login, by
   two handlers that also tell AIQ, and by a new photo.
2. `AgentAccess`: the assignment of groups to an agent (the same `DELETE` and
   `INSERT` as `GroupSync`) and the access check that reads both pivot rows,
   composed with `GroupSync`.
3. The chat handler after its commit, composed with `ChatSession` (the answer of a
   session that is deleted meanwhile), and `AgentAvailableCache` composed with the
   writers of the `agents` table in `AgentAdmin` and `UserAgents`.
4. `OBOTokenCache`: Redis and its in-process fallback, two workers, expiry; the
   versioned cache as a second refinement of `StaleReads`.
5. `RateLimitService` and `QuotaService`: check-then-act on counters, sliding
   expiry; the numeric edges as an operator checked over bounded inputs.
6. `Workflow`: dependency order as a recursive function, checked against the
   definition of a topological order; the executor's failures.
7. `Remediation` and `Routing`: guardrails and the choice, and their composition.
8. What has no caller today or is off by default: `CircuitBreaker`, `RunEvents`,
   `HealthMonitor`, `MetricsForwarder`; and `TokenBlacklist`, `AgnoCache`.
