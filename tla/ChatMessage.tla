---------------------------- MODULE ChatMessage ----------------------------
(***************************************************************************)
(* `send_chat_message` (POST /chat/message, routes/chat.py) and the GET of *)
(* the question tracker, as database transactions that interleave.         *)
(*                                                                         *)
(* A request runs one transaction on its own connection: it increments the *)
(* user's monthly question tracker (SELECT ... FOR UPDATE, or an INSERT if *)
(* there is no row yet), stamps `last_used` on one or two agent rows, and  *)
(* commits all of it with the user's message.  What PostgreSQL contributes *)
(* is what the code relies on: READ COMMITTED, a row lock held to the end  *)
(* of the transaction, unique keys that make a second INSERT wait for the  *)
(* first, and a deadlock detector that fails one statement of a cycle.     *)
(*                                                                         *)
(* A failed statement leaves the session unusable until it is rolled back: *)
(* the database has rolled back, every later statement raises.             *)
(***************************************************************************)
EXTENDS Naturals, FiniteSets

CONSTANTS
  Requests,     \* HTTP requests, each handled once
  Users,
  Agents,       \* rows of the agents table, "Super Agent" included
  SuperAgent,   \* the default agent, created on first use
  SeededAgents, \* agent rows there are before the chat is used
  Nobody,       \* no request
  MaxMonth      \* bound: months the run goes through

ASSUME NobodyAssumption == Nobody \notin Requests
ASSUME AgentAssumption  == SuperAgent \in Agents /\ SeededAgents \subseteq Agents
ASSUME MonthAssumption  == MaxMonth \in Nat \ {0}

Months == 1..MaxMonth

Trackers == Users \X Months   \* uq_user_question_tracker_user_month

Rows == Trackers \union Agents

ASSUME RowAssumption == Trackers \intersect Agents = {}

VARIABLES
  month,     \* the current month
  rows,      \* the rows there are in the database (committed)
  count,     \* count[k]: committed question_count of tracker k, 0 without a row
  holder,    \* holder[x]: the request whose open transaction locks or inserts row x
  stored,    \* the requests whose user message is committed
  attached,  \* the requests that came with attachments
  linked,    \* the requests whose attachments are linked to the session
  pc,        \* pc[r]: the next statement of r
  user,      \* user[r]: current_user
  since,     \* since[r]: the month r reads from the clock
  target,    \* target[r]: the agent row r stamps next
  newCount,  \* newCount[r]: question_count of the tracker object r holds
  fault,     \* fault[r]: what r was doing when its first statement failed
  answer     \* answer[r]: the answer r got

database == <<rows, count, holder, stored, linked>>
request  == <<user, since, target, newCount, attached>>
vars == <<month, database, pc, request, fault, answer>>

TrackerOf(r) == <<user[r], since[r]>>

Held(r) == {x \in Rows : holder[x] = r}

LastUsed == {"touch", "touch_session"}

(* Where the transaction of a request is open, by the statement that is next. *)
Statements == {"tracker", "insert", "validate", "resolve", "insert_agent", "touch",
               "session", "touch_session", "store", "peek", "peek_insert", "peek_commit"}

Late == {"link", "reply"}   \* the message is committed

(* Nobody has used the chat yet, or the Super Agent is there and everybody's tracker, at 0. *)
Init ==
  /\ month = 1
  /\ rows \in {SeededAgents, SeededAgents \union {SuperAgent} \union {<<u, 1>> : u \in Users}}
  /\ count = [k \in Trackers |-> 0]
  /\ holder = [x \in Rows |-> Nobody]
  /\ stored = {}
  /\ attached = {}
  /\ linked = {}
  /\ pc = [r \in Requests |-> "idle"]
  /\ user \in [Requests -> Users]
  /\ since = [r \in Requests |-> 1]
  /\ target = [r \in Requests |-> SuperAgent]
  /\ newCount = [r \in Requests |-> 0]
  /\ fault = [r \in Requests |-> "none"]
  /\ answer = [r \in Requests |-> "none"]

Goto(r, from, to) ==
  /\ pc[r] = from
  /\ pc' = [pc EXCEPT ![r] = to]

-----------------------------------------------------------------------------
(* What the database does. *)

(* Row x is free, or already locked by r. *)
Free(x, r) == holder[x] \in {Nobody, r}

Lock(x, r) == holder' = [holder EXCEPT ![x] = r]

(* The end of r's transaction, whichever way it ends. *)
Unlock(r) == holder' = [x \in Rows |-> IF holder[x] = r THEN Nobody ELSE holder[x]]

(***************************************************************************)
(* A statement of r fails: the transaction is rolled back and its locks go *)
(* at once; the exception is caught or not, the session is unusable.       *)
(***************************************************************************)
Fail(r, what) ==
  /\ pc' = [pc EXCEPT ![r] = "failed"]
  /\ fault' = [fault EXCEPT ![r] = what]
  /\ Unlock(r)
  /\ UNCHANGED <<month, rows, count, stored, linked, request, answer>>

(* What a failing statement of r was for. *)
Purpose(r) ==
  CASE pc[r] \in {"tracker", "insert"} -> "tracker"
    [] pc[r] \in LastUsed              -> "last_used"
    [] OTHER                           -> "other"

(* The row the next statement of r has to lock; none if it locks nothing. *)
Wanted(r) ==
  CASE pc[r] = "tracker" -> {TrackerOf(r)} \intersect rows
    [] pc[r] \in {"insert", "peek_insert"} -> {TrackerOf(r)}
    [] pc[r] = "insert_agent" -> {SuperAgent}
    [] pc[r] \in LastUsed -> {target[r]}
    [] OTHER -> {}

WaitsFor(r, s) == r # s /\ \E x \in Wanted(r) : holder[x] = s

(* r is on a cycle of requests that wait for each other. *)
Deadlocked(r) ==
  /\ \E s \in Requests : WaitsFor(r, s)
  /\ \E D \in SUBSET Requests :
       /\ r \in D
       /\ \A a \in D : (\E b \in D : WaitsFor(a, b)) /\ (\E b \in D : WaitsFor(b, a))

(* deadlock_timeout: one statement of the cycle fails. *)
DeadlockVictim(r) ==
  /\ Deadlocked(r)
  /\ Fail(r, Purpose(r))

(* A connection is lost, or a lock was waited for longer than command_timeout. *)
StatementFails(r) ==
  /\ pc[r] \in Statements \union Late
  /\ Fail(r, Purpose(r))

-----------------------------------------------------------------------------
(* increment_question_count *)

ReceiveForNextMonth(r) ==   \* faulty: the month is one too far
  /\ pc[r] = "idle"
  /\ \E first \in {"tracker", "peek"} : pc' = [pc EXCEPT ![r] = first]
  /\ since' = [since EXCEPT ![r] = month + 1]
  /\ UNCHANGED <<month, database, user, target, newCount, attached, fault, answer>>

(* The request passes the rate limit and the length check. *)
Receive(r) ==
  /\ pc[r] = "idle"
  /\ \E first \in {"tracker", "peek"} : pc' = [pc EXCEPT ![r] = first]
  /\ since' = [since EXCEPT ![r] = month]
  /\ UNCHANGED <<month, database, user, target, newCount, attached, fault, answer>>

SelectWithoutLock(r) ==   \* faulty: without with_for_update()
  \/ /\ TrackerOf(r) \in rows
     /\ Goto(r, "tracker", "validate")
     /\ newCount' = [newCount EXCEPT ![r] = count[TrackerOf(r)] + 1]
     /\ UNCHANGED <<month, database, user, since, target, attached, fault, answer>>
  \/ /\ TrackerOf(r) \notin rows
     /\ Goto(r, "tracker", "insert")
     /\ UNCHANGED <<month, database, request, fault, answer>>

(* SELECT ... FOR UPDATE waits for the lock, then reads the committed row. *)
SelectTracker(r) ==
  \/ /\ TrackerOf(r) \in rows
     /\ Free(TrackerOf(r), r)
     /\ Goto(r, "tracker", "validate")
     /\ Lock(TrackerOf(r), r)
     /\ newCount' = [newCount EXCEPT ![r] = count[TrackerOf(r)] + 1]
     /\ UNCHANGED <<month, rows, count, stored, linked, user, since, target, attached, fault, answer>>
  \/ /\ TrackerOf(r) \notin rows
     /\ Goto(r, "tracker", "insert")
     /\ UNCHANGED <<month, database, request, fault, answer>>

(* The unique key: wait for a transaction that is inserting the same row. *)
InsertTracker(r) ==
  /\ pc[r] = "insert"
  /\ Free(TrackerOf(r), r)
  /\ \/ /\ TrackerOf(r) \notin rows
        /\ Goto(r, "insert", "validate")
        /\ Lock(TrackerOf(r), r)
        /\ newCount' = [newCount EXCEPT ![r] = 1]
        /\ UNCHANGED <<month, rows, count, stored, linked, user, since, target, attached, fault, answer>>
     \/ /\ TrackerOf(r) \in rows   \* IntegrityError
        /\ Fail(r, "tracker")

-----------------------------------------------------------------------------
(* send_chat_message, up to the commit of the message *)

(* The attachments exist, belong to the user and are not too large. *)
Validate(r) ==
  /\ Goto(r, "validate", "resolve")
  /\ attached' \in {attached, attached \union {r}}
  /\ UNCHANGED <<month, database, user, since, target, newCount, fault, answer>>

(* An agent that is found, or else the Super Agent that has to be created. *)
Resolve(r) ==
  \/ /\ \E a \in Agents \intersect rows : target' = [target EXCEPT ![r] = a]
     /\ Goto(r, "resolve", "touch")
     /\ UNCHANGED <<month, database, user, since, newCount, attached, fault, answer>>
  \/ /\ SuperAgent \notin rows
     /\ Goto(r, "resolve", "insert_agent")
     /\ UNCHANGED <<month, database, request, fault, answer>>

InsertSuperAgent(r) ==
  /\ pc[r] = "insert_agent"
  /\ Free(SuperAgent, r)
  /\ \/ /\ SuperAgent \notin rows
        /\ Goto(r, "insert_agent", "touch")
        /\ Lock(SuperAgent, r)
        /\ target' = [target EXCEPT ![r] = SuperAgent]
        /\ UNCHANGED <<month, rows, count, stored, linked, user, since, newCount, attached, fault, answer>>
     \/ /\ SuperAgent \in rows   \* IntegrityError on agent_id
        /\ Fail(r, "other")

(* _update_agent_last_used: UPDATE, which waits for the row lock, and flush. *)
Touch(r, from, to) ==
  /\ Goto(r, from, to)
  /\ Free(target[r], r)
  /\ Lock(target[r], r)
  /\ UNCHANGED <<month, rows, count, stored, linked, request, fault, answer>>

TouchAgent(r) == Touch(r, "touch", "session")

TouchSessionAgent(r) == Touch(r, "touch_session", "store")

(* A new session, or an existing one, whose agent may be another row. *)
OpenSession(r) ==
  \/ /\ Goto(r, "session", "store")
     /\ UNCHANGED <<month, database, request, fault, answer>>
  \/ /\ \E a \in Agents \intersect rows : target' = [target EXCEPT ![r] = a]
     /\ Goto(r, "session", "touch_session")
     /\ UNCHANGED <<month, database, user, since, newCount, attached, fault, answer>>

StoreBeforeCounting(r) ==   \* faulty: the message is committed without the tracker
  /\ Goto(r, "store", IF r \in attached THEN "link" ELSE "reply")
  /\ rows' = rows \union Held(r)
  /\ stored' = stored \union {r}
  /\ Unlock(r)
  /\ UNCHANGED <<month, count, linked, request, fault, answer>>

(* The commit: message, increment and every row inserted become visible. *)
Store(r) ==
  /\ Goto(r, "store", IF r \in attached THEN "link" ELSE "reply")
  /\ rows' = rows \union Held(r)
  /\ count' = [count EXCEPT ![TrackerOf(r)] = newCount[r]]
  /\ stored' = stored \union {r}
  /\ Unlock(r)
  /\ UNCHANGED <<month, linked, request, fault, answer>>

RejectKeepsConnection(r) ==   \* faulty: the session is not closed
  /\ pc[r] \in {"validate", "resolve", "session"}
  /\ pc' = [pc EXCEPT ![r] = "done"]
  /\ answer' = [answer EXCEPT ![r] = "client_error"]
  /\ UNCHANGED <<month, database, request, fault>>

(* A HTTPException of a check: the session is closed, which rolls it back. *)
Reject(r) ==
  /\ \/ pc[r] \in {"validate", "resolve", "session"}
     \/ pc[r] = "failed" /\ fault[r] = "tracker"   \* a check that needs no statement
  /\ pc' = [pc EXCEPT ![r] = "done"]
  /\ answer' = [answer EXCEPT ![r] = "client_error"]
  /\ Unlock(r)
  /\ UNCHANGED <<month, rows, count, stored, linked, request, fault>>

-----------------------------------------------------------------------------
(* send_chat_message, after the commit of the message *)

LinkAfterReply(r) ==   \* faulty: the link is left to a later request
  /\ Goto(r, "link", "reply")
  /\ UNCHANGED <<month, database, request, fault, answer>>

(* A transaction of its own links the attachments to the session. *)
Link(r) ==
  /\ Goto(r, "link", "reply")
  /\ linked' = linked \union {r}
  /\ UNCHANGED <<month, rows, count, holder, stored, request, fault, answer>>

Reply(r) ==
  /\ Goto(r, "reply", "done")
  /\ answer' = [answer EXCEPT ![r] = "ok"]
  /\ UNCHANGED <<month, database, request, fault>>

(* The next statement raises: roll back and answer 500 INTERNAL_ERROR. *)
ReplyError(r) ==
  /\ Goto(r, "failed", "done")
  /\ answer' = [answer EXCEPT ![r] = "error"]
  /\ UNCHANGED <<month, database, request, fault>>

-----------------------------------------------------------------------------
(* GET /question-tracker: get_or_create_user_tracker and commit *)

(* Without a row it reads the clock again, for the row to insert. *)
Peek(r) ==
  \/ /\ TrackerOf(r) \in rows
     /\ Goto(r, "peek", "peek_commit")
     /\ UNCHANGED <<month, database, request, fault, answer>>
  \/ /\ TrackerOf(r) \notin rows
     /\ Goto(r, "peek", "peek_insert")
     /\ since' = [since EXCEPT ![r] = month]
     /\ UNCHANGED <<month, database, user, target, newCount, attached, fault, answer>>

PeekInsert(r) ==
  /\ pc[r] = "peek_insert"
  /\ Free(TrackerOf(r), r)
  /\ \/ /\ TrackerOf(r) \notin rows
        /\ Goto(r, "peek_insert", "peek_commit")
        /\ Lock(TrackerOf(r), r)
        /\ UNCHANGED <<month, rows, count, stored, linked, request, fault, answer>>
     \/ /\ TrackerOf(r) \in rows   \* IntegrityError
        /\ Fail(r, "other")

PeekCommit(r) ==
  /\ Goto(r, "peek_commit", "done")
  /\ rows' = rows \union Held(r)   \* a tracker it inserted has question_count 0
  /\ Unlock(r)
  /\ answer' = [answer EXCEPT ![r] = "peeked"]
  /\ UNCHANGED <<month, count, stored, linked, request, fault>>

-----------------------------------------------------------------------------
(* The worker process dies; PostgreSQL rolls back when the connection drops. *)
Crash(r) ==
  /\ pc[r] \in Statements \union Late \union {"failed"}
  /\ pc' = [pc EXCEPT ![r] = "crashed"]
  /\ Unlock(r)
  /\ UNCHANGED <<month, rows, count, stored, linked, request, fault, answer>>

NextMonth ==
  /\ month < MaxMonth
  /\ month' = month + 1
  /\ UNCHANGED <<database, pc, request, fault, answer>>

(* What the server and the database do for r once it is received. *)
Work(r) ==
  \/ SelectTracker(r) \/ InsertTracker(r) \/ Validate(r) \/ Resolve(r)
  \/ InsertSuperAgent(r) \/ TouchAgent(r) \/ OpenSession(r) \/ TouchSessionAgent(r)
  \/ Store(r) \/ Link(r) \/ Reply(r) \/ ReplyError(r) \/ Reject(r)
  \/ Peek(r) \/ PeekInsert(r) \/ PeekCommit(r)
  \/ DeadlockVictim(r)

Next ==
  \/ NextMonth
  \/ \E r \in Requests : Receive(r) \/ Work(r) \/ StatementFails(r) \/ Crash(r)

Spec == Init /\ [][Next]_vars

(* No worker dies and no statement fails but for what the requests do to each other. *)
QuietNext == NextMonth \/ \E r \in Requests : Receive(r) \/ Work(r)

QuietSpec == Init /\ [][QuietNext]_vars

(***************************************************************************)
(* The event loop runs every handler that can go on and the deadlock       *)
(* detector runs; nothing makes a client send or a statement fail.         *)
(***************************************************************************)
FairSpec == Spec /\ \A r \in Requests : WF_vars(Work(r))

-----------------------------------------------------------------------------
TypeOK ==
  /\ month \in Months
  /\ rows \subseteq Rows
  /\ count \in [Trackers -> Nat]
  /\ holder \in [Rows -> Requests \union {Nobody}]
  /\ stored \subseteq Requests
  /\ attached \subseteq Requests
  /\ linked \subseteq Requests
  /\ pc \in [Requests -> Statements \union Late \union {"idle", "failed", "done", "crashed"}]
  /\ user \in [Requests -> Users]
  /\ since \in [Requests -> Months]
  /\ target \in [Requests -> Agents]
  /\ newCount \in [Requests -> Nat]
  /\ fault \in [Requests -> {"none", "tracker", "last_used", "other"}]
  /\ answer \in [Requests -> {"none", "ok", "client_error", "error", "peeked"}]

(* The messages counted by tracker k. *)
MessagesOf(k) == {r \in stored : TrackerOf(r) = k}

(***************************************************************************)
(* question_count of a user and month is the number of messages the user   *)
(* has stored in that month: no increment is lost between concurrent       *)
(* requests, none is counted for a request that was refused, failed or     *)
(* crashed, and creating the row on either path does not reset it.         *)
(***************************************************************************)
CountIsMessages == \A k \in Trackers : count[k] = Cardinality(MessagesOf(k))

(* Only an open transaction holds locks: no way out of the handler leaks one. *)
LocksAreInUse == \A x \in Rows, r \in Requests : holder[x] = r => pc[r] \in Statements

(* A client told "success" has its message stored and all attachments linked. *)
OkIsComplete ==
  \A r \in Requests : answer[r] = "ok" => r \in stored /\ (r \in attached => r \in linked)

(***************************************************************************)
(* Message, count and answer behave as MessageLedger says, for clients     *)
(* that cannot see locks, statements and failed transactions.              *)
(***************************************************************************)
Ledger == INSTANCE MessageLedger

LedgerSpec == Ledger!Spec

(***************************************************************************)
(* Every request gets an answer unless its worker dies, whatever requests  *)
(* wait for each other's rows, deadlocks included.                         *)
(***************************************************************************)
EveryRequestAnswered ==
  \A r \in Requests :
    pc[r] \in Statements ~> (answer[r] # "none" \/ pc[r] = "crashed")

(***************************************************************************)
(* chat.py:5384, "If tracking fails, we log it but don't block the         *)
(* request": a request whose tracker statement failed is not answered with *)
(* the internal error.                                                     *)
(***************************************************************************)
TrackingNeverBlocks ==
  \A r \in Requests : fault[r] = "tracker" => answer[r] # "error"

(***************************************************************************)
(* chat.py:6607, "don't fail the request if last_used update fails".       *)
(***************************************************************************)
LastUsedNeverFails ==
  \A r \in Requests : fault[r] = "last_used" => answer[r] # "error"
=============================================================================
