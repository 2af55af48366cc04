------------------------- MODULE ChatMessageProofs -------------------------
(***************************************************************************)
(* Theorems about ChatMessage, for any requests, users, agents and months. *)
(***************************************************************************)
EXTENDS ChatMessage, FiniteSetTheorems, TLAPS

LEMMA RowsContainKeys ==
  /\ Trackers \subseteq Rows
  /\ Agents \subseteq Rows
  /\ SuperAgent \in Agents
  /\ SeededAgents \subseteq Agents
  BY AgentAssumption DEF Rows

LEMMA InitType == Init => TypeOK
  BY RowsContainKeys, MonthAssumption, NobodyAssumption
  DEF Init, TypeOK, Months, Trackers

LEMMA TrackerIsRow ==
  ASSUME TypeOK, NEW r \in Requests
  PROVE  TrackerOf(r) \in Trackers /\ TrackerOf(r) \in Rows
  BY DEF TypeOK, TrackerOf, Trackers, Rows

LEMMA TypeStep == TypeOK /\ [Next]_vars => TypeOK'
  <1> SUFFICES ASSUME TypeOK, [Next]_vars PROVE TypeOK'
    OBVIOUS
  <1> USE RowsContainKeys, TrackerIsRow, NobodyAssumption DEF TypeOK, Statements, Late
  <1>1. ASSUME NEW r \in Requests, Receive(r) PROVE TypeOK'
    BY <1>1 DEF Receive, database
  <1>2. ASSUME NEW r \in Requests, SelectTracker(r) PROVE TypeOK'
    BY <1>2 DEF SelectTracker, Goto, Lock, database, request
  <1>3. ASSUME NEW r \in Requests, InsertTracker(r) PROVE TypeOK'
    BY <1>3 DEF InsertTracker, Goto, Lock, Fail, Purpose, Unlock, request
  <1>4. ASSUME NEW r \in Requests, Validate(r) PROVE TypeOK'
    BY <1>4 DEF Validate, Goto, database
  <1>5. ASSUME NEW r \in Requests, Resolve(r) PROVE TypeOK'
    BY <1>5 DEF Resolve, Goto, database, request
  <1>6. ASSUME NEW r \in Requests, InsertSuperAgent(r) PROVE TypeOK'
    BY <1>6 DEF InsertSuperAgent, Goto, Lock, Fail, Purpose, Unlock, request
  <1>7. ASSUME NEW r \in Requests, TouchAgent(r) PROVE TypeOK'
    BY <1>7 DEF TouchAgent, Touch, Goto, Lock, request
  <1>8. ASSUME NEW r \in Requests, OpenSession(r) PROVE TypeOK'
    BY <1>8 DEF OpenSession, Goto, database, request
  <1>9. ASSUME NEW r \in Requests, TouchSessionAgent(r) PROVE TypeOK'
    BY <1>9 DEF TouchSessionAgent, Touch, Goto, Lock, request
  <1>10. ASSUME NEW r \in Requests, Store(r) PROVE TypeOK'
    BY <1>10 DEF Store, Goto, Held, Unlock, request
  <1>11. ASSUME NEW r \in Requests, Link(r) PROVE TypeOK'
    BY <1>11 DEF Link, Goto, request
  <1>12. ASSUME NEW r \in Requests, Reply(r) PROVE TypeOK'
    BY <1>12 DEF Reply, Goto, database, request
  <1>13. ASSUME NEW r \in Requests, ReplyError(r) PROVE TypeOK'
    BY <1>13 DEF ReplyError, Goto, database, request
  <1>14. ASSUME NEW r \in Requests, Reject(r) PROVE TypeOK'
    BY <1>14 DEF Reject, Unlock, request
  <1>15. ASSUME NEW r \in Requests, Peek(r) PROVE TypeOK'
    BY <1>15 DEF Peek, Goto, database, request
  <1>16. ASSUME NEW r \in Requests, PeekInsert(r) PROVE TypeOK'
    BY <1>16 DEF PeekInsert, Goto, Lock, Fail, Purpose, Unlock, request
  <1>17. ASSUME NEW r \in Requests, PeekCommit(r) PROVE TypeOK'
    BY <1>17 DEF PeekCommit, Goto, Held, Unlock, request
  <1>18. ASSUME NEW r \in Requests, DeadlockVictim(r) PROVE TypeOK'
    BY <1>18 DEF DeadlockVictim, Fail, Purpose, Unlock, request
  <1>19. ASSUME NEW r \in Requests, StatementFails(r) PROVE TypeOK'
    BY <1>19 DEF StatementFails, Fail, Purpose, Unlock, request
  <1>20. ASSUME NEW r \in Requests, Crash(r) PROVE TypeOK'
    BY <1>20 DEF Crash, Unlock, request
  <1>21. CASE NextMonth
    BY <1>21, MonthAssumption DEF NextMonth, Months, database, request
  <1>22. CASE UNCHANGED vars
    BY <1>22 DEF vars, database, request
  <1>23. QED
    BY <1>1, <1>2, <1>3, <1>4, <1>5, <1>6, <1>7, <1>8, <1>9, <1>10, <1>11, <1>12, <1>13, <1>14, <1>15, <1>16, <1>17, <1>18, <1>19, <1>20, <1>21, <1>22 DEF Next, Work

-----------------------------------------------------------------------------
(* The requests that have incremented their tracker and not yet committed. *)
Counting == {"validate", "resolve", "insert_agent", "touch", "session", "touch_session", "store"}

(* Those hold the row, so that the count cannot move under them. *)
CountHeld ==
  \A r \in Requests : pc[r] \in Counting =>
    holder[TrackerOf(r)] = r /\ newCount[r] = count[TrackerOf(r)] + 1

(* A request whose message is committed has nothing left to store. *)
StoredIsOver ==
  \A r \in stored : /\ pc[r] \in Late \union {"failed", "done", "crashed"}
                    /\ pc[r] = "failed" => fault[r] # "tracker"

(* A tracker that is not there counts nothing. *)
NoRowNoCount == \A k \in Trackers \ rows : count[k] = 0

(* A message that is stored is counted under a tracker that no longer changes. *)
Counts == IsFiniteSet(stored) /\ CountIsMessages

CountInv == CountHeld /\ StoredIsOver /\ NoRowNoCount

(* A failing statement that stored nothing, or that had stored already. *)
LEMMA FailKeepsCount ==
  ASSUME TypeOK, CountInv, NEW r \in Requests, NEW what \in {"tracker", "last_used", "other"},
         pc[r] \in Statements \union Late, pc[r] \in Late => what # "tracker", Fail(r, what)
  PROVE  CountInv'
  <1> USE DEF CountInv, TypeOK
  <1>1. CountHeld'
    BY TrackerIsRow, NobodyAssumption DEF CountHeld, Counting, Fail, Unlock, request, TrackerOf
  <1>2. StoredIsOver'
    BY DEF StoredIsOver, Statements, Late, Fail, request
  <1>3. NoRowNoCount'
    BY DEF NoRowNoCount, Fail
  <1>4. QED
    BY <1>1, <1>2, <1>3

LEMMA PurposeOfStatement ==
  ASSUME TypeOK, NEW r \in Requests
  PROVE  /\ Purpose(r) \in {"tracker", "last_used", "other"}
         /\ pc[r] \in Late => Purpose(r) # "tracker"
  BY DEF Purpose, Late, LastUsed

(* Only a request whose transaction is open waits for a row. *)
LEMMA VictimIsAtStatement ==
  ASSUME TypeOK, NEW r \in Requests, Deadlocked(r)
  PROVE  pc[r] \in Statements
  <1>1. \E s \in Requests : WaitsFor(r, s)
    BY DEF Deadlocked
  <1>2. Wanted(r) # {}
    BY <1>1 DEF WaitsFor
  <1>3. QED
    BY <1>2 DEF Wanted, Statements, LastUsed

LEMMA FailureKeepsCount ==
  ASSUME TypeOK, CountInv, NEW r \in Requests, DeadlockVictim(r) \/ StatementFails(r)
  PROVE  CountInv'
  <1>1. Fail(r, Purpose(r))
    BY DEF DeadlockVictim, StatementFails
  <1>2. pc[r] \in Statements \union Late
    BY VictimIsAtStatement DEF DeadlockVictim, StatementFails
  <1>3. QED
    BY <1>1, <1>2, FailKeepsCount, PurposeOfStatement

LEMMA CountStep == TypeOK /\ CountInv /\ [Next]_vars => CountInv'
  <1> SUFFICES ASSUME TypeOK, CountInv, [Next]_vars PROVE CountInv'
    OBVIOUS
  <1>0. \A r \in Requests : DeadlockVictim(r) \/ StatementFails(r) => CountInv'
    BY FailureKeepsCount
  <1> USE RowsContainKeys, TrackerIsRow, NobodyAssumption
      DEF TypeOK, Statements, Late, Counting, CountInv, CountHeld, StoredIsOver, NoRowNoCount, TrackerOf
  <1>1. ASSUME NEW r \in Requests, Receive(r) PROVE CountInv'
    BY <1>1 DEF Receive, database
  <1>2. ASSUME NEW r \in Requests, SelectTracker(r) PROVE CountInv'
    <2>1. CASE TrackerOf(r) \notin rows
      BY <1>2, <2>1 DEF SelectTracker, Goto, database, request
    <2>2. CASE TrackerOf(r) \in rows
      <3>1. /\ UNCHANGED <<rows, count, stored, user, since, fault>>
            /\ Goto(r, "tracker", "validate")
            /\ Lock(TrackerOf(r), r)
            /\ holder[TrackerOf(r)] \in {Nobody, r}
            /\ newCount' = [newCount EXCEPT ![r] = count[TrackerOf(r)] + 1]
        BY <1>2, <2>2 DEF SelectTracker, Free
      <3>2. CountHeld'
        <4> SUFFICES ASSUME NEW s \in Requests, pc'[s] \in Counting
                     PROVE  /\ holder'[TrackerOf(s)] = s
                            /\ newCount'[s] = count[TrackerOf(s)] + 1
          BY <3>1
        <4>1. CASE s = r
          BY <3>1, <4>1 DEF Lock
        <4>2. CASE s # r
          BY <3>1, <4>2 DEF Goto, Lock
        <4>3. QED
          BY <4>1, <4>2
      <3>3. StoredIsOver'
        BY <3>1 DEF Goto
      <3>4. NoRowNoCount'
        BY <3>1
      <3>5. QED
        BY <3>2, <3>3, <3>4
    <2>3. QED
      BY <2>1, <2>2
  <1>3. ASSUME NEW r \in Requests, InsertTracker(r) PROVE CountInv'
    <2>1. CASE TrackerOf(r) \notin rows
      BY <1>3, <2>1 DEF InsertTracker, Goto, Lock, Free
    <2>2. CASE TrackerOf(r) \in rows
      BY <1>3, <2>2, FailKeepsCount DEF InsertTracker
    <2>3. QED
      BY <2>1, <2>2
  <1>4. ASSUME NEW r \in Requests, Validate(r) PROVE CountInv'
    BY <1>4 DEF Validate, Goto, database
  <1>5. ASSUME NEW r \in Requests, Resolve(r) PROVE CountInv'
    BY <1>5 DEF Resolve, Goto, database, request
  <1>6. ASSUME NEW r \in Requests, InsertSuperAgent(r) PROVE CountInv'
    BY <1>6 DEF InsertSuperAgent, Goto, Lock, Free, Fail, Purpose, Unlock, request, LastUsed
  <1>7. ASSUME NEW r \in Requests, TouchAgent(r) PROVE CountInv'
    BY <1>7 DEF TouchAgent, Touch, Goto, Lock, Free, request
  <1>8. ASSUME NEW r \in Requests, OpenSession(r) PROVE CountInv'
    BY <1>8 DEF OpenSession, Goto, database, request
  <1>9. ASSUME NEW r \in Requests, TouchSessionAgent(r) PROVE CountInv'
    BY <1>9 DEF TouchSessionAgent, Touch, Goto, Lock, Free, request
  <1>10. ASSUME NEW r \in Requests, Store(r) PROVE CountInv'
    BY <1>10 DEF Store, Goto, Held, Unlock, request
  <1>11. ASSUME NEW r \in Requests, Link(r) PROVE CountInv'
    BY <1>11 DEF Link, Goto, request
  <1>12. ASSUME NEW r \in Requests, Reply(r) PROVE CountInv'
    BY <1>12 DEF Reply, Goto, database, request
  <1>13. ASSUME NEW r \in Requests, ReplyError(r) PROVE CountInv'
    BY <1>13 DEF ReplyError, Goto, database, request
  <1>14. ASSUME NEW r \in Requests, Reject(r) PROVE CountInv'
    BY <1>14 DEF Reject, Unlock, request
  <1>15. ASSUME NEW r \in Requests, Peek(r) PROVE CountInv'
    BY <1>15 DEF Peek, Goto, database, request
  <1>16. ASSUME NEW r \in Requests, PeekInsert(r) PROVE CountInv'
    BY <1>16 DEF PeekInsert, Goto, Lock, Free, Fail, Purpose, Unlock, request, LastUsed
  <1>17. ASSUME NEW r \in Requests, PeekCommit(r) PROVE CountInv'
    BY <1>17 DEF PeekCommit, Goto, Held, Unlock, request
  <1>18. ASSUME NEW r \in Requests, DeadlockVictim(r) PROVE CountInv'
    BY <1>0, <1>18
  <1>19. ASSUME NEW r \in Requests, StatementFails(r) PROVE CountInv'
    BY <1>0, <1>19
  <1>20. ASSUME NEW r \in Requests, Crash(r) PROVE CountInv'
    BY <1>20 DEF Crash, Unlock, request
  <1>21. CASE NextMonth
    BY <1>21 DEF NextMonth, database, request
  <1>22. CASE UNCHANGED vars
    BY <1>22 DEF vars, database, request
  <1>23. QED
    BY <1>1, <1>2, <1>3, <1>4, <1>5, <1>6, <1>7, <1>8, <1>9, <1>10, <1>11, <1>12, <1>13, <1>14, <1>15, <1>16, <1>17, <1>18, <1>19, <1>20, <1>21, <1>22 DEF Next, Work

(* Nothing but the commit of a message touches a count or a counted message. *)
CountFrame ==
  /\ count' = count
  /\ stored' = stored
  /\ \A q \in stored : TrackerOf(q)' = TrackerOf(q)

Commits == \E r \in Requests : Store(r)

LEMMA OnlyStoreCounts == TypeOK /\ CountInv /\ [Next]_vars => Commits \/ CountFrame
  <1> SUFFICES ASSUME TypeOK, CountInv, [Next]_vars PROVE Commits \/ CountFrame
    OBVIOUS
  <1> USE DEF TypeOK, CountInv, StoredIsOver, Late, TrackerOf, Commits, CountFrame
  <1>1. ASSUME NEW r \in Requests, Receive(r) PROVE Commits \/ CountFrame
    BY <1>1 DEF Receive, database
  <1>2. ASSUME NEW r \in Requests, SelectTracker(r) PROVE Commits \/ CountFrame
    BY <1>2 DEF SelectTracker, Goto, Lock, database, request
  <1>3. ASSUME NEW r \in Requests, InsertTracker(r) PROVE Commits \/ CountFrame
    BY <1>3 DEF InsertTracker, Goto, Lock, Fail, Unlock, request
  <1>4. ASSUME NEW r \in Requests, Validate(r) PROVE Commits \/ CountFrame
    BY <1>4 DEF Validate, Goto, database
  <1>5. ASSUME NEW r \in Requests, Resolve(r) PROVE Commits \/ CountFrame
    BY <1>5 DEF Resolve, Goto, database, request
  <1>6. ASSUME NEW r \in Requests, InsertSuperAgent(r) PROVE Commits \/ CountFrame
    BY <1>6 DEF InsertSuperAgent, Goto, Lock, Fail, Unlock, request
  <1>7. ASSUME NEW r \in Requests, TouchAgent(r) PROVE Commits \/ CountFrame
    BY <1>7 DEF TouchAgent, Touch, Goto, Lock, request
  <1>8. ASSUME NEW r \in Requests, OpenSession(r) PROVE Commits \/ CountFrame
    BY <1>8 DEF OpenSession, Goto, database, request
  <1>9. ASSUME NEW r \in Requests, TouchSessionAgent(r) PROVE Commits \/ CountFrame
    BY <1>9 DEF TouchSessionAgent, Touch, Goto, Lock, request
  <1>10. ASSUME NEW r \in Requests, Store(r) PROVE Commits \/ CountFrame
    BY <1>10 DEF Store, Store
  <1>11. ASSUME NEW r \in Requests, Link(r) PROVE Commits \/ CountFrame
    BY <1>11 DEF Link, Goto, request
  <1>12. ASSUME NEW r \in Requests, Reply(r) PROVE Commits \/ CountFrame
    BY <1>12 DEF Reply, Goto, database, request
  <1>13. ASSUME NEW r \in Requests, ReplyError(r) PROVE Commits \/ CountFrame
    BY <1>13 DEF ReplyError, Goto, database, request
  <1>14. ASSUME NEW r \in Requests, Reject(r) PROVE Commits \/ CountFrame
    BY <1>14 DEF Reject, Unlock, request
  <1>15. ASSUME NEW r \in Requests, Peek(r) PROVE Commits \/ CountFrame
    BY <1>15 DEF Peek, Goto, database, request
  <1>16. ASSUME NEW r \in Requests, PeekInsert(r) PROVE Commits \/ CountFrame
    BY <1>16 DEF PeekInsert, Goto, Lock, Fail, Unlock, request
  <1>17. ASSUME NEW r \in Requests, PeekCommit(r) PROVE Commits \/ CountFrame
    BY <1>17 DEF PeekCommit, Goto, Held, Unlock, request
  <1>18. ASSUME NEW r \in Requests, DeadlockVictim(r) PROVE Commits \/ CountFrame
    BY <1>18 DEF DeadlockVictim, Fail, Unlock, request
  <1>19. ASSUME NEW r \in Requests, StatementFails(r) PROVE Commits \/ CountFrame
    BY <1>19 DEF StatementFails, Fail, Unlock, request
  <1>20. ASSUME NEW r \in Requests, Crash(r) PROVE Commits \/ CountFrame
    BY <1>20 DEF Crash, Unlock, request
  <1>21. CASE NextMonth
    BY <1>21 DEF NextMonth, database, request
  <1>22. CASE UNCHANGED vars
    BY <1>22 DEF vars, database, request
  <1>23. QED
    BY <1>1, <1>2, <1>3, <1>4, <1>5, <1>6, <1>7, <1>8, <1>9, <1>10, <1>11, <1>12, <1>13, <1>14, <1>15, <1>16, <1>17, <1>18, <1>19, <1>20, <1>21, <1>22 DEF Next, Work

LEMMA CountsStep == TypeOK /\ CountInv /\ Counts /\ [Next]_vars => Counts'
  <1> SUFFICES ASSUME TypeOK, CountInv, Counts, [Next]_vars PROVE Counts'
    OBVIOUS
  <1>1. CASE CountFrame
    <2>1. \A k \in Trackers : MessagesOf(k)' = MessagesOf(k)
      BY <1>1 DEF CountFrame, MessagesOf
    <2>2. QED
      BY <1>1, <2>1 DEF CountFrame, Counts, CountIsMessages
  <1>2. CASE Commits
    <2>1. PICK r \in Requests : Store(r)
      BY <1>2 DEF Commits
    <2>2. /\ r \notin stored
          /\ stored' = stored \union {r}
          /\ count' = [count EXCEPT ![TrackerOf(r)] = count[TrackerOf(r)] + 1]
          /\ \A q \in stored' : TrackerOf(q)' = TrackerOf(q)
      BY <2>1 DEF Store, Goto, request, CountInv, CountHeld, StoredIsOver, Counting, Late, TrackerOf
    <2>3. ASSUME NEW k \in Trackers PROVE count'[k] = Cardinality(MessagesOf(k)')
      <3>1. MessagesOf(k)' = IF k = TrackerOf(r) THEN MessagesOf(k) \union {r} ELSE MessagesOf(k)
        BY <2>2 DEF MessagesOf
      <3>2. r \notin MessagesOf(k)
        BY <2>2 DEF MessagesOf
      <3>3. IsFiniteSet(MessagesOf(k))
        BY FS_Subset DEF Counts, MessagesOf
      <3>4. count[k] = Cardinality(MessagesOf(k)) /\ count[k] \in Nat
        BY DEF Counts, CountIsMessages, TypeOK
      <3>5. count'[k] = IF k = TrackerOf(r) THEN count[k] + 1 ELSE count[k]
        BY <2>2 DEF TypeOK
      <3>6. Cardinality(MessagesOf(k) \union {r}) = Cardinality(MessagesOf(k)) + 1
        BY <3>2, <3>3, FS_AddElement
      <3>7. QED
        BY <3>1, <3>4, <3>5, <3>6
    <2>4. IsFiniteSet(stored')
      BY <2>2, FS_AddElement DEF Counts
    <2>5. QED
      BY <2>3, <2>4 DEF Counts, CountIsMessages
  <1>3. QED
    BY <1>1, <1>2, OnlyStoreCounts

-----------------------------------------------------------------------------
LEMMA LocksStep == TypeOK /\ LocksAreInUse /\ [Next]_vars => LocksAreInUse'
  <1> SUFFICES ASSUME TypeOK, LocksAreInUse, [Next]_vars PROVE LocksAreInUse'
    OBVIOUS
  <1> USE RowsContainKeys, TrackerIsRow, NobodyAssumption
      DEF TypeOK, LocksAreInUse, Statements, Late
  <1>1. ASSUME NEW r \in Requests, Receive(r) PROVE LocksAreInUse'
    BY <1>1 DEF Receive, database
  <1>2. ASSUME NEW r \in Requests, SelectTracker(r) PROVE LocksAreInUse'
    BY <1>2 DEF SelectTracker, Goto, Lock, database, request
  <1>3. ASSUME NEW r \in Requests, InsertTracker(r) PROVE LocksAreInUse'
    BY <1>3 DEF InsertTracker, Goto, Lock, Fail, Unlock, request
  <1>4. ASSUME NEW r \in Requests, Validate(r) PROVE LocksAreInUse'
    BY <1>4 DEF Validate, Goto, database
  <1>5. ASSUME NEW r \in Requests, Resolve(r) PROVE LocksAreInUse'
    BY <1>5 DEF Resolve, Goto, database, request
  <1>6. ASSUME NEW r \in Requests, InsertSuperAgent(r) PROVE LocksAreInUse'
    BY <1>6 DEF InsertSuperAgent, Goto, Lock, Fail, Unlock, request
  <1>7. ASSUME NEW r \in Requests, TouchAgent(r) PROVE LocksAreInUse'
    BY <1>7 DEF TouchAgent, Touch, Goto, Lock, request
  <1>8. ASSUME NEW r \in Requests, OpenSession(r) PROVE LocksAreInUse'
    BY <1>8 DEF OpenSession, Goto, database, request
  <1>9. ASSUME NEW r \in Requests, TouchSessionAgent(r) PROVE LocksAreInUse'
    BY <1>9 DEF TouchSessionAgent, Touch, Goto, Lock, request
  <1>10. ASSUME NEW r \in Requests, Store(r) PROVE LocksAreInUse'
    BY <1>10 DEF Store, Goto, Held, Unlock, request
  <1>11. ASSUME NEW r \in Requests, Link(r) PROVE LocksAreInUse'
    BY <1>11 DEF Link, Goto, request
  <1>12. ASSUME NEW r \in Requests, Reply(r) PROVE LocksAreInUse'
    BY <1>12 DEF Reply, Goto, database, request
  <1>13. ASSUME NEW r \in Requests, ReplyError(r) PROVE LocksAreInUse'
    BY <1>13 DEF ReplyError, Goto, database, request
  <1>14. ASSUME NEW r \in Requests, Reject(r) PROVE LocksAreInUse'
    BY <1>14 DEF Reject, Unlock, request
  <1>15. ASSUME NEW r \in Requests, Peek(r) PROVE LocksAreInUse'
    BY <1>15 DEF Peek, Goto, database, request
  <1>16. ASSUME NEW r \in Requests, PeekInsert(r) PROVE LocksAreInUse'
    BY <1>16 DEF PeekInsert, Goto, Lock, Fail, Unlock, request
  <1>17. ASSUME NEW r \in Requests, PeekCommit(r) PROVE LocksAreInUse'
    BY <1>17 DEF PeekCommit, Goto, Held, Unlock, request
  <1>18. ASSUME NEW r \in Requests, DeadlockVictim(r) PROVE LocksAreInUse'
    BY <1>18 DEF DeadlockVictim, Fail, Unlock, request
  <1>19. ASSUME NEW r \in Requests, StatementFails(r) PROVE LocksAreInUse'
    BY <1>19 DEF StatementFails, Fail, Unlock, request
  <1>20. ASSUME NEW r \in Requests, Crash(r) PROVE LocksAreInUse'
    BY <1>20 DEF Crash, Unlock, request
  <1>21. CASE NextMonth
    BY <1>21 DEF NextMonth, database, request
  <1>22. CASE UNCHANGED vars
    BY <1>22 DEF vars, database, request
  <1>23. QED
    BY <1>1, <1>2, <1>3, <1>4, <1>5, <1>6, <1>7, <1>8, <1>9, <1>10, <1>11, <1>12, <1>13, <1>14, <1>15, <1>16, <1>17, <1>18, <1>19, <1>20, <1>21, <1>22 DEF Next, Work

-----------------------------------------------------------------------------
(* What a request past its commit has stored, and what it may answer. *)
AnswerInv ==
  \A r \in Requests :
    /\ pc[r] # "done" => answer[r] = "none"
    /\ pc[r] \in Late => r \in stored
    /\ pc[r] = "reply" => (r \in attached => r \in linked)

LEMMA AnswerStep == TypeOK /\ AnswerInv /\ OkIsComplete /\ [Next]_vars => (AnswerInv /\ OkIsComplete)'
  <1> SUFFICES ASSUME TypeOK, AnswerInv, OkIsComplete, [Next]_vars PROVE (AnswerInv /\ OkIsComplete)'
    OBVIOUS
  <1>0. \A r \in Requests : Deadlocked(r) => pc[r] \in Statements
    BY VictimIsAtStatement
  <1> USE DEF TypeOK, AnswerInv, OkIsComplete, Late, Statements
  <1>1. ASSUME NEW r \in Requests, Receive(r) PROVE (AnswerInv /\ OkIsComplete)'
    BY <1>1 DEF Receive, database
  <1>2. ASSUME NEW r \in Requests, SelectTracker(r) PROVE (AnswerInv /\ OkIsComplete)'
    BY <1>2 DEF SelectTracker, Goto, Lock, database, request
  <1>3. ASSUME NEW r \in Requests, InsertTracker(r) PROVE (AnswerInv /\ OkIsComplete)'
    BY <1>3 DEF InsertTracker, Goto, Lock, Fail, Unlock, request
  <1>4. ASSUME NEW r \in Requests, Validate(r) PROVE (AnswerInv /\ OkIsComplete)'
    BY <1>4 DEF Validate, Goto, database
  <1>5. ASSUME NEW r \in Requests, Resolve(r) PROVE (AnswerInv /\ OkIsComplete)'
    BY <1>5 DEF Resolve, Goto, database, request
  <1>6. ASSUME NEW r \in Requests, InsertSuperAgent(r) PROVE (AnswerInv /\ OkIsComplete)'
    BY <1>6 DEF InsertSuperAgent, Goto, Lock, Fail, Unlock, request
  <1>7. ASSUME NEW r \in Requests, TouchAgent(r) PROVE (AnswerInv /\ OkIsComplete)'
    BY <1>7 DEF TouchAgent, Touch, Goto, Lock, request
  <1>8. ASSUME NEW r \in Requests, OpenSession(r) PROVE (AnswerInv /\ OkIsComplete)'
    BY <1>8 DEF OpenSession, Goto, database, request
  <1>9. ASSUME NEW r \in Requests, TouchSessionAgent(r) PROVE (AnswerInv /\ OkIsComplete)'
    BY <1>9 DEF TouchSessionAgent, Touch, Goto, Lock, request
  <1>10. ASSUME NEW r \in Requests, Store(r) PROVE (AnswerInv /\ OkIsComplete)'
    BY <1>10 DEF Store, Goto, Held, Unlock, request
  <1>11. ASSUME NEW r \in Requests, Link(r) PROVE (AnswerInv /\ OkIsComplete)'
    BY <1>11 DEF Link, Goto, request
  <1>12. ASSUME NEW r \in Requests, Reply(r) PROVE (AnswerInv /\ OkIsComplete)'
    BY <1>12 DEF Reply, Goto, database, request
  <1>13. ASSUME NEW r \in Requests, ReplyError(r) PROVE (AnswerInv /\ OkIsComplete)'
    BY <1>13 DEF ReplyError, Goto, database, request
  <1>14. ASSUME NEW r \in Requests, Reject(r) PROVE (AnswerInv /\ OkIsComplete)'
    BY <1>14 DEF Reject, Unlock, request
  <1>15. ASSUME NEW r \in Requests, Peek(r) PROVE (AnswerInv /\ OkIsComplete)'
    BY <1>15 DEF Peek, Goto, database, request
  <1>16. ASSUME NEW r \in Requests, PeekInsert(r) PROVE (AnswerInv /\ OkIsComplete)'
    BY <1>16 DEF PeekInsert, Goto, Lock, Fail, Unlock, request
  <1>17. ASSUME NEW r \in Requests, PeekCommit(r) PROVE (AnswerInv /\ OkIsComplete)'
    BY <1>17 DEF PeekCommit, Goto, Held, Unlock, request
  <1>18. ASSUME NEW r \in Requests, DeadlockVictim(r) PROVE (AnswerInv /\ OkIsComplete)'
    BY <1>0, <1>18 DEF DeadlockVictim, Fail, Unlock, request
  <1>19. ASSUME NEW r \in Requests, StatementFails(r) PROVE (AnswerInv /\ OkIsComplete)'
    BY <1>19 DEF StatementFails, Fail, Unlock, request
  <1>20. ASSUME NEW r \in Requests, Crash(r) PROVE (AnswerInv /\ OkIsComplete)'
    BY <1>20 DEF Crash, Unlock, request
  <1>21. CASE NextMonth
    BY <1>21 DEF NextMonth, database, request
  <1>22. CASE UNCHANGED vars
    BY <1>22 DEF vars, database, request
  <1>23. QED
    BY <1>1, <1>2, <1>3, <1>4, <1>5, <1>6, <1>7, <1>8, <1>9, <1>10, <1>11, <1>12, <1>13, <1>14, <1>15, <1>16, <1>17, <1>18, <1>19, <1>20, <1>21, <1>22 DEF Next, Work

-----------------------------------------------------------------------------
Inv ==
  /\ TypeOK
  /\ CountInv
  /\ Counts
  /\ LocksAreInUse
  /\ AnswerInv
  /\ OkIsComplete

LEMMA InitInv == Init => Inv
  <1> SUFFICES ASSUME Init PROVE Inv
    OBVIOUS
  <1>1. TypeOK
    BY InitType
  <1>2. CountInv
    BY DEF Init, CountInv, CountHeld, StoredIsOver, NoRowNoCount, Counting
  <1>3. Counts
    <2>1. \A k \in Trackers : MessagesOf(k) = {}
      BY DEF Init, MessagesOf
    <2>2. QED
      BY <2>1, FS_EmptySet DEF Init, Counts, CountIsMessages
  <1>4. LocksAreInUse
    BY NobodyAssumption DEF Init, LocksAreInUse
  <1>5. AnswerInv /\ OkIsComplete
    BY DEF Init, AnswerInv, OkIsComplete, Late
  <1>6. QED
    BY <1>1, <1>2, <1>3, <1>4, <1>5 DEF Inv

LEMMA NextInv == Inv /\ [Next]_vars => Inv'
  BY TypeStep, CountStep, CountsStep, LocksStep, AnswerStep DEF Inv

LEMMA Invariance == Spec => []Inv
  BY InitInv, NextInv, PTL DEF Spec

(* Every variable has its type, whatever interleaving, failure or crash. *)
THEOREM TypeCorrect == Spec => []TypeOK
  <1>1. Inv => TypeOK
    BY DEF Inv
  <1>2. QED
    BY <1>1, Invariance, PTL

(***************************************************************************)
(* question_count is the number of messages the user has stored in the     *)
(* month, for any number of requests, users and agents: the row lock held  *)
(* from SELECT ... FOR UPDATE to COMMIT is what CountHeld says of it.      *)
(***************************************************************************)
THEOREM CountIsMessagesHolds == Spec => []CountIsMessages
  <1>1. Inv => CountIsMessages
    BY DEF Inv, Counts
  <1>2. QED
    BY <1>1, Invariance, PTL

(* A request that is over, one way or the other, holds no row lock. *)
THEOREM LocksAreInUseHolds == Spec => []LocksAreInUse
  <1>1. Inv => LocksAreInUse
    BY DEF Inv
  <1>2. QED
    BY <1>1, Invariance, PTL

(* A client told "success" has its message stored and attachments linked. *)
THEOREM OkIsCompleteHolds == Spec => []OkIsComplete
  <1>1. Inv => OkIsComplete
    BY DEF Inv
  <1>2. QED
    BY <1>1, Invariance, PTL

-----------------------------------------------------------------------------
(* The increment r holds makes its commit one step of the ledger. *)
LEMMA StoreIsLedgerStore ==
  ASSUME Inv, NEW r \in Requests, Store(r)
  PROVE  Ledger!Store(r)
  <1>1. r \notin stored /\ answer[r] = "none"
    BY DEF Inv, CountInv, StoredIsOver, AnswerInv, Store, Goto, Late
  <1>2. count' = [count EXCEPT ![TrackerOf(r)] = count[TrackerOf(r)] + 1]
    BY DEF Inv, CountInv, CountHeld, Counting, Store, Goto
  <1>3. TrackerOf(r) \in Trackers
    BY TrackerIsRow DEF Inv
  <1>4. QED
    BY <1>1, <1>2, <1>3 DEF Store, Ledger!Store

LedgerStep == Ledger!Next \/ UNCHANGED Ledger!vars

LEMMA StepRefines == Inv /\ [Next]_vars => LedgerStep
  <1> SUFFICES ASSUME Inv, [Next]_vars PROVE LedgerStep
    OBVIOUS
  <1>1. ASSUME NEW r \in Requests, Receive(r) PROVE LedgerStep
    BY <1>1 DEF Receive, database, LedgerStep, Ledger!vars
  <1>2. ASSUME NEW r \in Requests, SelectTracker(r) PROVE LedgerStep
    BY <1>2 DEF SelectTracker, Goto, Lock, database, request, LedgerStep, Ledger!vars
  <1>3. ASSUME NEW r \in Requests, InsertTracker(r) PROVE LedgerStep
    BY <1>3 DEF InsertTracker, Goto, Lock, Fail, Unlock, request, LedgerStep, Ledger!vars
  <1>4. ASSUME NEW r \in Requests, Validate(r) PROVE LedgerStep
    BY <1>4 DEF Validate, Goto, database, LedgerStep, Ledger!vars
  <1>5. ASSUME NEW r \in Requests, Resolve(r) PROVE LedgerStep
    BY <1>5 DEF Resolve, Goto, database, request, LedgerStep, Ledger!vars
  <1>6. ASSUME NEW r \in Requests, InsertSuperAgent(r) PROVE LedgerStep
    BY <1>6 DEF InsertSuperAgent, Goto, Lock, Fail, Unlock, request, LedgerStep, Ledger!vars
  <1>7. ASSUME NEW r \in Requests, TouchAgent(r) PROVE LedgerStep
    BY <1>7 DEF TouchAgent, Touch, Goto, Lock, request, LedgerStep, Ledger!vars
  <1>8. ASSUME NEW r \in Requests, OpenSession(r) PROVE LedgerStep
    BY <1>8 DEF OpenSession, Goto, database, request, LedgerStep, Ledger!vars
  <1>9. ASSUME NEW r \in Requests, TouchSessionAgent(r) PROVE LedgerStep
    BY <1>9 DEF TouchSessionAgent, Touch, Goto, Lock, request, LedgerStep, Ledger!vars
  <1>10. ASSUME NEW r \in Requests, Store(r) PROVE LedgerStep
    BY <1>10, StoreIsLedgerStore DEF LedgerStep, Ledger!Next
  <1>11. ASSUME NEW r \in Requests, Link(r) PROVE LedgerStep
    BY <1>11 DEF Link, Goto, request, LedgerStep, Ledger!vars
  <1>12. ASSUME NEW r \in Requests, Reply(r) PROVE LedgerStep
    <2>1. Ledger!Tell(r, "ok")
      BY <1>12 DEF Reply, Goto, database, Inv, TypeOK, CountInv, StoredIsOver, AnswerInv, Late, Ledger!Tell
    <2>2. QED
      BY <2>1 DEF LedgerStep, Ledger!Next, Ledger!Answers
  <1>13. ASSUME NEW r \in Requests, ReplyError(r) PROVE LedgerStep
    <2>1. Ledger!Tell(r, "error")
      BY <1>13 DEF ReplyError, Goto, database, Inv, TypeOK, CountInv, StoredIsOver, AnswerInv, Late, Ledger!Tell
    <2>2. QED
      BY <2>1 DEF LedgerStep, Ledger!Next, Ledger!Answers
  <1>14. ASSUME NEW r \in Requests, Reject(r) PROVE LedgerStep
    <2>1. Ledger!Tell(r, "client_error")
      BY <1>14 DEF Reject, Unlock, Inv, TypeOK, CountInv, StoredIsOver, AnswerInv, Late, Ledger!Tell
    <2>2. QED
      BY <2>1 DEF LedgerStep, Ledger!Next, Ledger!Answers
  <1>15. ASSUME NEW r \in Requests, Peek(r) PROVE LedgerStep
    BY <1>15 DEF Peek, Goto, database, request, LedgerStep, Ledger!vars
  <1>16. ASSUME NEW r \in Requests, PeekInsert(r) PROVE LedgerStep
    BY <1>16 DEF PeekInsert, Goto, Lock, Fail, Unlock, request, LedgerStep, Ledger!vars
  <1>17. ASSUME NEW r \in Requests, PeekCommit(r) PROVE LedgerStep
    <2>1. Ledger!Tell(r, "peeked")
      BY <1>17 DEF PeekCommit, Goto, Inv, TypeOK, CountInv, StoredIsOver, AnswerInv, Late, Ledger!Tell
    <2>2. QED
      BY <2>1 DEF LedgerStep, Ledger!Next, Ledger!Answers
  <1>18. ASSUME NEW r \in Requests, DeadlockVictim(r) PROVE LedgerStep
    BY <1>18 DEF DeadlockVictim, Fail, Unlock, request, LedgerStep, Ledger!vars
  <1>19. ASSUME NEW r \in Requests, StatementFails(r) PROVE LedgerStep
    BY <1>19 DEF StatementFails, Fail, Unlock, request, LedgerStep, Ledger!vars
  <1>20. ASSUME NEW r \in Requests, Crash(r) PROVE LedgerStep
    BY <1>20 DEF Crash, Unlock, request, LedgerStep, Ledger!vars
  <1>21. CASE NextMonth
    BY <1>21 DEF NextMonth, database, LedgerStep, Ledger!vars
  <1>22. CASE UNCHANGED vars
    BY <1>22 DEF vars, database, LedgerStep, Ledger!vars
  <1>23. QED
    BY <1>1, <1>2, <1>3, <1>4, <1>5, <1>6, <1>7, <1>8, <1>9, <1>10, <1>11, <1>12, <1>13, <1>14, <1>15, <1>16, <1>17, <1>18, <1>19, <1>20, <1>21, <1>22 DEF Next, Work

LEMMA InitRefines == Init => Ledger!Init
  BY DEF Init, Ledger!Init

(***************************************************************************)
(* The handler implements MessageLedger: for clients, message, increment   *)
(* and answer behave as if there were no statements, locks and rollbacks.  *)
(***************************************************************************)
THEOREM ImplementsLedger == Spec => LedgerSpec
  <1>1. Inv /\ [Next]_vars => [Ledger!Next]_(Ledger!vars)
    BY StepRefines DEF LedgerStep
  <1>2. QED
    BY <1>1, InitRefines, Invariance, PTL DEF Spec, LedgerSpec, Ledger!Spec
=============================================================================
