-------------------------- MODULE ChatSessionProofs --------------------------
(***************************************************************************)
(* Theorems about ChatSession: for any number of requests, renames and     *)
(* marks are lost only to requests that had read the session before, no    *)
(* message outlives its session, and what was said to be done was done.    *)
(***************************************************************************)
EXTENDS ChatSession, TLAPS

USE TitlesAssumption

(* At each step a request is of a kind that takes that step. *)
KindsFit ==
  \A r \in Requests :
    /\ pc[r] \in {"insert", "inserted", "first"} => op[r] = "create"
    /\ pc[r] = "write" => op[r] \in {"rename", "mark", "send"}
    /\ pc[r] \in {"load", "erase"} => op[r] = "delete"
    /\ pc[r] \in {"ask", "recreate"} => op[r] = "messages"
    /\ pc[r] \in {"agno", "title", "reply", "spoiled"} => op[r] \in {"show", "messages"}

(* One request creates the session, and nobody comes before it. *)
CreatedOnce ==
  /\ \A r, s \in Requests : op[r] = "create" /\ op[s] = "create" => r = s
  /\ \A r \in Requests : pc[r] = "insert" => births = 0

(* Without a row there has been nothing to work on. *)
NothingBefore ==
  /\ births = 0 => ~Exists /\ effective = {}
  /\ births = 0 /\ agno => \A r \in Requests : op[r] # "create"
  /\ \A r \in Requests : pc[r] = "recreate" => agno
  /\ \A r \in Requests : pc[r] \in {"write", "load", "erase"} => births > 0

(* Who has done or logged anything has been received. *)
DoneIsReceived ==
  /\ \A r \in effective : pc[r] # "idle"
  /\ \A e \in log : pc[e.by] # "idle"

Control == KindsFit /\ CreatedOnce /\ NothingBefore /\ DoneIsReceived

-----------------------------------------------------------------------------
(* The rows and the log entries that the steps make. *)
LEMMA RowsMade ==
  /\ NoSession \in Rows
  /\ \A t \in {Created, Minimal} : Session(t) \in Rows
  /\ \A x \in Rows : [x EXCEPT !.title = Agno] \in Rows
  /\ \A x, y \in Rows, r \in Requests :
       /\ [title |-> r, renamed |-> TRUE, mark |-> x.mark] \in Rows
       /\ [title |-> x.title, renamed |-> y.renamed, mark |-> r] \in Rows
  BY DEF Rows, Titles, Session, NoSession

LEMMA EntriesMade ==
  ASSUME NEW r \in Requests,
         NEW event \in {"created", "message", "renamed", "marked", "deleted"}
  PROVE  [by |-> r, event |-> event] \in Entries
  BY DEF Entries

LEMMA InitControl == Init => TypeOK /\ Control
  <1> SUFFICES ASSUME Init PROVE TypeOK /\ Control
    OBVIOUS
  <1>1. births \in {0, 1} /\ row \in Rows /\ snap \in [Requests -> Rows]
    BY RowsMade DEF Init
  <1>2. TypeOK
    BY <1>1 DEF Init, TypeOK, Operations, Steps
  <1>3. births = 0 => ~Exists
    BY DEF Init, Exists, NoSession, Session
  <1>4. Control
    BY <1>3 DEF Init, Control, KindsFit, CreatedOnce, NothingBefore, DoneIsReceived
  <1>5. QED
    BY <1>2, <1>4

-----------------------------------------------------------------------------
(* Types *)

LEMMA FinishType ==
  ASSUME TypeOK, NEW r \in Requests, NEW from, NEW a \in Steps, Finish(r, from, a)
  PROVE  TypeOK'
  BY RowsMade DEF TypeOK, Finish, Goto, Forget, data, history

LEMMA MovingType ==
  ASSUME TypeOK, NEW r \in Requests, NEW from, NEW a \in Steps, Goto(r, from, a)
  PROVE  pc' \in [Requests -> Steps]
  BY DEF TypeOK, Goto

LEMMA TypeStep == TypeOK /\ [Next]_vars => TypeOK'
  <1> SUFFICES ASSUME TypeOK, [Next]_vars PROVE TypeOK'
    OBVIOUS
  <1> USE RowsMade DEF TypeOK, data, local, history
  <1>1. ASSUME NEW r \in Requests, Receive(r) PROVE TypeOK'
    BY <1>1 DEF Receive, Goto, Operations, Steps
  <1>3. ASSUME NEW r \in Requests, Reads(r) PROVE TypeOK'
    <2>1. ASSUME NEW o \in Operations, NEW to \in Steps, Read(r, o, to) PROVE TypeOK'
      <3>1. CASE Exists /\ Goto(r, "read", to) /\ snap' = [snap EXCEPT ![r] = row]
                 /\ UNCHANGED <<data, op, seen, log, history>>
        BY <3>1 DEF Goto
      <3>2. CASE Finish(r, "read", "error")
        BY <3>2, FinishType DEF Steps
      <3>3. CASE Goto(r, "read", "ask") /\ UNCHANGED <<data, local, log, history>>
        BY <3>3 DEF Goto, Steps
      <3>4. QED
        BY <2>1, <3>1, <3>2, <3>3, Zenon DEF Read
    <2>2. QED
      BY <1>3, <2>1 DEF Reads, ReadForRename, ReadForMark, ReadForSend, ReadForDelete,
                        ReadForShow, ReadForMessages, Operations, Steps
  <1>4. ASSUME NEW r \in Requests, InsertSession(r) PROVE TypeOK'
    BY <1>4 DEF InsertSession, Insert, Holders, Goto, Steps
  <1>5. ASSUME NEW r \in Requests, AfterInsert(r) PROVE TypeOK'
    <2>1. CASE Finish(r, "inserted", "error")
      BY <2>1, FinishType DEF Steps
    <2>2. CASE /\ Goto(r, "inserted", "first") \/ Goto(r, "inserted", "ok")
               /\ LogCreated(r) /\ UNCHANGED <<data, local, history>>
      BY <2>2, EntriesMade DEF LogCreated, Schedule, Goto, Steps
    <2>3. QED
      BY <1>5, <2>1, <2>2, Zenon DEF AfterInsert
  <1>6. ASSUME NEW r \in Requests, FirstMessage(r) \/ SendMessage(r) PROVE TypeOK'
    <2>1. ASSUME NEW from, StoreMessage(r, from) PROVE TypeOK'
      <3>1. CASE Finish(r, from, "error")
        BY <3>1, FinishType DEF Steps
      <3>2. CASE ~Finish(r, from, "error")
        BY <2>1, <3>2 DEF StoreMessage, Goto, Steps
      <3>3. QED
        BY <3>1, <3>2
    <2>2. QED
      BY <1>6, <2>1 DEF FirstMessage, SendMessage
  <1>7. ASSUME NEW r \in Requests, Rename(r) PROVE TypeOK'
    <2>1. pc' \in [Requests -> Steps] /\ snap' \in [Requests -> Rows]
      BY <1>7 DEF Rename, Goto, Forget, Steps
    <2>2. row' \in Rows
      <3>1. row' = row \/ row' = [title |-> r, renamed |-> TRUE, mark |-> snap[r].mark]
        BY <1>7 DEF Rename
      <3>2. [title |-> r, renamed |-> TRUE, mark |-> snap[r].mark] \in Rows
        OBVIOUS
      <3>3. QED
        BY <3>1, <3>2
    <2>3. QED
      BY <1>7, <2>1, <2>2 DEF Rename, Holders
  <1>8. ASSUME NEW r \in Requests, Mark(r) PROVE TypeOK'
    <2>1. pc' \in [Requests -> Steps] /\ snap' \in [Requests -> Rows]
      BY <1>8 DEF Mark, Goto, Forget, Steps
    <2>2. row' \in Rows
      <3>1. row' = row
            \/ row' = [title |-> row.title, renamed |-> snap[r].renamed, mark |-> r]
        BY <1>8 DEF Mark
      <3>2. [title |-> row.title, renamed |-> snap[r].renamed, mark |-> r] \in Rows
        OBVIOUS
      <3>3. QED
        BY <3>1, <3>2
    <2>3. QED
      BY <1>8, <2>1, <2>2 DEF Mark, Holders
  <1>9. ASSUME NEW r \in Requests, Refresh(r) PROVE TypeOK'
    <2>1. CASE Finish(r, "refresh", "error")
      BY <2>1, FinishType DEF Steps
    <2>2. CASE /\ Goto(r, "refresh", "ok")
               /\ LogRenamed(r) \/ LogMarked(r) \/ LogMessage(r)
               /\ UNCHANGED <<data, local, history>>
      <3>1. \E event \in {"renamed", "marked", "message"} : Schedule(r, event)
        BY <2>2 DEF LogRenamed, LogMarked, LogMessage
      <3>2. log' \subseteq Entries
        BY <3>1, EntriesMade DEF Schedule
      <3>3. QED
        BY <2>2, <3>2 DEF Goto, Steps
    <2>3. QED
      BY <1>9, <2>1, <2>2, Zenon DEF Refresh
  <1>10. ASSUME NEW r \in Requests, LoadMessages(r) PROVE TypeOK'
    BY <1>10 DEF LoadMessages, Goto, Steps
  <1>11. ASSUME NEW r \in Requests, Delete(r) PROVE TypeOK'
    <2>1. CASE Finish(r, "erase", "error")
      BY <2>1, FinishType DEF Steps
    <2>2. CASE ~Finish(r, "erase", "error")
      <3>1. Goto(r, "erase", "ok") /\ LogDeleted(r)
        BY <1>11, <2>2 DEF Delete
      <3>2. pc' \in [Requests -> Steps] /\ log' \subseteq Entries
        BY <3>1, MovingType, EntriesMade DEF LogDeleted, Schedule, Steps
      <3>3. QED
        BY <1>11, <2>2, <3>2 DEF Delete, Vanish
    <2>3. QED
      BY <2>1, <2>2
  <1>12. ASSUME NEW r \in Requests, QueryAgno(r) PROVE TypeOK'
    BY <1>12 DEF QueryAgno, Goto, Steps
  <1>13. ASSUME NEW r \in Requests, CopyTitle(r) \/ CopyFails(r) PROVE TypeOK'
    BY <1>13 DEF CopyTitle, CopyFails, Goto, Steps
  <1>14. ASSUME NEW r \in Requests, AskAgno(r) PROVE TypeOK'
    <2>1. CASE Finish(r, "ask", "error")
      BY <2>1, FinishType DEF Steps
    <2>2. CASE Goto(r, "ask", "recreate") /\ UNCHANGED <<data, local, log, history>>
      BY <2>2 DEF Goto, Steps
    <2>3. QED
      BY <1>14, <2>1, <2>2, Zenon DEF AskAgno
  <1>15. ASSUME NEW r \in Requests, Recreate(r) PROVE TypeOK'
    BY <1>15 DEF Recreate, Insert, Holders, Goto, Steps
  <1>16. ASSUME NEW r \in Requests, Reply(r) \/ ReplySpoiled(r) PROVE TypeOK'
    BY <1>16, FinishType DEF Reply, ReplySpoiled, Steps
  <1>17. ASSUME AgnoTakesSession PROVE TypeOK'
    BY <1>17 DEF AgnoTakesSession
  <1>18. ASSUME NEW r \in Requests, Refuse(r) \/ StatementFails(r) PROVE TypeOK'
    BY <1>18, FinishType DEF Refuse, StatementFails, Steps
  <1>19. ASSUME UNCHANGED vars PROVE TypeOK'
    BY <1>19 DEF vars
  <1>20. QED
    BY <1>1, <1>3, <1>4, <1>5, <1>6, <1>7, <1>8, <1>9, <1>10, <1>11, <1>12, <1>13, <1>14,
       <1>15, <1>16, <1>17, <1>18, <1>19 DEF Next, Work, Writes
-----------------------------------------------------------------------------
(* Control *)

(* Every step of a request that is under way, but those that insert the row. *)
LEMMA ControlMoves ==
  ASSUME TypeOK, Control, NEW r \in Requests, NEW a \in Steps \ {"idle", "insert"},
         pc' = [pc EXCEPT ![r] = a], pc[r] # "idle",
         UNCHANGED <<births, agno, op>>,
         row' # row => births > 0,
         effective' \in {effective, effective \union {r}},
         effective' # effective => births > 0,
         \A e \in log' : e \in log \/ e.by = r,
         a \in {"inserted", "first"} => op[r] = "create",
         a = "write" => op[r] \in {"rename", "mark", "send"} /\ births > 0,
         a \in {"load", "erase"} => op[r] = "delete" /\ births > 0,
         a \in {"ask", "recreate"} => op[r] = "messages",
         a \in {"agno", "title", "reply", "spoiled"} => op[r] \in {"show", "messages"},
         a = "recreate" => agno
  PROVE  Control'
  <1>1. KindsFit'
    BY DEF Control, KindsFit, TypeOK
  <1>2. CreatedOnce'
    BY DEF Control, CreatedOnce, TypeOK
  <1>3. NothingBefore'
    BY DEF Control, NothingBefore, TypeOK, Exists
  <1>4. DoneIsReceived'
    BY DEF Control, DoneIsReceived, TypeOK, Entries
  <1>5. QED
    BY <1>1, <1>2, <1>3, <1>4 DEF Control

(* A step that inserts the row. *)
ControlInserts(r, a) ==
  /\ pc[r] \in {"insert", "recreate"}
  /\ pc' = [pc EXCEPT ![r] = a]
  /\ births' = births + 1
  /\ effective' = effective \union {r}
  /\ UNCHANGED <<agno, op, log>>

LEMMA InsertKeepsControl ==
  ASSUME TypeOK, Control, NEW r \in Requests, NEW a \in {"inserted", "agno"},
         ControlInserts(r, a),
         a = "inserted" => op[r] = "create",
         a = "agno" => op[r] = "messages"
  PROVE  Control'
  <1> USE DEF ControlInserts
  <1>1. KindsFit'
    BY DEF Control, KindsFit, TypeOK
  <1>2. ASSUME NEW s \in Requests, pc'[s] = "insert" PROVE FALSE
    <2>1. s # r /\ pc[s] = "insert" /\ op[s] = "create" /\ births = 0
      BY <1>2 DEF Control, KindsFit, CreatedOnce, TypeOK
    <2>2. op[r] # "create" /\ pc[r] # "insert"
      BY <2>1 DEF Control, KindsFit, CreatedOnce
    <2>3. QED
      BY <2>1, <2>2 DEF Control, NothingBefore
  <1>3. CreatedOnce'
    BY <1>2 DEF Control, CreatedOnce
  <1>4. NothingBefore'
    BY DEF Control, NothingBefore, TypeOK
  <1>5. DoneIsReceived'
    BY DEF Control, DoneIsReceived, TypeOK, Entries
  <1>6. QED
    BY <1>1, <1>3, <1>4, <1>5 DEF Control

LEMMA ControlStep == TypeOK /\ Control /\ [Next]_vars => Control'
  <1> SUFFICES ASSUME TypeOK, Control, [Next]_vars PROVE Control'
    OBVIOUS
  <1>0. \A r \in Requests :
          /\ pc[r] \in {"insert", "inserted", "first"} => op[r] = "create"
          /\ pc[r] = "write" => op[r] \in {"rename", "mark", "send"} /\ births > 0
          /\ pc[r] \in {"load", "erase"} => op[r] = "delete" /\ births > 0
          /\ pc[r] \in {"ask", "recreate"} => op[r] = "messages"
          /\ pc[r] \in {"agno", "title", "reply", "spoiled"} => op[r] \in {"show", "messages"}
          /\ pc[r] = "recreate" => agno
    BY DEF Control, KindsFit, NothingBefore
  <1>00. Exists => births > 0
    BY DEF Control, NothingBefore, TypeOK
  <1>a. ASSUME NEW r \in Requests, NEW from \in Steps \ {"idle"}, NEW a \in {"ok", "error"},
               Finish(r, from, a)
        PROVE  Control'
    BY <1>a, <1>0, ControlMoves DEF Finish, Goto, data, history, Steps
  <1>1. ASSUME NEW r \in Requests, Receive(r) PROVE Control'
    <2>1. /\ pc[r] = "idle"
          /\ UNCHANGED <<row, births, agno, effective, log>>
          /\ \E a \in {"read", "insert"}, o \in Operations :
               /\ pc' = [pc EXCEPT ![r] = a] /\ op' = [op EXCEPT ![r] = o]
               /\ a = "insert" => births = 0 /\ ~agno /\ \A s \in Requests : op[s] # "create"
               /\ a = "insert" <=> o = "create"
      BY <1>1, Zenon DEF Receive, Goto, data, history, Operations
    <2>2. KindsFit'
      BY <2>1 DEF Control, KindsFit, TypeOK
    <2>3. CreatedOnce'
      BY <2>1 DEF Control, CreatedOnce, TypeOK
    <2>4. NothingBefore'
      BY <2>1 DEF Control, NothingBefore, TypeOK, Exists
    <2>5. DoneIsReceived'
      BY <2>1 DEF Control, DoneIsReceived, TypeOK, Entries
    <2>6. QED
      BY <2>2, <2>3, <2>4, <2>5 DEF Control
  <1>3. ASSUME NEW r \in Requests, Reads(r) PROVE Control'
    <2>1. ASSUME NEW o \in Operations, NEW to \in {"write", "load", "agno"}, Read(r, o, to),
                 to = "write" => o \in {"rename", "mark", "send"},
                 to = "load" => o = "delete",
                 to = "agno" => o \in {"show", "messages"}
          PROVE  Control'
      <3>1. CASE Exists /\ Goto(r, "read", to) /\ snap' = [snap EXCEPT ![r] = row]
                 /\ UNCHANGED <<data, op, seen, log, history>>
        BY <2>1, <3>1, <1>0, <1>00, ControlMoves DEF Goto, data, history, Read, Steps
      <3>2. CASE Finish(r, "read", "error")
        BY <3>2, <1>a DEF Steps
      <3>3. CASE o = "messages" /\ Goto(r, "read", "ask") /\ UNCHANGED <<data, local, log, history>>
        <4>1. /\ pc[r] = "read" /\ op[r] = "messages"
              /\ pc' = [pc EXCEPT ![r] = "ask"]
              /\ UNCHANGED <<row, births, agno, op, effective, log>>
          BY <2>1, <3>3, Zenon DEF Goto, data, local, history, Read, Finish
        <4>2. "ask" \in Steps \ {"idle", "insert"} /\ pc[r] # "idle"
          BY <4>1 DEF Steps
        <4>3. \A e \in log' : e \in log \/ e.by = r
          BY <4>1
        <4>4. QED
          BY <4>1, <4>2, <4>3, ControlMoves
      <3>4. QED
        BY <2>1, <3>1, <3>2, <3>3, Zenon DEF Read
    <2>2. QED
      BY <1>3, <2>1 DEF Reads, ReadForRename, ReadForMark, ReadForSend, ReadForDelete,
                        ReadForShow, ReadForMessages, Operations
  <1>4. ASSUME NEW r \in Requests, InsertSession(r) PROVE Control'
    <2>1. ControlInserts(r, "inserted") /\ op[r] = "create"
      BY <1>4, <1>0 DEF InsertSession, Insert, Goto, local, ControlInserts
    <2>2. QED
      BY <2>1, InsertKeepsControl
  <1>5. ASSUME NEW r \in Requests, AfterInsert(r) PROVE Control'
    <2>1. CASE Finish(r, "inserted", "error")
      BY <2>1, <1>a DEF Steps
    <2>2. CASE /\ Goto(r, "inserted", "first") \/ Goto(r, "inserted", "ok")
               /\ LogCreated(r) /\ UNCHANGED <<data, local, history>>
      BY <2>2, <1>0, ControlMoves DEF LogCreated, Schedule, Goto, Steps, data, local, history
    <2>3. QED
      BY <1>5, <2>1, <2>2, Zenon DEF AfterInsert
  <1>6. ASSUME NEW r \in Requests, FirstMessage(r) \/ SendMessage(r) PROVE Control'
    <2>1. ASSUME NEW from \in {"first", "write"}, StoreMessage(r, from) PROVE Control'
      <3>1. CASE Finish(r, from, "error")
        BY <3>1, <1>a DEF Steps
      <3>2. CASE ~Finish(r, from, "error")
        BY <2>1, <3>2, <1>0, <1>00, ControlMoves DEF StoreMessage, Goto, Steps, local
      <3>3. QED
        BY <3>1, <3>2
    <2>2. QED
      BY <1>6, <2>1 DEF FirstMessage, SendMessage
  <1>7. ASSUME NEW r \in Requests, Rename(r) PROVE Control'
    <2>1. /\ pc[r] = "write" /\ op[r] = "rename"
          /\ pc' = [pc EXCEPT ![r] = "refresh"]
          /\ UNCHANGED <<births, agno, op, log>>
          /\ effective' \in {effective, effective \union {r}}
      BY <1>7 DEF Rename, Goto
    <2>2. births > 0
      BY <2>1, <1>0
    <2>3. "refresh" \in Steps \ {"idle", "insert"} /\ pc[r] # "idle"
      BY <2>1 DEF Steps
    <2>4. \A e \in log' : e \in log \/ e.by = r
      BY <2>1
    <2>5. QED
      BY <2>1, <2>2, <2>3, <2>4, ControlMoves
  <1>8. ASSUME NEW r \in Requests, Mark(r) PROVE Control'
    <2>1. /\ pc[r] = "write" /\ op[r] = "mark"
          /\ pc' = [pc EXCEPT ![r] = "refresh"]
          /\ UNCHANGED <<births, agno, op, log>>
          /\ effective' \in {effective, effective \union {r}}
      BY <1>8 DEF Mark, Goto
    <2>2. births > 0
      BY <2>1, <1>0
    <2>3. "refresh" \in Steps \ {"idle", "insert"} /\ pc[r] # "idle"
      BY <2>1 DEF Steps
    <2>4. \A e \in log' : e \in log \/ e.by = r
      BY <2>1
    <2>5. QED
      BY <2>1, <2>2, <2>3, <2>4, ControlMoves
  <1>9. ASSUME NEW r \in Requests, Refresh(r) PROVE Control'
    <2>1. CASE Finish(r, "refresh", "error")
      BY <2>1, <1>a DEF Steps
    <2>2. CASE /\ Goto(r, "refresh", "ok")
               /\ LogRenamed(r) \/ LogMarked(r) \/ LogMessage(r)
               /\ UNCHANGED <<data, local, history>>
      <3>1. \A e \in log' : e \in log \/ e.by = r
        BY <2>2 DEF LogRenamed, LogMarked, LogMessage, Schedule
      <3>2. QED
        BY <2>2, <3>1, <1>0, ControlMoves DEF Goto, Steps, data, local, history
    <2>3. QED
      BY <1>9, <2>1, <2>2, Zenon DEF Refresh
  <1>10. ASSUME NEW r \in Requests, LoadMessages(r) PROVE Control'
    <2>1. /\ pc[r] = "load"
          /\ pc' = [pc EXCEPT ![r] = "erase"]
          /\ UNCHANGED <<row, births, agno, op, effective, log>>
      BY <1>10 DEF LoadMessages, Goto, data, history
    <2>2. op[r] = "delete" /\ births > 0
      BY <2>1, <1>0
    <2>3. "erase" \in Steps \ {"idle", "insert"} /\ pc[r] # "idle"
      BY <2>1 DEF Steps
    <2>4. \A e \in log' : e \in log \/ e.by = r
      BY <2>1
    <2>5. QED
      BY <2>1, <2>2, <2>3, <2>4, ControlMoves
  <1>11. ASSUME NEW r \in Requests, Delete(r) PROVE Control'
    <2>1. CASE Finish(r, "erase", "error")
      BY <2>1, <1>a DEF Steps
    <2>2. CASE ~Finish(r, "erase", "error")
      <3>1. Goto(r, "erase", "ok") /\ LogDeleted(r)
        BY <1>11, <2>2 DEF Delete
      <3>2. UNCHANGED <<births, agno, op>> /\ effective' \in {effective, effective \union {r}}
        BY <1>11, <2>2 DEF Delete, data, local, history
      <3>3. \A e \in log' : e \in log \/ e.by = r
        BY <3>1 DEF LogDeleted, Schedule
      <3>4. pc[r] = "erase" /\ pc' = [pc EXCEPT ![r] = "ok"] /\ births > 0
        BY <3>1, <1>0 DEF Goto
      <3>5. "ok" \in Steps \ {"idle", "insert"} /\ pc[r] # "idle"
        BY <3>4 DEF Steps
      <3>6. QED
        BY <3>2, <3>3, <3>4, <3>5, ControlMoves
    <2>3. QED
      BY <2>1, <2>2
  <1>12. ASSUME NEW r \in Requests, QueryAgno(r) PROVE Control'
    BY <1>12, <1>0, ControlMoves DEF QueryAgno, Goto, Steps, data, local, history
  <1>13. ASSUME NEW r \in Requests, CopyTitle(r) \/ CopyFails(r) PROVE Control'
    <2>1. /\ \E a \in {"reply", "spoiled"} : Goto(r, "title", a)
          /\ UNCHANGED <<births, agno, op, log>>
          /\ (row' # row \/ effective' # effective) => Exists
          /\ effective' \in {effective, effective \union {r}}
      BY <1>13 DEF CopyTitle, CopyFails, data, local, history
    <2>2. QED
      BY <2>1, <1>0, <1>00, ControlMoves DEF Goto, Steps
  <1>14. ASSUME NEW r \in Requests, AskAgno(r) PROVE Control'
    <2>1. CASE Finish(r, "ask", "error")
      BY <2>1, <1>a DEF Steps
    <2>2. CASE agno /\ Goto(r, "ask", "recreate") /\ UNCHANGED <<data, local, log, history>>
      BY <2>2, <1>0, ControlMoves DEF Goto, Steps, data, local, history
    <2>3. QED
      BY <1>14, <2>1, <2>2, Zenon DEF AskAgno
  <1>15. ASSUME NEW r \in Requests, Recreate(r) PROVE Control'
    <2>1. CASE Exists
      BY <1>15, <2>1, <1>0, ControlMoves DEF Recreate, Goto, Steps, data, local, history
    <2>2. CASE ~Exists
      <3>1. ControlInserts(r, "agno") /\ op[r] = "messages"
        BY <1>15, <2>2, <1>0 DEF Recreate, Insert, Goto, ControlInserts
      <3>2. QED
        BY <3>1, InsertKeepsControl
    <2>3. QED
      BY <2>1, <2>2
  <1>16. ASSUME NEW r \in Requests, Reply(r) \/ ReplySpoiled(r) PROVE Control'
    BY <1>16, <1>a DEF Reply, ReplySpoiled, Steps
  <1>17. ASSUME AgnoTakesSession PROVE Control'
    BY <1>17 DEF AgnoTakesSession, Control, KindsFit, CreatedOnce, NothingBefore,
                 DoneIsReceived, Exists, local, history
  <1>18. ASSUME NEW r \in Requests, Refuse(r) \/ StatementFails(r) PROVE Control'
    <2>1. pc[r] \in Steps \ {"idle"} /\ Finish(r, pc[r], "error")
      BY <1>18 DEF Refuse, StatementFails, Underway, TypeOK, Steps
    <2>2. QED
      BY <2>1, <1>a
  <1>19. ASSUME UNCHANGED vars PROVE Control'
    BY <1>19 DEF vars, data, local, history, Control, KindsFit, CreatedOnce, NothingBefore,
                 DoneIsReceived, Exists
  <1>20. QED
    BY <1>1, <1>3, <1>4, <1>5, <1>6, <1>7, <1>8, <1>9, <1>10, <1>11, <1>12, <1>13, <1>14,
       <1>15, <1>16, <1>17, <1>18, <1>19 DEF Next, Work, Writes
-----------------------------------------------------------------------------
(* What a step does to the row and what is remembered of it *)

Unaltered == UNCHANGED <<row, births, messages, history>>

Inserts(r) ==
  /\ ~Exists /\ pc[r] \in {"insert", "recreate"}
  /\ \E title \in {Created, Minimal} : Insert(r, title)
  /\ UNCHANGED messages

Stores(r) ==
  /\ Exists /\ pc[r] \in {"first", "write"} /\ op[r] \in {"create", "send"}
  /\ effective' = effective \union {r}
  /\ UNCHANGED <<row, births, lastRename, lastMark, metRename, metMark>>

Renames(r) == Exists /\ Rename(r)
Marks(r)   == Exists /\ Mark(r)

Copies(r) ==
  /\ Exists /\ pc[r] = "title" /\ row' = [row EXCEPT !.title = Agno]
  /\ effective' = effective \union {r}
  /\ UNCHANGED <<births, messages, lastRename, lastMark, metRename, metMark>>

Deletes(r) ==
  /\ pc[r] = "erase" /\ op[r] = "delete" /\ Vanish({})
  /\ effective' = effective \union {r}
  /\ UNCHANGED births

Alters(r) == Inserts(r) \/ Stores(r) \/ Renames(r) \/ Marks(r) \/ Copies(r) \/ Deletes(r)

LEMMA FinishIsQuiet ==
  ASSUME NEW r, NEW from, NEW a, Finish(r, from, a)
  PROVE  Unaltered
  BY DEF Finish, Unaltered, data, history

LEMMA RowStep ==
  ASSUME TypeOK, Control, [Next]_vars
  PROVE  Unaltered \/ \E r \in Requests : Alters(r)
  <1> DEFINE Goal == Unaltered \/ \E r \in Requests : Alters(r)
  <1>0. \A r \in Requests :
          /\ pc[r] \in {"insert", "first"} => op[r] = "create"
          /\ pc[r] = "insert" => ~Exists
          /\ pc[r] = "erase" => op[r] = "delete"
    BY DEF Control, KindsFit, CreatedOnce, NothingBefore
  <1>1. ASSUME NEW r \in Requests, Receive(r) PROVE Goal
    BY <1>1 DEF Receive, Unaltered, data, history
  <1>2. ASSUME NEW r \in Requests, NEW o, NEW to, Read(r, o, to) PROVE Goal
    BY <1>2 DEF Read, Finish, Unaltered, data, history
  <1>3. ASSUME NEW r \in Requests, Reads(r) PROVE Goal
    BY <1>2, <1>3 DEF Reads, ReadForRename, ReadForMark, ReadForSend, ReadForDelete,
                      ReadForShow, ReadForMessages
  <1>4. ASSUME NEW r \in Requests, InsertSession(r) PROVE Goal
    <2>1. Inserts(r)
      BY <1>0, <1>4 DEF InsertSession, Inserts, Goto
    <2>2. QED
      BY <2>1 DEF Alters
  <1>5. ASSUME NEW r \in Requests, AfterInsert(r) PROVE Goal
    BY <1>5 DEF AfterInsert, Finish, Unaltered, data, history
  <1>6. ASSUME NEW r \in Requests, FirstMessage(r) \/ SendMessage(r) PROVE Goal
    <2>1. ASSUME NEW from \in {"first", "write"}, StoreMessage(r, from),
                 from = "write" => op[r] = "send"
          PROVE  Unaltered \/ Stores(r)
      <3>1. CASE Finish(r, from, "error")
        BY <3>1, FinishIsQuiet
      <3>2. CASE ~Finish(r, from, "error")
        BY <1>0, <2>1, <3>2 DEF StoreMessage, Stores, Goto
      <3>3. QED
        BY <3>1, <3>2
    <2>2. QED
      BY <1>6, <2>1 DEF FirstMessage, SendMessage, Alters
  <1>7. ASSUME NEW r \in Requests, Rename(r) PROVE Goal
    <2>1. CASE Exists
      BY <1>7, <2>1 DEF Renames, Alters
    <2>2. CASE ~Exists
      BY <1>7, <2>2 DEF Rename, Unaltered, history
    <2>3. QED
      BY <2>1, <2>2
  <1>8. ASSUME NEW r \in Requests, Mark(r) PROVE Goal
    <2>1. CASE Exists
      BY <1>8, <2>1 DEF Marks, Alters
    <2>2. CASE ~Exists
      BY <1>8, <2>2 DEF Mark, Unaltered, history
    <2>3. QED
      BY <2>1, <2>2
  <1>9. ASSUME NEW r \in Requests, Refresh(r) PROVE Goal
    BY <1>9 DEF Refresh, Finish, Unaltered, data, history
  <1>10. ASSUME NEW r \in Requests, LoadMessages(r) PROVE Goal
    BY <1>10 DEF LoadMessages, Unaltered, data, history
  <1>11. ASSUME NEW r \in Requests, Delete(r) PROVE Goal
    <2>1. Unaltered \/ Deletes(r)
      BY <1>0, <1>11 DEF Delete, Finish, Goto, Deletes, Unaltered, data, history
    <2>2. QED
      BY <2>1 DEF Alters
  <1>12. ASSUME NEW r \in Requests, QueryAgno(r) PROVE Goal
    BY <1>12 DEF QueryAgno, Unaltered, data, history
  <1>13. ASSUME NEW r \in Requests, CopyTitle(r) PROVE Goal
    <2>1. Unaltered \/ Copies(r)
      BY <1>13 DEF CopyTitle, Copies, Goto, Unaltered, data, history
    <2>2. QED
      BY <2>1 DEF Alters
  <1>14. ASSUME NEW r \in Requests, AskAgno(r) PROVE Goal
    BY <1>14 DEF AskAgno, Finish, Unaltered, data, history
  <1>15. ASSUME NEW r \in Requests, Recreate(r) PROVE Goal
    <2>1. Unaltered \/ Inserts(r)
      BY <1>15 DEF Recreate, Inserts, Goto, Unaltered, data, history
    <2>2. QED
      BY <2>1 DEF Alters
  <1>16. ASSUME NEW r \in Requests,
                Reply(r) \/ ReplySpoiled(r) \/ Refuse(r) \/ StatementFails(r)
         PROVE  Goal
    BY <1>16, FinishIsQuiet DEF Reply, ReplySpoiled, Refuse, StatementFails
  <1>17. ASSUME AgnoTakesSession \/ UNCHANGED vars PROVE Goal
    BY <1>17 DEF AgnoTakesSession, vars, Unaltered, data, history
  <1>18. ASSUME NEW r \in Requests, CopyFails(r) PROVE Goal
    BY <1>18 DEF CopyFails, Unaltered, data, history
  <1>19. QED
    BY <1>1, <1>3, <1>4, <1>5, <1>6, <1>7, <1>8, <1>9, <1>10, <1>11, <1>12, <1>13, <1>14,
       <1>15, <1>16, <1>17, <1>18, Zenon DEF Next, Work, Writes

(* What a request works on it has read before, or is the row of this very moment. *)
Bears(s) == pc[s] \in {"write", "agno", "title"}

Keeps(s) ==
  /\ Bears(s) /\ snap'[s] = snap[s] /\ op'[s] = op[s]
  /\ \/ pc'[s] = pc[s]
     \/ pc[s] = "agno" /\ pc'[s] = "title" /\ ~snap[s].renamed

ReadsNow(s) == snap'[s] = row' /\ pc'[s] # "title"

Carried == \A s \in Requests : Bears(s)' => Keeps(s) \/ ReadsNow(s)

LEMMA OthersKeep ==
  ASSUME TypeOK, NEW r \in Requests, NEW from, NEW a, Goto(r, from, a),
         snap' = snap \/ \E x : snap' = [snap EXCEPT ![r] = x],
         op' = op \/ \E o : op' = [op EXCEPT ![r] = o],
         NEW s \in Requests \ {r}, Bears(s)'
  PROVE  Keeps(s)
  <1>1. pc'[s] = pc[s] /\ snap'[s] = snap[s] /\ op'[s] = op[s]
    BY DEF TypeOK, Goto
  <1>2. pc'[s] \in {"write", "agno", "title"}
    BY DEF Bears
  <1>3. QED
    BY <1>1, <1>2 DEF Bears, Keeps

LEMMA CarriedByOthers ==
  ASSUME TypeOK, NEW r \in Requests,
         NEW a \in Steps \ {"write", "agno", "title"}, NEW from, Goto(r, from, a),
         snap' = snap \/ Forget(r), op' = op
  PROVE  Carried
  <1>1. ASSUME NEW s \in Requests, Bears(s)' PROVE Keeps(s)
    <2>1. pc'[r] = a /\ pc'[s] \in {"write", "agno", "title"}
      BY <1>1 DEF Goto, TypeOK, Bears
    <2>2. s # r
      BY <2>1
    <2>3. QED
      BY <1>1, <2>2, OthersKeep DEF Forget
  <1>2. QED
    BY <1>1 DEF Carried

LEMMA CarriedByFinish ==
  ASSUME TypeOK, NEW r \in Requests, NEW from, NEW a \in {"ok", "error"}, Finish(r, from, a)
  PROVE  Carried
  BY CarriedByOthers DEF Finish, Steps

LEMMA CarriedStep ==
  ASSUME TypeOK, Control, [Next]_vars
  PROVE  Carried
  <1>0. Steps \ {"write", "agno", "title"}
        = {"idle", "read", "ask", "recreate", "insert", "inserted", "first", "load", "erase",
           "refresh", "reply", "spoiled", "ok", "error"}
    BY DEF Steps
  <1>1. ASSUME NEW r \in Requests, Receive(r) PROVE Carried
    <2>1. /\ \E a \in {"read", "insert"} : Goto(r, "idle", a)
          /\ \E o : op' = [op EXCEPT ![r] = o]
          /\ snap' = snap
      BY <1>1 DEF Receive
    <2>2. pc'[r] \notin {"write", "agno", "title"}
      BY <2>1 DEF Goto, TypeOK
    <2>3. ASSUME NEW s \in Requests, Bears(s)' PROVE Keeps(s)
      <3>1. s # r
        BY <2>2, <2>3 DEF Bears
      <3>2. QED
        BY <2>1, <2>3, <3>1, OthersKeep
    <2>4. QED
      BY <2>3 DEF Carried
  <1>2. ASSUME NEW r \in Requests, NEW o, NEW to \in {"write", "load", "agno"}, Read(r, o, to)
        PROVE  Carried
    <2>1. CASE Exists /\ Goto(r, "read", to) /\ snap' = [snap EXCEPT ![r] = row]
               /\ UNCHANGED <<data, op, seen, log, history>>
      <3>1. ReadsNow(r)
        BY <2>1 DEF Goto, data, TypeOK, ReadsNow
      <3>2. ASSUME NEW s \in Requests \ {r}, Bears(s)' PROVE Keeps(s)
        BY <2>1, <3>2, OthersKeep
      <3>3. QED
        BY <3>1, <3>2 DEF Carried
    <2>2. CASE Finish(r, "read", "error")
      BY <2>2, CarriedByFinish
    <2>3. CASE Goto(r, "read", "ask") /\ UNCHANGED <<data, local, log, history>>
      BY <1>0, <2>3, CarriedByOthers DEF local
    <2>4. QED
      BY <1>2, <2>1, <2>2, <2>3, Zenon DEF Read
  <1>3. ASSUME NEW r \in Requests, Reads(r) PROVE Carried
    BY <1>2, <1>3 DEF Reads, ReadForRename, ReadForMark, ReadForSend, ReadForDelete,
                      ReadForShow, ReadForMessages
  <1>4. ASSUME NEW r \in Requests, InsertSession(r) PROVE Carried
    BY <1>0, <1>4, CarriedByOthers DEF InsertSession, local
  <1>5. ASSUME NEW r \in Requests, AfterInsert(r) PROVE Carried
    <2>1. CASE Finish(r, "inserted", "error")
      BY <2>1, CarriedByFinish
    <2>2. CASE (\E a \in {"first", "ok"} : Goto(r, "inserted", a)) /\ UNCHANGED local
      BY <1>0, <2>2, CarriedByOthers DEF local
    <2>3. QED
      BY <1>5, <2>1, <2>2 DEF AfterInsert
  <1>6. ASSUME NEW r \in Requests, FirstMessage(r) \/ SendMessage(r) PROVE Carried
    <2>1. ASSUME NEW from, StoreMessage(r, from) PROVE Carried
      <3>1. CASE Finish(r, from, "error")
        BY <3>1, CarriedByFinish
      <3>2. CASE Goto(r, from, "refresh") /\ UNCHANGED local
        BY <1>0, <3>2, CarriedByOthers DEF local
      <3>3. QED
        BY <2>1, <3>1, <3>2 DEF StoreMessage
    <2>2. QED
      BY <1>6, <2>1 DEF FirstMessage, SendMessage
  <1>7. ASSUME NEW r \in Requests, Rename(r) \/ Mark(r) PROVE Carried
    <2>1. Goto(r, "write", "refresh") /\ Forget(r) /\ op' = op
      BY <1>7 DEF Rename, Mark
    <2>2. QED
      BY <1>0, <2>1, CarriedByOthers
  <1>9. ASSUME NEW r \in Requests, Refresh(r) PROVE Carried
    <2>1. CASE Finish(r, "refresh", "error")
      BY <2>1, CarriedByFinish
    <2>2. CASE Goto(r, "refresh", "ok") /\ UNCHANGED local
      BY <1>0, <2>2, CarriedByOthers DEF local
    <2>3. QED
      BY <1>9, <2>1, <2>2 DEF Refresh
  <1>10. ASSUME NEW r \in Requests, LoadMessages(r) PROVE Carried
    BY <1>0, <1>10, CarriedByOthers DEF LoadMessages
  <1>11. ASSUME NEW r \in Requests, Delete(r) PROVE Carried
    <2>1. CASE Finish(r, "erase", "error")
      BY <2>1, CarriedByFinish
    <2>2. CASE Goto(r, "erase", "ok") /\ UNCHANGED local
      BY <1>0, <2>2, CarriedByOthers DEF local
    <2>3. QED
      BY <1>11, <2>1, <2>2, Zenon DEF Delete
  <1>12. ASSUME NEW r \in Requests, QueryAgno(r) PROVE Carried
    <2>1. CASE ~snap[r].renamed /\ Goto(r, "agno", "title") /\ UNCHANGED local
      <3>1. Keeps(r)
        BY <2>1 DEF Goto, local, TypeOK, Bears, Keeps
      <3>2. ASSUME NEW s \in Requests \ {r}, Bears(s)' PROVE Keeps(s)
        BY <2>1, <3>2, OthersKeep DEF local
      <3>3. QED
        BY <3>1, <3>2 DEF Carried
    <2>2. CASE Goto(r, "agno", "reply") /\ UNCHANGED local
      BY <1>0, <2>2, CarriedByOthers DEF local
    <2>3. QED
      BY <1>12, <2>1, <2>2 DEF QueryAgno
  <1>13. ASSUME NEW r \in Requests, CopyTitle(r) \/ CopyFails(r) PROVE Carried
    <2>1. (\E a \in {"reply", "spoiled"} : Goto(r, "title", a)) /\ UNCHANGED local
      BY <1>13 DEF CopyTitle, CopyFails
    <2>2. QED
      BY <1>0, <2>1, CarriedByOthers DEF local
  <1>14. ASSUME NEW r \in Requests, AskAgno(r) PROVE Carried
    <2>1. CASE Finish(r, "ask", "error")
      BY <2>1, CarriedByFinish
    <2>2. CASE Goto(r, "ask", "recreate") /\ UNCHANGED local
      BY <1>0, <2>2, CarriedByOthers DEF local
    <2>3. QED
      BY <1>14, <2>1, <2>2 DEF AskAgno
  <1>15. ASSUME NEW r \in Requests, Recreate(r) PROVE Carried
    <2>1. CASE Exists
      BY <1>0, <1>15, <2>1, CarriedByOthers DEF Recreate, local
    <2>2. CASE ~Exists
      <3>1. /\ Goto(r, "recreate", "agno") /\ op' = op
            /\ row' = Session(Minimal) /\ snap' = [snap EXCEPT ![r] = Session(Minimal)]
        BY <1>15, <2>2 DEF Recreate, Insert
      <3>2. ReadsNow(r)
        BY <3>1 DEF Goto, TypeOK, ReadsNow
      <3>3. ASSUME NEW s \in Requests \ {r}, Bears(s)' PROVE Keeps(s)
        BY <3>1, <3>3, OthersKeep
      <3>4. QED
        BY <3>2, <3>3 DEF Carried
    <2>3. QED
      BY <2>1, <2>2
  <1>16. ASSUME NEW r \in Requests,
                Reply(r) \/ ReplySpoiled(r) \/ Refuse(r) \/ StatementFails(r)
         PROVE  Carried
    BY <1>16, CarriedByFinish DEF Reply, ReplySpoiled, Refuse, StatementFails
  <1>17. ASSUME AgnoTakesSession \/ UNCHANGED vars PROVE Carried
    <2>1. UNCHANGED <<pc, snap, op>>
      BY <1>17 DEF AgnoTakesSession, vars, local
    <2>2. QED
      BY <2>1 DEF Carried, Bears, Keeps
  <1>19. QED
    BY <1>1, <1>3, <1>4, <1>5, <1>6, <1>7, <1>9, <1>10, <1>11, <1>12, <1>13, <1>14,
       <1>15, <1>16, <1>17, Zenon DEF Next, Work, Writes

(* What a request is asked to do does not change. *)
LEMMA OperationsStay ==
  ASSUME TypeOK, [Next]_vars, NEW s \in Requests, pc[s] # "idle"
  PROVE  op'[s] = op[s]
  <1>1. ASSUME NEW r \in Requests, Receive(r) PROVE op'[s] = op[s]
    BY <1>1 DEF Receive, Goto, TypeOK
  <1>2. ASSUME NEW r \in Requests, NEW o, NEW to, Read(r, o, to) PROVE op' = op
    BY <1>2 DEF Read, Finish, local
  <1>3. ASSUME NEW r \in Requests, Reads(r) PROVE op' = op
    BY <1>2, <1>3 DEF Reads, ReadForRename, ReadForMark, ReadForSend, ReadForDelete,
                      ReadForShow, ReadForMessages
  <1>4. ASSUME NEW r \in Requests, InsertSession(r) \/ AfterInsert(r) PROVE op' = op
    BY <1>4 DEF InsertSession, AfterInsert, Finish, local
  <1>5. ASSUME NEW r \in Requests, FirstMessage(r) \/ SendMessage(r) PROVE op' = op
    BY <1>5 DEF FirstMessage, SendMessage, StoreMessage, Finish, local
  <1>6. ASSUME NEW r \in Requests, Rename(r) \/ Mark(r) \/ Refresh(r) PROVE op' = op
    BY <1>6 DEF Rename, Mark, Refresh, Finish, local
  <1>7. ASSUME NEW r \in Requests, LoadMessages(r) \/ Delete(r) PROVE op' = op
    BY <1>7 DEF LoadMessages, Delete, Finish, local
  <1>8. ASSUME NEW r \in Requests, QueryAgno(r) \/ CopyTitle(r) \/ CopyFails(r) PROVE op' = op
    BY <1>8 DEF QueryAgno, CopyTitle, CopyFails, local
  <1>9. ASSUME NEW r \in Requests, AskAgno(r) \/ Recreate(r) PROVE op' = op
    BY <1>9 DEF AskAgno, Recreate, Finish, local
  <1>10. ASSUME NEW r \in Requests,
                Reply(r) \/ ReplySpoiled(r) \/ Refuse(r) \/ StatementFails(r)
         PROVE  op' = op
    BY <1>10 DEF Reply, ReplySpoiled, Refuse, StatementFails, Finish
  <1>11. ASSUME AgnoTakesSession \/ UNCHANGED vars PROVE op' = op
    BY <1>11 DEF AgnoTakesSession, vars, local
  <1>12. QED
    BY <1>1, <1>3, <1>4, <1>5, <1>6, <1>7, <1>8, <1>9, <1>10, <1>11 DEF Next, Work, Writes

-----------------------------------------------------------------------------
(* Renames *)

Overtaken == metRename \intersect effective # {}

RenameKept ==
  /\ Exists /\ lastRename # Nobody => (row.title = lastRename /\ row.renamed) \/ Overtaken
  /\ \A s \in Requests :
       /\ Bears(s) /\ Exists /\ lastRename # Nobody
          => snap[s].renamed \/ s \in metRename \/ Overtaken
       /\ pc[s] = "title" => ~snap[s].renamed

LEMMA RenameStep ==
  ASSUME TypeOK, Control, RenameKept, [Next]_vars
  PROVE  RenameKept'
  <1>1. Unaltered \/ \E r \in Requests : Alters(r)
    BY RowStep
  <1>2. Carried
    BY CarriedStep
  <1>3. ASSUME NEW s \in Requests, pc'[s] = "title" PROVE ~snap'[s].renamed
    BY <1>2, <1>3 DEF RenameKept, Carried, Keeps, ReadsNow, Bears
  <1>4. SUFFICES ASSUME Exists', lastRename' # Nobody
                 PROVE  /\ (row'.title = lastRename' /\ row'.renamed) \/ Overtaken'
                        /\ \A s \in Requests :
                             Bears(s)' => snap'[s].renamed \/ s \in metRename' \/ Overtaken'
    BY <1>3 DEF RenameKept
  <1> DEFINE RowKept == (row'.title = lastRename' /\ row'.renamed) \/ Overtaken'
             OthersKnow == \A s \in Requests :
                             Bears(s)' /\ Keeps(s)
                             => snap[s].renamed \/ s \in metRename' \/ Overtaken'
  <1>5. ASSUME Exists, UNCHANGED <<lastRename, metRename>>, effective \subseteq effective'
        PROVE  /\ Overtaken => Overtaken'
               /\ OthersKnow
               /\ (row.title = lastRename' /\ row.renamed) \/ Overtaken'
    <2>1. Overtaken => Overtaken'
      BY <1>5 DEF Overtaken
    <2>2. OthersKnow
      BY <1>4, <1>5, <2>1 DEF RenameKept, Keeps
    <2>3. QED
      BY <1>4, <1>5, <2>1, <2>2 DEF RenameKept
  <1>6. CASE Unaltered
    <2>1. Exists /\ UNCHANGED <<row, lastRename, metRename, effective>>
      BY <1>4, <1>6 DEF Unaltered, history, Exists
    <2>2. QED
      BY <1>2, <1>5, <2>1 DEF Carried, Keeps, ReadsNow
  <1>7. ASSUME NEW r \in Requests, Alters(r) PROVE RowKept /\ OthersKnow
    <2>1. CASE Inserts(r) \/ Deletes(r)
      BY <1>4, <2>1 DEF Inserts, Insert, Deletes, Vanish
    <2>2. CASE Stores(r)
      BY <1>5, <2>2 DEF Stores
    <2>3. CASE Renames(r)
      <3>1. /\ pc[r] = "write" /\ pc' = [pc EXCEPT ![r] = "refresh"]
            /\ row' = [title |-> r, renamed |-> TRUE, mark |-> snap[r].mark]
            /\ lastRename' = r /\ metRename' = Holders(r)
        BY <2>3 DEF Renames, Rename, Goto
      <3>2. ASSUME NEW s \in Requests, Bears(s)', Keeps(s) PROVE s \in Holders(r)
        <4>1. s # r
          BY <3>1, <3>2 DEF Bears, TypeOK
        <4>2. pc[s] \in {"write", "agno", "title"}
          BY <3>2 DEF Keeps, Bears
        <4>3. QED
          BY <4>1, <4>2 DEF Holders, Holding
      <3>3. QED
        BY <3>1, <3>2
    <2>4. CASE Marks(r)
      <3>1. /\ Exists /\ pc[r] = "write"
            /\ row' = [title |-> row.title, renamed |-> snap[r].renamed, mark |-> r]
            /\ effective' = effective \union {r}
            /\ UNCHANGED <<lastRename, metRename>>
        BY <2>4 DEF Marks, Mark, Goto
      <3>2. snap[r].renamed \/ Overtaken'
        <4>1. snap[r].renamed \/ r \in metRename \/ Overtaken
          BY <1>4, <3>1 DEF RenameKept, Bears
        <4>2. QED
          BY <3>1, <4>1 DEF Overtaken
      <3>3. QED
        BY <1>5, <3>1, <3>2
    <2>5. CASE Copies(r)
      <3>1. /\ Exists /\ pc[r] = "title"
            /\ effective' = effective \union {r}
            /\ UNCHANGED <<lastRename, metRename>>
        BY <2>5 DEF Copies
      <3>2. Overtaken'
        <4>1. r \in metRename \/ Overtaken
          BY <1>4, <3>1 DEF RenameKept, Bears
        <4>2. QED
          BY <3>1, <4>1 DEF Overtaken
      <3>3. QED
        BY <1>5, <3>1, <3>2
    <2>6. QED
      BY <1>7, <2>1, <2>2, <2>3, <2>4, <2>5, Zenon DEF Alters
  <1>8. QED
    <2>1. CASE \E r \in Requests : Alters(r)
      BY <1>2, <1>7, <2>1 DEF Carried, Keeps, ReadsNow
    <2>2. QED
      BY <1>1, <1>6, <2>1

-----------------------------------------------------------------------------
(* Marks *)

Undone == \E s \in metMark \intersect effective : op[s] = "rename"

MarkKept ==
  /\ Exists => row.mark = lastMark \/ Undone
  /\ \A s \in Requests :
       pc[s] = "write" /\ op[s] = "rename" /\ Exists
       => snap[s].mark = lastMark \/ s \in metMark \/ Undone

LEMMA MarkStep ==
  ASSUME TypeOK, Control, MarkKept, [Next]_vars
  PROVE  MarkKept'
  <1>1. Unaltered \/ \E r \in Requests : Alters(r)
    BY RowStep
  <1>2. Carried
    BY CarriedStep
  <1>3. SUFFICES ASSUME Exists'
                 PROVE  /\ row'.mark = lastMark' \/ Undone'
                        /\ \A s \in Requests :
                             pc'[s] = "write" /\ op'[s] = "rename"
                             => snap'[s].mark = lastMark' \/ s \in metMark' \/ Undone'
    BY DEF MarkKept
  <1> DEFINE RowKept == row'.mark = lastMark' \/ Undone'
             OthersKnow == \A s \in Requests :
                             pc'[s] = "write" /\ op'[s] = "rename" /\ Keeps(s)
                             => snap[s].mark = lastMark' \/ s \in metMark' \/ Undone'
             Held == \A s \in Requests : pc'[s] = "write" /\ Keeps(s) => s \in metMark'
  <1>4. ASSUME NEW s \in effective PROVE op'[s] = op[s]
    BY <1>4, OperationsStay DEF Control, DoneIsReceived, TypeOK
  <1>5. ASSUME Exists, UNCHANGED <<lastMark, metMark>>, effective \subseteq effective'
        PROVE  /\ Undone => Undone'
               /\ OthersKnow
               /\ row.mark = lastMark' \/ Undone'
    <2>1. Undone => Undone'
      BY <1>4, <1>5 DEF Undone
    <2>2. ASSUME NEW s \in Requests, pc'[s] = "write", op'[s] = "rename", Keeps(s)
          PROVE  snap[s].mark = lastMark' \/ s \in metMark' \/ Undone'
      <3>1. pc[s] = "write" /\ op[s] = "rename"
        BY <2>2 DEF Keeps
      <3>2. QED
        BY <1>5, <2>1, <3>1 DEF MarkKept
    <2>3. QED
      BY <1>5, <2>1, <2>2 DEF MarkKept
  <1>6. CASE Unaltered
    <2>1. Exists /\ UNCHANGED <<row, lastMark, metMark, effective>>
      BY <1>3, <1>6 DEF Unaltered, history, Exists
    <2>2. QED
      BY <1>2, <1>5, <2>1 DEF Carried, Keeps, ReadsNow, Bears
  <1>7. ASSUME NEW r \in Requests, pc'[r] # "write", metMark' = Holders(r) PROVE Held
    <2>1. ASSUME NEW s \in Requests, pc'[s] = "write", Keeps(s) PROVE s \in Holders(r)
      <3>1. s # r /\ pc[s] = "write"
        BY <1>7, <2>1 DEF Keeps
      <3>2. QED
        BY <3>1 DEF Holders, Holding
    <2>2. QED
      BY <1>7, <2>1
  <1>8. ASSUME NEW r \in Requests, Alters(r) PROVE RowKept /\ OthersKnow
    <2>1. CASE Inserts(r)
      <3>1. \E title \in {Created, Minimal} : row' = Session(title)
        BY <2>1 DEF Inserts, Insert
      <3>2. row'.mark = Nobody /\ lastMark' = Nobody /\ metMark' = Holders(r)
        BY <2>1, <3>1 DEF Inserts, Insert, Session
      <3>3. ASSUME NEW s \in Requests, pc'[s] = "write", Keeps(s) PROVE s \in Holders(r)
        <4>1. s # r /\ pc[s] = "write"
          BY <2>1, <3>3 DEF Inserts, Keeps
        <4>2. QED
          BY <4>1 DEF Holders, Holding
      <3>4. QED
        BY <3>2, <3>3
    <2>2. CASE Stores(r)
      BY <1>5, <2>2 DEF Stores
    <2>3. CASE Renames(r)
      <3>1. /\ Exists /\ pc[r] = "write" /\ op[r] = "rename" /\ op'[r] = "rename"
            /\ row' = [title |-> r, renamed |-> TRUE, mark |-> snap[r].mark]
            /\ effective' = effective \union {r}
            /\ UNCHANGED <<lastMark, metMark>>
        BY <2>3 DEF Renames, Rename, Goto
      <3>2. snap[r].mark = lastMark \/ r \in metMark \/ Undone
        BY <3>1 DEF MarkKept
      <3>3. r \in metMark => Undone'
        BY <3>1 DEF Undone
      <3>4. QED
        BY <1>5, <3>1, <3>2, <3>3
    <2>4. CASE Marks(r)
      <3>1. /\ pc' = [pc EXCEPT ![r] = "refresh"]
            /\ row' = [title |-> row.title, renamed |-> snap[r].renamed, mark |-> r]
            /\ lastMark' = r /\ metMark' = Holders(r)
        BY <2>4 DEF Marks, Mark, Goto
      <3>2. pc'[r] # "write"
        BY <3>1 DEF TypeOK
      <3>3. Held
        BY <1>7, <3>1, <3>2
      <3>4. QED
        BY <3>1, <3>3
    <2>5. CASE Copies(r)
      <3>1. row'.mark = row.mark
        BY <2>5 DEF Copies, TypeOK, Rows
      <3>2. QED
        BY <1>5, <2>5, <3>1 DEF Copies
    <2>6. CASE Deletes(r)
      BY <1>3, <2>6 DEF Deletes, Vanish, NoSession, Session, Exists
    <2>7. QED
      BY <1>8, <2>1, <2>2, <2>3, <2>4, <2>5, <2>6, Zenon DEF Alters
  <1>9. QED
    <2>1. CASE \E r \in Requests : Alters(r)
      BY <1>2, <1>8, <2>1 DEF Carried, Keeps, ReadsNow, Bears
    <2>2. QED
      BY <1>1, <1>6, <2>1

-----------------------------------------------------------------------------
(* Messages *)

LEMMA MessagesStep ==
  ASSUME TypeOK, Control, MessagesHaveSession, [Next]_vars
  PROVE  MessagesHaveSession'
  <1> USE DEF MessagesHaveSession
  <1>1. CASE Unaltered
    BY <1>1 DEF Unaltered, Exists
  <1>2. ASSUME NEW r \in Requests, Alters(r) PROVE MessagesHaveSession'
    <2>1. CASE Inserts(r)
      BY <2>1 DEF Inserts
    <2>2. CASE Stores(r)
      BY <2>2 DEF Stores, Exists
    <2>3. CASE Renames(r)
      BY <2>3 DEF Renames, Rename, Exists
    <2>4. CASE Marks(r)
      BY <2>4 DEF Marks, Mark, Exists
    <2>5. CASE Copies(r)
      BY <2>5 DEF Copies, Exists, TypeOK, Rows
    <2>6. CASE Deletes(r)
      BY <2>6 DEF Deletes, Vanish
    <2>7. QED
      BY <1>2, <2>1, <2>2, <2>3, <2>4, <2>5, <2>6, Zenon DEF Alters
  <1>3. QED
    BY <1>1, <1>2, RowStep

-----------------------------------------------------------------------------
(* Answers and log entries *)

Deleted == \E d \in effective : op[d] = "delete"

SaidKept ==
  /\ ~Exists /\ births > 0 => Deleted
  /\ Deleted /\ Exists => births > 1
  /\ \A s \in Requests \ effective :
       /\ pc[s] = "refresh" => Deleted /\ op[s] \in {"rename", "mark"}
       /\ pc[s] \notin {"inserted", "first"}
  /\ SaidIsDone

(* How a request comes to these steps, and to have said that something was done. *)
Moved(s) ==
  /\ pc'[s] = "refresh"
     => \/ pc[s] = "refresh" \/ s \in effective'
        \/ pc[s] = "write" /\ ~Exists /\ births > 0 /\ op[s] \in {"rename", "mark"}
  /\ pc'[s] \in {"inserted", "first"} => pc[s] \in {"inserted", "first"} \/ s \in effective'
  /\ s \in Said'
     => \/ s \in Said \/ s \in effective' \/ pc[s] = "inserted"
        \/ pc[s] = "refresh" /\ Exists
        \/ pc[s] = "erase" /\ op[s] = "delete" /\ ~Exists /\ births > 0

AllMoved == \A s \in Requests : Moved(s)

LEMMA MovedByOthers ==
  ASSUME TypeOK, NEW r \in Requests, NEW from, NEW a, Goto(r, from, a),
         op' = op \/ \E o : op' = [op EXCEPT ![r] = o],
         \A e \in log' : e \in log \/ e.by = r,
         Moved(r)
  PROVE  AllMoved
  <1>1. ASSUME NEW s \in Requests \ {r} PROVE Moved(s)
    <2>1. pc'[s] = pc[s] /\ op'[s] = op[s]
      BY DEF Goto, TypeOK
    <2>2. s \in Said' => s \in Said
      BY <2>1 DEF Said
    <2>3. QED
      BY <2>1, <2>2 DEF Moved
  <1>2. QED
    BY <1>1 DEF AllMoved

(* A step that says nothing. *)
LEMMA MovedSilently ==
  ASSUME TypeOK, NEW r \in Requests, NEW from, NEW a, Goto(r, from, a),
         a \notin {"refresh", "inserted", "first"},
         a = "ok" => op[r] \in {"show", "messages"},
         op' = op, log' = log
  PROVE  AllMoved
  <1>1. pc'[r] = a /\ op'[r] = op[r]
    BY DEF Goto, TypeOK
  <1>2. r \in Said' => r \in Said
    BY <1>1 DEF Said
  <1>3. Moved(r)
    BY <1>1, <1>2 DEF Moved
  <1>4. QED
    BY <1>3, MovedByOthers

LEMMA MovedByFailing ==
  ASSUME TypeOK, NEW r \in Requests, NEW from, Finish(r, from, "error")
  PROVE  AllMoved
  BY MovedSilently DEF Finish

LEMMA MovedStep ==
  ASSUME TypeOK, Control, [Next]_vars
  PROVE  AllMoved
  <1>0. \A r \in Requests :
          /\ pc[r] \in {"write", "erase"} => births > 0
          /\ pc[r] = "erase" => op[r] = "delete"
          /\ pc[r] \in {"reply", "spoiled"} => op[r] \in {"show", "messages"}
    BY DEF Control, KindsFit, NothingBefore
  <1>1. ASSUME NEW r \in Requests, Receive(r) PROVE AllMoved
    <2>1. \E a \in {"read", "insert"} : Goto(r, "idle", a)
      BY <1>1 DEF Receive
    <2>2. log' = log /\ \E o : op' = [op EXCEPT ![r] = o]
      BY <1>1 DEF Receive
    <2>3. pc'[r] \in {"read", "insert"}
      BY <2>1 DEF Goto, TypeOK
    <2>4. r \in Said' => r \in Said
      BY <2>2, <2>3 DEF Said
    <2>5. Moved(r)
      BY <2>3, <2>4 DEF Moved
    <2>6. QED
      BY <2>1, <2>2, <2>5, MovedByOthers
  <1>2. ASSUME NEW r \in Requests, NEW o, NEW to \in {"write", "load", "agno"}, Read(r, o, to)
        PROVE  AllMoved
    <2>1. CASE Goto(r, "read", to) /\ UNCHANGED <<op, log>>
      BY <2>1, MovedSilently
    <2>2. CASE Finish(r, "read", "error")
      BY <2>2, MovedByFailing
    <2>3. CASE Goto(r, "read", "ask") /\ UNCHANGED <<op, log>>
      BY <2>3, MovedSilently
    <2>4. QED
      BY <1>2, <2>1, <2>2, <2>3 DEF Read, local
  <1>3. ASSUME NEW r \in Requests, Reads(r) PROVE AllMoved
    BY <1>2, <1>3 DEF Reads, ReadForRename, ReadForMark, ReadForSend, ReadForDelete,
                      ReadForShow, ReadForMessages
  <1>4. ASSUME NEW r \in Requests, InsertSession(r) PROVE AllMoved
    <2>1. Goto(r, "insert", "inserted") /\ r \in effective' /\ UNCHANGED <<op, log>>
      BY <1>4 DEF InsertSession, Insert, local
    <2>2. Moved(r)
      BY <2>1 DEF Moved, Goto, TypeOK
    <2>3. QED
      BY <2>1, <2>2, MovedByOthers
  <1>5. ASSUME NEW r \in Requests, AfterInsert(r) PROVE AllMoved
    <2>1. CASE Finish(r, "inserted", "error")
      BY <2>1, MovedByFailing
    <2>2. CASE ~Finish(r, "inserted", "error")
      <3>1. /\ \E a \in {"first", "ok"} : Goto(r, "inserted", a)
            /\ LogCreated(r) /\ op' = op
        BY <1>5, <2>2 DEF AfterInsert, local
      <3>2. \A e \in log' : e \in log \/ e.by = r
        BY <3>1 DEF LogCreated, Schedule
      <3>3. pc[r] = "inserted" /\ pc'[r] \in {"first", "ok"}
        BY <3>1 DEF Goto, TypeOK
      <3>4. Moved(r)
        BY <3>3 DEF Moved
      <3>5. QED
        BY <3>1, <3>2, <3>4, MovedByOthers
    <2>3. QED
      BY <2>1, <2>2
  <1>6. ASSUME NEW r \in Requests, FirstMessage(r) \/ SendMessage(r) PROVE AllMoved
    <2>1. ASSUME NEW from, StoreMessage(r, from) PROVE AllMoved
      <3>1. CASE Finish(r, from, "error")
        BY <3>1, MovedByFailing
      <3>2. CASE ~Finish(r, from, "error")
        <4>1. Goto(r, from, "refresh") /\ r \in effective' /\ UNCHANGED <<op, log>>
          BY <2>1, <3>2 DEF StoreMessage, local
        <4>2. Moved(r)
          BY <4>1 DEF Moved, Goto, TypeOK
        <4>3. QED
          BY <4>1, <4>2, MovedByOthers
      <3>3. QED
        BY <3>1, <3>2
    <2>2. QED
      BY <1>6, <2>1 DEF FirstMessage, SendMessage
  <1>7. ASSUME NEW r \in Requests, Rename(r) \/ Mark(r) PROVE AllMoved
    <2>1. /\ Goto(r, "write", "refresh") /\ op[r] \in {"rename", "mark"}
          /\ UNCHANGED <<op, log>> /\ (~Exists \/ r \in effective')
      BY <1>7 DEF Rename, Mark
    <2>2. pc[r] = "write" /\ pc'[r] = "refresh" /\ births > 0
      BY <1>0, <2>1 DEF Goto, TypeOK
    <2>3. r \in Said' => r \in Said
      BY <2>1, <2>2 DEF Said
    <2>4. Moved(r)
      BY <2>1, <2>2, <2>3 DEF Moved
    <2>5. QED
      BY <2>1, <2>4, MovedByOthers
  <1>8. ASSUME NEW r \in Requests, Refresh(r) PROVE AllMoved
    <2>1. CASE Finish(r, "refresh", "error")
      BY <2>1, MovedByFailing
    <2>2. CASE ~Finish(r, "refresh", "error")
      <3>1. /\ Exists /\ Goto(r, "refresh", "ok") /\ op' = op
            /\ LogRenamed(r) \/ LogMarked(r) \/ LogMessage(r)
        BY <1>8, <2>2 DEF Refresh, local
      <3>2. \A e \in log' : e \in log \/ e.by = r
        BY <3>1 DEF LogRenamed, LogMarked, LogMessage, Schedule
      <3>3. pc[r] = "refresh" /\ pc'[r] = "ok"
        BY <3>1 DEF Goto, TypeOK
      <3>4. Moved(r)
        BY <3>1, <3>3 DEF Moved
      <3>5. QED
        BY <3>1, <3>2, <3>4, MovedByOthers
    <2>3. QED
      BY <2>1, <2>2
  <1>9. ASSUME NEW r \in Requests, LoadMessages(r) PROVE AllMoved
    BY <1>9, MovedSilently DEF LoadMessages
  <1>10. ASSUME NEW r \in Requests, Delete(r) PROVE AllMoved
    <2>1. CASE Finish(r, "erase", "error")
      BY <2>1, MovedByFailing
    <2>2. CASE ~Finish(r, "erase", "error")
      <3>1. /\ Goto(r, "erase", "ok") /\ op' = op /\ LogDeleted(r)
            /\ ~Exists \/ r \in effective'
        BY <1>10, <2>2 DEF Delete, local
      <3>2. \A e \in log' : e \in log \/ e.by = r
        BY <3>1 DEF LogDeleted, Schedule
      <3>3. pc[r] = "erase" /\ pc'[r] = "ok"
        BY <3>1 DEF Goto, TypeOK
      <3>4. Moved(r)
        BY <1>0, <3>1, <3>3 DEF Moved
      <3>5. QED
        BY <3>1, <3>2, <3>4, MovedByOthers
    <2>3. QED
      BY <2>1, <2>2
  <1>11. ASSUME NEW r \in Requests, QueryAgno(r) PROVE AllMoved
    <2>1. (\E a \in {"title", "reply"} : Goto(r, "agno", a)) /\ UNCHANGED <<op, log>>
      BY <1>11 DEF QueryAgno, local
    <2>2. QED
      BY <2>1, MovedSilently
  <1>12. ASSUME NEW r \in Requests, CopyTitle(r) \/ CopyFails(r) PROVE AllMoved
    <2>1. (\E a \in {"reply", "spoiled"} : Goto(r, "title", a)) /\ UNCHANGED <<op, log>>
      BY <1>12 DEF CopyTitle, CopyFails, local
    <2>2. QED
      BY <2>1, MovedSilently
  <1>13. ASSUME NEW r \in Requests, AskAgno(r) PROVE AllMoved
    <2>1. CASE Finish(r, "ask", "error")
      BY <2>1, MovedByFailing
    <2>2. CASE Goto(r, "ask", "recreate") /\ UNCHANGED <<op, log>>
      BY <2>2, MovedSilently
    <2>3. QED
      BY <1>13, <2>1, <2>2 DEF AskAgno, local
  <1>14. ASSUME NEW r \in Requests, Recreate(r) PROVE AllMoved
    <2>1. (\E a \in {"agno", "spoiled"} : Goto(r, "recreate", a)) /\ UNCHANGED <<op, log>>
      BY <1>14 DEF Recreate, local
    <2>2. QED
      BY <2>1, MovedSilently
  <1>15. ASSUME NEW r \in Requests, Reply(r) \/ ReplySpoiled(r) PROVE AllMoved
    <2>1. CASE Finish(r, "spoiled", "error")
      BY <2>1, MovedByFailing
    <2>2. ASSUME NEW from \in {"reply", "spoiled"}, Finish(r, from, "ok") PROVE AllMoved
      <3>1. Goto(r, from, "ok") /\ UNCHANGED <<op, log>> /\ op[r] \in {"show", "messages"}
        BY <1>0, <2>2 DEF Finish, Goto
      <3>2. QED
        BY <3>1, MovedSilently
    <2>3. QED
      BY <1>15, <2>1, <2>2 DEF Reply, ReplySpoiled
  <1>16. ASSUME NEW r \in Requests, Refuse(r) \/ StatementFails(r) PROVE AllMoved
    BY <1>16, MovedByFailing DEF Refuse, StatementFails
  <1>17. ASSUME AgnoTakesSession \/ UNCHANGED vars PROVE AllMoved
    <2>1. UNCHANGED <<pc, op, log>>
      BY <1>17 DEF AgnoTakesSession, vars, local
    <2>2. QED
      BY <2>1 DEF AllMoved, Moved, Said
  <1>18. QED
    BY <1>1, <1>3, <1>4, <1>5, <1>6, <1>7, <1>8, <1>9, <1>10, <1>11, <1>12, <1>13, <1>14,
       <1>15, <1>16, <1>17, Zenon DEF Next, Work, Writes

LEMMA DeletedStep ==
  ASSUME TypeOK, Control, SaidKept, [Next]_vars
  PROVE  /\ effective \subseteq effective' /\ births' >= births
         /\ Deleted => Deleted'
         /\ ~Exists' /\ births' > 0 => Deleted'
         /\ Deleted' /\ Exists' => births' > 1
  <1> DEFINE Grows(r) == /\ effective' = effective \union {r} /\ births' \in Nat
                         /\ births' >= births /\ op[r] # "delete"
                         /\ Exists' /\ (Exists \/ births' > births)
             Goal == /\ effective \subseteq effective' /\ births' >= births
                     /\ ~Exists' /\ births' > 0 => Deleted'
                     /\ Deleted' /\ Exists' => births' > 1
  <1>1. births \in Nat /\ (Deleted => births > 0)
    BY DEF TypeOK, Control, NothingBefore, Deleted
  <1>2. \A r \in effective : op'[r] = op[r]
    BY OperationsStay DEF Control, DoneIsReceived, TypeOK
  <1>3. effective \subseteq effective' /\ Deleted => Deleted'
    BY <1>2 DEF Deleted
  <1>4. CASE Unaltered
    <2>1. UNCHANGED <<row, births, effective>>
      BY <1>4 DEF Unaltered, history
    <2>2. Deleted' => Deleted
      BY <1>2, <2>1 DEF Deleted
    <2>3. Goal
      BY <1>1, <1>3, <2>1, <2>2 DEF SaidKept, Exists
    <2>4. QED
      BY <1>3, <2>3
  <1>5. ASSUME NEW r \in Requests, Grows(r), pc[r] # "idle" PROVE Goal
    <2>1. op'[r] = op[r]
      BY <1>5, OperationsStay
    <2>2. Deleted' => Deleted
      BY <1>2, <1>5, <2>1 DEF Deleted
    <2>3. QED
      BY <1>1, <1>3, <1>5, <2>2 DEF SaidKept
  <1>6. ASSUME NEW r \in Requests, Alters(r) PROVE Goal
    <2>1. CASE Inserts(r)
      <3>1. (\E title \in {Created, Minimal} : row' = Session(title))
            /\ births' = births + 1 /\ effective' = effective \union {r}
        BY <2>1 DEF Inserts, Insert
      <3>2. Exists'
        BY <3>1 DEF Session, Exists
      <3>3. op[r] # "delete" /\ pc[r] # "idle"
        BY <2>1 DEF Inserts, Control, KindsFit
      <3>4. QED
        BY <1>1, <1>5, <3>1, <3>2, <3>3
    <2>2. CASE Stores(r)
      BY <1>1, <1>5, <2>2 DEF Stores, Exists
    <2>3. CASE Renames(r)
      <3>1. /\ Exists' /\ Exists /\ births' = births /\ effective' = effective \union {r}
            /\ op[r] = "rename" /\ pc[r] = "write"
        BY <2>3 DEF Renames, Rename, Exists, Goto
      <3>2. QED
        BY <1>1, <1>5, <3>1
    <2>4. CASE Marks(r)
      <3>1. /\ Exists' /\ Exists /\ births' = births /\ effective' = effective \union {r}
            /\ op[r] = "mark" /\ pc[r] = "write"
        BY <2>4 DEF Marks, Mark, Exists, Goto
      <3>2. QED
        BY <1>1, <1>5, <3>1
    <2>5. CASE Copies(r)
      <3>1. /\ Exists' /\ Exists /\ births' = births /\ effective' = effective \union {r}
            /\ pc[r] = "title"
        BY <2>5 DEF Copies, Exists, TypeOK, Rows
      <3>2. op[r] # "delete"
        BY <3>1 DEF Control, KindsFit
      <3>3. QED
        BY <1>1, <1>5, <3>1, <3>2
    <2>6. CASE Deletes(r)
      <3>1. ~Exists' /\ births' = births /\ effective' = effective \union {r}
        BY <2>6 DEF Deletes, Vanish, Exists, NoSession, Session
      <3>2. op'[r] = "delete"
        BY <2>6, OperationsStay DEF Deletes
      <3>3. QED
        BY <1>1, <3>1, <3>2 DEF Deleted
    <2>7. QED
      BY <1>6, <2>1, <2>2, <2>3, <2>4, <2>5, <2>6, Zenon DEF Alters
  <1>7. QED
    BY <1>3, <1>4, <1>6, RowStep

LEMMA SaidStep ==
  ASSUME TypeOK, TypeOK', Control, SaidKept, [Next]_vars
  PROVE  SaidKept'
  <1>1. AllMoved
    BY MovedStep
  <1>2. /\ effective \subseteq effective' /\ births' >= births
        /\ Deleted => Deleted'
        /\ ~Exists' /\ births' > 0 => Deleted'
        /\ Deleted' /\ Exists' => births' > 1
    BY DeletedStep
  <1>3. births \in Nat /\ births' \in Nat
    BY DEF TypeOK
  <1>4. ASSUME NEW s \in Requests \ effective', pc'[s] = "refresh"
        PROVE  Deleted' /\ op'[s] \in {"rename", "mark"}
    <2>1. \/ pc[s] = "refresh"
          \/ pc[s] = "write" /\ ~Exists /\ births > 0 /\ op[s] \in {"rename", "mark"}
      BY <1>1, <1>4 DEF AllMoved, Moved
    <2>2. Deleted /\ op[s] \in {"rename", "mark"}
      BY <1>2, <1>4, <2>1 DEF SaidKept
    <2>3. op'[s] = op[s]
      BY <2>1, OperationsStay
    <2>4. QED
      BY <1>2, <2>2, <2>3
  <1>5. ASSUME NEW s \in Requests \ effective' PROVE pc'[s] \notin {"inserted", "first"}
    BY <1>1, <1>2, <1>5 DEF AllMoved, Moved, SaidKept
  <1>6. ASSUME NEW s \in Said' \ effective'
        PROVE  Deleted' /\ (op'[s] = "delete" \/ births' > 1)
    <2>1. s \in Requests /\ s \notin effective
      BY <1>2, <1>6 DEF Said, TypeOK, Entries
    <2>2. \/ s \in Said
          \/ pc[s] = "refresh" /\ Exists
          \/ pc[s] = "erase" /\ op[s] = "delete" /\ ~Exists /\ births > 0
      BY <1>1, <1>6, <2>1 DEF AllMoved, Moved, SaidKept
    <2>3. Deleted /\ (op[s] = "delete" \/ births > 1)
      BY <2>1, <2>2 DEF SaidKept, SaidIsDone, Deleted
    <2>4. pc[s] # "idle"
      <3>1. CASE s \in Said
        BY <3>1 DEF Said, Control, DoneIsReceived
      <3>2. CASE s \notin Said
        BY <2>2, <3>2
      <3>3. QED
        BY <3>1, <3>2
    <2>5. op'[s] = op[s]
      BY <2>1, <2>4, OperationsStay
    <2>6. QED
      BY <1>2, <1>3, <2>3, <2>5
  <1>7. SaidIsDone'
    BY <1>6 DEF SaidIsDone, Deleted
  <1>8. QED
    BY <1>2, <1>4, <1>5, <1>7 DEF SaidKept

-----------------------------------------------------------------------------
(* Theorems *)

Inductive ==
  TypeOK /\ Control /\ MessagesHaveSession /\ RenameKept /\ MarkKept /\ SaidKept

LEMMA InitInductive == Init => Inductive
  <1> SUFFICES ASSUME Init PROVE Inductive
    OBVIOUS
  <1>1. TypeOK /\ Control
    BY InitControl
  <1>2. row.mark = Nobody
    BY DEF Init, NoSession, Session
  <1>3. MessagesHaveSession /\ RenameKept /\ MarkKept
    BY <1>2 DEF Init, MessagesHaveSession, RenameKept, MarkKept, Bears
  <1>4. ~Exists => births = 0
    BY DEF Init, Exists, Session
  <1>5. Said = {} /\ ~Deleted
    BY DEF Init, Said, Deleted
  <1>6. SaidKept
    BY <1>4, <1>5 DEF Init, SaidKept, SaidIsDone
  <1>7. QED
    BY <1>1, <1>3, <1>6 DEF Inductive

LEMMA InductiveStep == Inductive /\ [Next]_vars => Inductive'
  BY TypeStep, ControlStep, MessagesStep, RenameStep, MarkStep, SaidStep DEF Inductive

LEMMA AlwaysInductive == Spec => []Inductive
  BY InitInductive, InductiveStep, PTL DEF Spec

(* Every variable has its type: a row is whole, a log entry one of the five events. *)
THEOREM TypeCorrect == Spec => []TypeOK
  BY AlwaysInductive, PTL DEF Inductive

(* No message is stored of a session that is gone, however sends, deletions and *)
(* new rows follow each other: delete_chat_session_by_session_id removes only   *)
(* what it has read, and the foreign key keeps the session if that was not all. *)
THEOREM MessagesHaveSessionHolds == Spec => []MessagesHaveSession
  BY AlwaysInductive, PTL DEF Inductive

(* A title given by update_chat_session_title is replaced only by a request    *)
(* that had read the session before that rename and has written after it:      *)
(* among any number of renames, marks and copies of AGNO's title there is no   *)
(* other way.                                                                  *)
THEOREM RenameLostOnlyByOverlapHolds == Spec => []RenameLostOnlyByOverlap
  <1>1. Inductive => RenameLostOnlyByOverlap
    BY DEF Inductive, RenameKept, RenameLostOnlyByOverlap, Overtaken
  <1>2. QED
    BY <1>1, AlwaysInductive, PTL

(* A favourite mark set by mark_chat_session_favourite is lost, or given to     *)
(* another row, only by a rename that had read the session before that mark, or *)
(* before the row was inserted.                                                 *)
THEOREM MarkLostOnlyByOverlapHolds == Spec => []MarkLostOnlyByOverlap
  <1>1. Inductive => MarkLostOnlyByOverlap
    BY DEF Inductive, MarkKept, MarkLostOnlyByOverlap, Undone
  <1>2. QED
    BY <1>1, AlwaysInductive, PTL

(* A success answer, or an entry of the user's log, of a request whose write    *)
(* found no row is one that a deletion came before; and unless it is a deletion *)
(* itself, the session has been made anew since.                                *)
THEOREM SaidIsDoneHolds == Spec => []SaidIsDone
  <1>1. Inductive => SaidIsDone
    BY DEF Inductive, SaidKept
  <1>2. QED
    BY <1>1, AlwaysInductive, PTL
=============================================================================
