----------------------------- MODULE ChatSession -----------------------------
(***************************************************************************)
(* The requests that create, rename, mark, show and delete one chat        *)
(* session (routes/chat.py), the user's log of them                        *)
(* (monitoring/chat_cosmos_logger.py), and AGNO, which gives the session a *)
(* title of its own and keeps its own copy of it.                          *)
(*                                                                         *)
(* A handler reads the row, and in a later statement writes what it made   *)
(* of it: the new title, or the whole column session_metadata, where the   *)
(* flag of a manual rename and the favourite mark live side by side.       *)
(* Nothing locks the row in between.  Showing a session copies AGNO's      *)
(* title into the row unless the flag says the user has renamed it.        *)
(*                                                                         *)
(* Each transaction here writes one session (and its messages) and         *)
(* nothing that others lock in another order, so its statements and its    *)
(* commit are one step; what it read before is kept in snap[r].            *)
(* The user's log is written by tasks nobody waits for.                    *)
(***************************************************************************)
EXTENDS Integers

CONSTANTS
  Requests,   \* requests about the session
  Nobody,     \* no request
  Absent,     \* the title of a session that does not exist
  Created,    \* the title a session is created with
  Minimal,    \* "Chat Session", the title of a row made from AGNO's copy
  Agno        \* the title AGNO has given it

ASSUME TitlesAssumption ==
  /\ Nobody \notin Requests
  /\ Absent \notin {Created, Minimal, Agno}
  /\ {Absent, Created, Minimal, Agno} \intersect Requests = {}

VARIABLES
  row,        \* the session's committed row
  births,     \* how often the row has been inserted
  messages,   \* whose messages are stored in the session
  agno,       \* AGNO has the session, and a title for it
  pc,         \* pc[r]: the next step of r
  op,         \* op[r]: what r is asked to do
  snap,       \* snap[r]: the row as r has read it
  seen,       \* seen[r]: the messages the deletion r has read
  log,        \* entries of the user's log, each written by a task nobody waits for
  effective,  \* history: the requests whose write found the row
  lastRename, \* history: the last rename of this row
  lastMark,   \* history: the last request that marked this row
  metRename,  \* history: who had read the row, and not yet written, at that rename
  metMark     \* history: the same for the mark, or the insertion of the row

data    == <<row, births, messages, agno>>
local   == <<op, snap, seen>>
history == <<effective, lastRename, lastMark, metRename, metMark>>
vars == <<data, pc, local, log, history>>

Operations == {"create", "rename", "mark", "delete", "show", "messages", "send"}

(* A rename writes its own title; a mark is known by the request that set it. *)
Titles == Requests \union {Absent, Created, Minimal, Agno}

Session(title) == [title |-> title, renamed |-> FALSE, mark |-> Nobody]

NoSession == Session(Absent)

Rows == [title : Titles, renamed : BOOLEAN, mark : Requests \union {Nobody}]

Exists == row.title # Absent

(* Who has read the row and may still write it. *)
Holding(r) == pc[r] \in {"write", "load", "erase", "title"}
Holders(r) == {s \in Requests \ {r} : Holding(s) \/ pc[s] = "agno"}

Entries == [by : Requests, event : {"created", "message", "renamed", "marked", "deleted"}]

Init ==
  /\ row \in {NoSession, Session(Created)}
  /\ births = IF row = NoSession THEN 0 ELSE 1
  /\ messages = {}
  /\ agno = FALSE
  /\ pc = [r \in Requests |-> "idle"]
  /\ op = [r \in Requests |-> "show"]
  /\ snap = [r \in Requests |-> NoSession]
  /\ seen = [r \in Requests |-> {}]
  /\ log = {}
  /\ effective = {}
  /\ lastRename = Nobody
  /\ lastMark = Nobody
  /\ metRename = {}
  /\ metMark = {}

Goto(r, from, to) ==
  /\ pc[r] = from
  /\ pc' = [pc EXCEPT ![r] = to]

Forget(r) == snap' = [snap EXCEPT ![r] = NoSession]

(* The handler ends with an answer, and has changed nothing in this step. *)
Finish(r, from, a) ==
  /\ Goto(r, from, a)
  /\ Forget(r)
  /\ seen' = [seen EXCEPT ![r] = {}]
  /\ UNCHANGED <<data, op, log, history>>

(* A row is inserted: what was done to an earlier one no longer counts, but who has *)
(* read that one may still write.                                                   *)
Insert(r, title) ==
  /\ row' = Session(title)
  /\ births' = births + 1
  /\ effective' = effective \union {r}
  /\ lastRename' = Nobody
  /\ lastMark' = Nobody
  /\ metRename' = {}
  /\ metMark' = Holders(r)

-----------------------------------------------------------------------------
(* The row is read: the first statement of every handler but create, whose session has *)
(* an identifier nobody knows yet.                                                      *)
Receive(r) ==
  /\ \/ Goto(r, "idle", "read") /\ \E o \in Operations \ {"create"} : op' = [op EXCEPT ![r] = o]
     \/ /\ births = 0 /\ ~agno /\ \A s \in Requests : op[s] # "create"
        /\ Goto(r, "idle", "insert") /\ op' = [op EXCEPT ![r] = "create"]
  /\ UNCHANGED <<data, snap, seen, log, history>>

(* The limiter, or a title or message that is empty or too long. *)
Refuse(r) == pc[r] \in {"read", "insert"} /\ Finish(r, pc[r], "error")

Read(r, o, to) ==
  /\ op[r] = o
  /\ \/ /\ Exists
        /\ Goto(r, "read", to)
        /\ snap' = [snap EXCEPT ![r] = row]
        /\ UNCHANGED <<data, op, seen, log, history>>
     \/ ~Exists /\ o # "messages" /\ Finish(r, "read", "error")
     \/ /\ ~Exists /\ o = "messages"
        /\ Goto(r, "read", "ask")
        /\ UNCHANGED <<data, local, log, history>>

ReadForRename(r)   == Read(r, "rename", "write")
ReadForMark(r)     == Read(r, "mark", "write")
ReadForSend(r)     == Read(r, "send", "write")
ReadForDelete(r)   == Read(r, "delete", "load")
ReadForShow(r)     == Read(r, "show", "agno")
ReadForMessages(r) == Read(r, "messages", "agno")

-----------------------------------------------------------------------------
(* create *)

InsertSession(r) ==
  /\ Goto(r, "insert", "inserted")
  /\ Insert(r, Created)
  /\ UNCHANGED <<messages, agno, local, log>>

Schedule(r, event) == log' = log \union {[by |-> r, event |-> event]}

LogCreated(r) == Schedule(r, "created")

(* refresh of the row, its log entry, and then the first message if there is one. *)
AfterInsert(r) ==
  \/ /\ Exists
     /\ \/ Goto(r, "inserted", "first")
        \/ Goto(r, "inserted", "ok")
     /\ LogCreated(r)
     /\ UNCHANGED <<data, local, history>>
  \/ ~Exists /\ Finish(r, "inserted", "error")

(* A message is stored: its foreign key fails if the session is gone. *)
StoreMessage(r, from) ==
  \/ /\ Exists
     /\ Goto(r, from, "refresh")
     /\ messages' = messages \union {r}
     /\ effective' = effective \union {r}
     /\ UNCHANGED <<row, births, agno, local, log, lastRename, lastMark, metRename, metMark>>
  \/ ~Exists /\ Finish(r, from, "error")

FirstMessage(r) == StoreMessage(r, "first")

SendMessage(r) == op[r] = "send" /\ StoreMessage(r, "write")

-----------------------------------------------------------------------------
(* rename and mark: an UPDATE that matches no row is no error. *)

RenameOnlyTitle(r) ==   \* faulty: the flag is not set
  /\ op[r] = "rename"
  /\ Goto(r, "write", "refresh")
  /\ \/ /\ Exists
        /\ row' = [title |-> r, renamed |-> row.renamed, mark |-> snap[r].mark]
        /\ effective' = effective \union {r}
        /\ lastRename' = r
        /\ metRename' = Holders(r)
     \/ ~Exists /\ UNCHANGED <<row, effective, lastRename, metRename>>
  /\ Forget(r)
  /\ UNCHANGED <<births, messages, agno, op, seen, log, lastMark, metMark>>

Rename(r) ==
  /\ op[r] = "rename"
  /\ Goto(r, "write", "refresh")
  /\ \/ /\ Exists
        /\ row' = [title |-> r, renamed |-> TRUE, mark |-> snap[r].mark]
        /\ effective' = effective \union {r}
        /\ lastRename' = r
        /\ metRename' = Holders(r)
     \/ ~Exists /\ UNCHANGED <<row, effective, lastRename, metRename>>
  /\ Forget(r)
  /\ UNCHANGED <<births, messages, agno, op, seen, log, lastMark, metMark>>

Mark(r) ==
  /\ op[r] = "mark"
  /\ Goto(r, "write", "refresh")
  /\ \/ /\ Exists
        /\ row' = [title |-> row.title, renamed |-> snap[r].renamed, mark |-> r]
        /\ effective' = effective \union {r}
        /\ lastMark' = r
        /\ metMark' = Holders(r)
     \/ ~Exists /\ UNCHANGED <<row, effective, lastMark, metMark>>
  /\ Forget(r)
  /\ UNCHANGED <<births, messages, agno, op, seen, log, lastRename, metRename>>

LogRenamed(r) == op[r] = "rename" /\ Schedule(r, "renamed")
LogMarked(r)  == op[r] = "mark" /\ Schedule(r, "marked")
LogMessage(r) == op[r] \in {"create", "send"} /\ Schedule(r, "message")

RefreshUnchecked(r) ==   \* faulty: answers from the object in memory
  /\ Goto(r, "refresh", "ok")
  /\ LogRenamed(r) \/ LogMarked(r) \/ LogMessage(r)
  /\ UNCHANGED <<data, local, history>>

(* refresh: an error if the row is gone.  The log entry, and the answer. *)
Refresh(r) ==
  \/ /\ Exists
     /\ Goto(r, "refresh", "ok")
     /\ LogRenamed(r) \/ LogMarked(r) \/ LogMessage(r)
     /\ UNCHANGED <<data, local, history>>
  \/ ~Exists /\ Finish(r, "refresh", "error")

-----------------------------------------------------------------------------
(* delete: the messages are read, then deleted one by one, and the session. *)

LoadMessages(r) ==
  /\ Goto(r, "load", "erase")
  /\ seen' = [seen EXCEPT ![r] = messages]
  /\ UNCHANGED <<data, op, snap, log, history>>

LogDeleted(r) == Schedule(r, "deleted")

Vanish(left) ==
  /\ row' = NoSession
  /\ messages' = left
  /\ lastRename' = Nobody
  /\ lastMark' = Nobody
  /\ metRename' = {}
  /\ metMark' = {}

DeleteFirst(r) ==   \* faulty: the messages stored since stay behind
  /\ Goto(r, "erase", "ok")
  /\ Vanish(messages \ seen[r])
  /\ effective' = effective \union {r}
  /\ LogDeleted(r)
  /\ UNCHANGED <<births, agno, local>>

(* A message stored since keeps the session by its foreign key.  A row that *)
(* another request has deleted is no error.                                 *)
Delete(r) ==
  \/ /\ Exists /\ messages \subseteq seen[r]
     /\ Goto(r, "erase", "ok")
     /\ Vanish({})
     /\ effective' = effective \union {r}
     /\ LogDeleted(r)
     /\ UNCHANGED <<births, agno, local>>
  \/ /\ ~Exists
     /\ Goto(r, "erase", "ok")
     /\ LogDeleted(r)
     /\ UNCHANGED <<data, local, history>>
  \/ Exists /\ ~(messages \subseteq seen[r]) /\ Finish(r, "erase", "error")

-----------------------------------------------------------------------------
(* show and messages: AGNO's title is copied. *)

(* The query of agno_sessions, by an identifier that may not be the one AGNO used. *)
QueryAgno(r) ==
  /\ \/ agno /\ ~snap[r].renamed /\ snap[r].title # Agno /\ Goto(r, "agno", "title")
     \/ Goto(r, "agno", "reply")
  /\ UNCHANGED <<data, local, log, history>>

CopyEmptyTitle(r) ==   \* faulty: AGNO's title is copied before it has one
  /\ Goto(r, "title", "reply")
  /\ row' = [row EXCEPT !.title = Nobody]
  /\ UNCHANGED <<births, messages, agno, local, log, history>>

CopyRow(r) ==   \* faulty: the whole row is written back as it was read
  /\ Exists
  /\ Goto(r, "title", "reply")
  /\ row' = [snap[r] EXCEPT !.title = Agno]
  /\ effective' = effective \union {r}
  /\ UNCHANGED <<births, messages, agno, local, log, lastRename, lastMark, metRename, metMark>>

(* The UPDATE of the title alone; StaleDataError if the row is gone. *)
CopyTitle(r) ==
  \/ /\ Exists
     /\ Goto(r, "title", "reply")
     /\ row' = [row EXCEPT !.title = Agno]
     /\ effective' = effective \union {r}
     /\ UNCHANGED <<births, messages, agno, local, log, lastRename, lastMark, metRename, metMark>>
  \/ /\ ~Exists
     /\ Goto(r, "title", "spoiled")
     /\ UNCHANGED <<data, local, log, history>>

Reply(r) == Finish(r, "reply", "ok")

(* The rollback has expired the row, whose attributes can no longer be read: *)
(* the list of messages may still be answered without them.                  *)
ReplySpoiled(r) ==
  \/ Finish(r, "spoiled", "error")
  \/ op[r] = "messages" /\ Finish(r, "spoiled", "ok")

(* messages, for a session that is not there: does AGNO have it? *)
AskAgno(r) ==
  \/ ~agno /\ Finish(r, "ask", "error")
  \/ /\ agno
     /\ Goto(r, "ask", "recreate")
     /\ UNCHANGED <<data, local, log, history>>

(* A row is made from AGNO's copy; another request may have been faster. *)
Recreate(r) ==
  \/ /\ ~Exists
     /\ Goto(r, "recreate", "agno")
     /\ Insert(r, Minimal)
     /\ snap' = [snap EXCEPT ![r] = Session(Minimal)]
     /\ UNCHANGED <<messages, agno, op, seen, log>>
  \/ /\ Exists
     /\ Goto(r, "recreate", "spoiled")
     /\ UNCHANGED <<data, local, log, history>>

-----------------------------------------------------------------------------
(* The environment *)

(* A session of the table, or one that AGNO alone has ever had. *)
AgnoTakesSession ==
  /\ ~agno
  /\ births > 0 \/ \A r \in Requests : op[r] # "create"
  /\ agno' = TRUE
  /\ UNCHANGED <<row, births, messages, pc, local, log, history>>

Underway(r) == pc[r] \notin {"idle", "ok", "error"}

(* A lost connection, or the death of the worker, whose answer nobody receives. *)
StatementFails(r) == Underway(r) /\ Finish(r, pc[r], "error")

(* A failed COMMIT of the title is swallowed like a missing row. *)
CopyFails(r) ==
  /\ Goto(r, "title", "spoiled")
  /\ UNCHANGED <<data, local, log, history>>

Reads(r) ==
  \/ ReadForRename(r) \/ ReadForMark(r) \/ ReadForSend(r) \/ ReadForDelete(r)
  \/ ReadForShow(r) \/ ReadForMessages(r)

Writes(r) ==
  \/ InsertSession(r) \/ FirstMessage(r) \/ SendMessage(r) \/ Rename(r) \/ Mark(r)
  \/ LoadMessages(r) \/ Delete(r) \/ CopyTitle(r) \/ Recreate(r)

Work(r) ==
  \/ Reads(r) \/ Writes(r) \/ AfterInsert(r) \/ Refresh(r)
  \/ QueryAgno(r) \/ AskAgno(r) \/ Reply(r) \/ ReplySpoiled(r)

Next ==
  \/ AgnoTakesSession
  \/ \E r \in Requests :
       Receive(r) \/ Refuse(r) \/ Work(r) \/ CopyFails(r) \/ StatementFails(r)

Spec == Init /\ [][Next]_vars

-----------------------------------------------------------------------------
Steps == {"idle", "read", "ask", "recreate", "insert", "inserted", "first", "write", "load",
          "erase", "agno", "title", "refresh", "reply", "spoiled", "ok", "error"}

TypeOK ==
  /\ row \in Rows
  /\ births \in Nat
  /\ messages \subseteq Requests
  /\ agno \in BOOLEAN
  /\ pc \in [Requests -> Steps]
  /\ op \in [Requests -> Operations]
  /\ snap \in [Requests -> Rows]
  /\ seen \in [Requests -> SUBSET Requests]
  /\ log \subseteq Entries
  /\ effective \subseteq Requests
  /\ lastRename \in Requests \union {Nobody}
  /\ lastMark \in Requests \union {Nobody}
  /\ metRename \subseteq Requests
  /\ metMark \subseteq Requests

(***************************************************************************)
(* A title the user gave is replaced, by AGNO's or an older one, only      *)
(* through a request that had read the session before that rename and has  *)
(* written after it.                                                       *)
(***************************************************************************)
RenameLostOnlyByOverlap ==
  Exists /\ lastRename # Nobody /\ row.title # lastRename
  => metRename \intersect effective # {}

(***************************************************************************)
(* A favourite mark is undone, or the mark of a deleted session given to   *)
(* the one made anew, only by a rename that had read the session before.   *)
(***************************************************************************)
MarkLostOnlyByOverlap ==
  Exists /\ row.mark # lastMark => \E r \in metMark \intersect effective : op[r] = "rename"

(* No message is stored of a session that is gone, whichever request ends last. *)
MessagesHaveSession == messages # {} => Exists

(***************************************************************************)
(* What a success answer or the user's log says was done, has been done;   *)
(* but a deletion may find that another has done it, and a rename or mark  *)
(* whose session was deleted may find one made anew from AGNO's copy.      *)
(***************************************************************************)
Said == {r \in Requests : pc[r] = "ok" /\ op[r] \notin {"show", "messages"}}
        \union {e.by : e \in log}

SaidIsDone ==
  \A r \in Said \ effective :
    /\ \E d \in effective : op[d] = "delete"
    /\ op[r] = "delete" \/ births > 1

(***************************************************************************)
(* chat.py:1024, "Mark that user has manually renamed this session -       *)
(* prevent agno_sessions from overwriting".                                *)
(***************************************************************************)
AgnoNeverOverwritesRename == Exists /\ lastRename # Nobody => row.title # Agno
=============================================================================
