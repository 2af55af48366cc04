--------------------------- MODULE MessageFeedback ---------------------------
(***************************************************************************)
(* A user's reactions to one message: the like and dislike buttons         *)
(* (routes/chat.py, submit_message_feedback and delete_message_feedback)   *)
(* and the feedback form (routes/feedback.py), which knows the same table. *)
(*                                                                         *)
(* feedback_data has no unique key: that a message has one reaction rests  *)
(* on the SELECT each request begins with.  A row is known by the request  *)
(* that inserted it, and a comment by the request that wrote it.  What a   *)
(* transaction writes becomes visible when it commits, in one step.        *)
(***************************************************************************)
EXTENDS Integers, FiniteSets

CONSTANTS
  Requests,   \* the requests of one user
  Nobody,     \* no request
  Limit       \* feedback items a user may have (500 in the code)

ASSUME NobodyAssumption == Nobody \notin Requests
ASSUME LimitAssumption == Limit \in Nat \ {0}

VARIABLES
  fb,         \* fb[x]: the row that request x has inserted
  blobs,      \* the requests whose file is in the blob store
  pc,         \* pc[r]: the next step of r
  kind,       \* kind[r]: what r asks for
  reaction,   \* reaction[r]: the reaction r gives
  found,      \* found[r]: the request whose row r has read
  old,        \* old[r]: the reaction r has read there
  looked,     \* history: looked[w]: who had looked for a row and not yet written when w wrote
  counted     \* history: counted[w]: who had counted the rows and not yet written then

table   == <<fb, blobs>>
request == <<kind, reaction>>
local   == <<found, old>>
history == <<looked, counted>>
vars == <<table, pc, request, local, history>>

Reactions == {"like", "dislike"}

(* submit: a reaction; clear: the null reaction; delete: the DELETE of the reaction; *)
(* remove: the DELETE of a feedback item by its id; post: the form, about the        *)
(* message; other: the form, about anything else.                                    *)
Kinds == {"submit", "clear", "delete", "remove", "post", "other"}

Rows == [state : {"none", "live", "deleted"}, rating : Reactions,
         comment : Requests \union {Nobody}, file : BOOLEAN]

NoRow == [state |-> "none", rating |-> "like", comment |-> Nobody, file |-> FALSE]

Live == {x \in Requests : fb[x].state = "live"}

(* The rows the SELECT of a reaction finds. *)
Reacted == {x \in Live : kind[x] # "other"}

Init ==
  /\ fb = [x \in Requests |-> NoRow]
  /\ blobs = {}
  /\ pc = [r \in Requests |-> "idle"]
  /\ kind = [r \in Requests |-> "clear"]
  /\ reaction = [r \in Requests |-> "like"]
  /\ found = [r \in Requests |-> Nobody]
  /\ old = [r \in Requests |-> "like"]
  /\ looked = [r \in Requests |-> {}]
  /\ counted = [r \in Requests |-> {}]

Goto(r, from, to) ==
  /\ pc[r] = from
  /\ pc' = [pc EXCEPT ![r] = to]

Finish(r, from, a) ==
  /\ Goto(r, from, a)
  /\ UNCHANGED <<table, request, local, history>>

Counted(r) == pc[r] \in {"insert", "upload", "commit", "attach"}
Looked(r)  == Counted(r) \/ pc[r] \in {"count", "update", "erase"}

(* r writes: this is when it matters what the others hold. *)
Meet(r) ==
  /\ looked' = [looked EXCEPT ![r] = {s \in Requests \ {r} : Looked(s)}]
  /\ counted' = [counted EXCEPT ![r] = {s \in Requests \ {r} : Counted(s)}]

-----------------------------------------------------------------------------
Receive(r) ==
  /\ \E k \in Kinds, v \in Reactions :
       /\ v = "dislike" => k \in {"submit", "post"}
       /\ kind' = [kind EXCEPT ![r] = k]
       /\ reaction' = [reaction EXCEPT ![r] = v]
       /\ Goto(r, "idle", IF k \in {"post", "other"} THEN "count" ELSE "lookup")
  /\ UNCHANGED <<table, local, history>>

(* The rate limiter, the checks of the form. *)
Refuse(r) == pc[r] \in {"lookup", "count"} /\ Finish(r, pc[r], "error")

Take(r, x, to) ==
  /\ Goto(r, "lookup", to)
  /\ found' = [found EXCEPT ![r] = x]
  /\ old' = [old EXCEPT ![r] = fb[x].rating]
  /\ UNCHANGED <<table, request, history>>

LookupFirst(r) ==   \* faulty: takes the first of several rows, or goes on without
  /\ kind[r] = "submit"
  /\ Goto(r, "lookup", "count")
  /\ UNCHANGED <<table, request, local, history>>

(* submit looks for the one reaction there may be; two are an exception. *)
Lookup(r) ==
  /\ kind[r] = "submit"
  /\ \/ \E x \in Reacted : Reacted = {x} /\ Take(r, x, "update")
     \/ Reacted = {} /\ Finish(r, "lookup", "count")
     \/ Cardinality(Reacted) > 1 /\ Finish(r, "lookup", "error")

(* clear and delete: nothing to remove is a success for one, an error for the other. *)
LookupToErase(r) ==
  /\ kind[r] \in {"clear", "delete"}
  /\ \/ \E x \in Reacted : Reacted = {x} /\ Take(r, x, "erase")
     \/ Reacted = {} /\ kind[r] = "clear" /\ Finish(r, "lookup", "ok")
     \/ Reacted = {} /\ kind[r] = "delete" /\ Finish(r, "lookup", "error")
     \/ Cardinality(Reacted) > 1 /\ Finish(r, "lookup", "error")

(* remove names the row; an administrator may name any. *)
LookupById(r) ==
  /\ kind[r] = "remove"
  /\ \/ \E x \in Live : Take(r, x, "erase")
     \/ Finish(r, "lookup", "error")

(* deleted_at of whatever row was found, also of one deleted since. *)
Erase(r) ==
  /\ Goto(r, "erase", "ok")
  /\ fb' = [fb EXCEPT ![found[r]].state = "deleted"]
  /\ Meet(r)
  /\ UNCHANGED <<blobs, request, local>>

-----------------------------------------------------------------------------
(* submit, a row was found: the attributes that differ from what was read. *)

UpdateRow(r) ==   \* faulty: writes the row back as it was read
  /\ Goto(r, "update", "refresh")
  /\ fb' = [fb EXCEPT ![found[r]].state = "live", ![found[r]].rating = reaction[r],
                      ![found[r]].comment = r]
  /\ Meet(r)
  /\ UNCHANGED <<blobs, request, local>>

UpdateComment(r) ==   \* faulty: a reaction that was changed is not written
  /\ Goto(r, "update", "refresh")
  /\ fb' = [fb EXCEPT ![found[r]].comment = r]
  /\ Meet(r)
  /\ UNCHANGED <<blobs, request, local>>

Updated(r, x) ==
  [x EXCEPT !.rating = IF reaction[r] # old[r] THEN reaction[r] ELSE @, !.comment = r]

Update(r) ==
  /\ Goto(r, "update", "refresh")
  /\ fb' = [fb EXCEPT ![found[r]] = Updated(r, @)]
  /\ Meet(r)
  /\ UNCHANGED <<blobs, request, local>>

(* The row is read again, for the answer and the log entry: deleted or not, it is there. *)
Refresh(r) == Finish(r, "refresh", "ok")

-----------------------------------------------------------------------------
(* A new row: the limit, the insertion, for the form the file in between. *)

CountLate(r) ==   \* faulty: lets one more through
  \/ Cardinality(Live) <= Limit /\ Finish(r, "count", "insert")
  \/ Cardinality(Live) > Limit /\ Finish(r, "count", "error")

Count(r) ==
  \/ Cardinality(Live) < Limit /\ Finish(r, "count", "insert")
  \/ Cardinality(Live) >= Limit /\ Finish(r, "count", "error")

NewRow(r, file) ==
  [state |-> "live", rating |-> reaction[r], comment |-> r, file |-> file]

InsertWithoutReaction(r) ==   \* faulty: the null reaction is stored
  /\ kind[r] = "submit"
  /\ Goto(r, "insert", "ok")
  /\ fb' = [fb EXCEPT ![r] = [NewRow(r, FALSE) EXCEPT !.rating = "null"]]
  /\ Meet(r)
  /\ UNCHANGED <<blobs, request, local>>

Insert(r) ==
  /\ kind[r] = "submit"
  /\ Goto(r, "insert", "ok")
  /\ fb' = [fb EXCEPT ![r] = NewRow(r, FALSE)]
  /\ Meet(r)
  /\ UNCHANGED <<blobs, request, local>>

(* The form: the row is flushed, and is nobody else's to see. *)
Flush(r) == kind[r] # "submit" /\ Finish(r, "insert", "upload")

UploadFails(r) == Finish(r, "upload", "error")

(* A file is uploaded before its row is inserted; it stays if the commit never comes. *)
Upload(r) ==
  \/ Finish(r, "upload", "commit")
  \/ /\ Goto(r, "upload", "attach")
     /\ blobs' = blobs \union {r}
     /\ UNCHANGED <<fb, request, local, history>>

Commit(r) ==
  /\ \/ Goto(r, "commit", "respond") /\ fb' = [fb EXCEPT ![r] = NewRow(r, FALSE)]
     \/ Goto(r, "attach", "respond") /\ fb' = [fb EXCEPT ![r] = NewRow(r, TRUE)]
  /\ Meet(r)
  /\ UNCHANGED <<blobs, request, local>>

(* The response is built from attributes the session may have to load. *)
Respond(r) == \E a \in {"ok", "error"} : Finish(r, "respond", a)

-----------------------------------------------------------------------------
Underway(r) == pc[r] \notin {"idle", "ok", "error"}

(* A lost connection or the worker's death: the open transaction leaves nothing. *)
StatementFails(r) == Underway(r) /\ Finish(r, pc[r], "error")

Work(r) ==
  \/ Lookup(r) \/ LookupToErase(r) \/ LookupById(r) \/ Erase(r) \/ Update(r) \/ Refresh(r)
  \/ Count(r) \/ Insert(r) \/ Flush(r) \/ Upload(r) \/ Commit(r) \/ Respond(r)

Next ==
  \E r \in Requests :
    Receive(r) \/ Refuse(r) \/ Work(r) \/ UploadFails(r) \/ StatementFails(r)

Spec == Init /\ [][Next]_vars

-----------------------------------------------------------------------------
Steps == {"idle", "lookup", "update", "erase", "refresh", "count", "insert", "upload",
          "commit", "attach", "respond", "ok", "error"}

TypeOK ==
  /\ fb \in [Requests -> Rows]
  /\ blobs \subseteq Requests
  /\ pc \in [Requests -> Steps]
  /\ kind \in [Requests -> Kinds]
  /\ reaction \in [Requests -> Reactions]
  /\ found \in [Requests -> Requests \union {Nobody}]
  /\ old \in [Requests -> Reactions]
  /\ looked \in [Requests -> SUBSET Requests]
  /\ counted \in [Requests -> SUBSET Requests]

(***************************************************************************)
(* A message has two reactions, after which each request for it fails,     *)
(* only if the two that inserted them overlapped, or the form inserted one *)
(* (it does not look for another).                                         *)
(***************************************************************************)
DuplicateOnlyFromOverlap ==
  \A x, y \in Reacted :
    x # y /\ kind[x] = "submit" /\ kind[y] = "submit"
    => x \in looked[y] \/ y \in looked[x]

(* The limit is exceeded only by two that had counted before either was stored. *)
OverLimitOnlyFromOverlap ==
  Cardinality(Live) > Limit => \E x, y \in Live : x \in counted[y]

(***************************************************************************)
(* A row shows the comment of one request with the reaction of another     *)
(* only if the first had read the row before an update of another wrote it.*)
(***************************************************************************)
MixedOnlyFromOverlap ==
  \A x \in Requests :
    LET c == fb[x].comment
    IN  c # Nobody /\ fb[x].rating # reaction[c] => \E w \in Requests : found[w] = x /\ kind[w] = "submit" /\ c \in looked[w]

(* What the user has removed never comes back, whoever had read it before. *)
DeletedIsFinal ==
  [][\A x \in Requests : fb[x].state = "deleted" => fb'[x].state = "deleted"]_vars

(***************************************************************************)
(* chat.py:5083, "User can only select one option at a time (like OR       *)
(* dislike)".                                                              *)
(***************************************************************************)
OneReaction == Cardinality(Reacted) <= 1
=============================================================================
