---------------------------- MODULE MessageMemory ----------------------------
(***************************************************************************)
(* The memories found in one message (routes/user_memory.py) and their     *)
(* rows in agno_memories, which the user also deletes, one or several at   *)
(* a time (routes/context_memory.py).                                      *)
(*                                                                         *)
(* The message keeps, in one JSON column, an item for each text: its       *)
(* status, and the row that holds it.  Whoever changes one item writes the *)
(* whole column back as it was read.  The row is committed first, the      *)
(* message in a second transaction, whose failure is swallowed.            *)
(***************************************************************************)
EXTENDS Integers, FiniteSets

CONSTANTS
  Requests,   \* requests about this message
  Texts,      \* the texts found in it
  Earlier,    \* the request that analysed it first, if any did
  NoRow       \* an item without a row

ASSUME NamesAssumption ==
  /\ Earlier \notin Requests
  /\ NoRow \notin (Requests \union {Earlier}) \X Texts

VARIABLES
  rows,    \* agno_memories: rows known by the request that inserted them, and the text
  items,   \* items[t]: what the message says of text t
  pc,      \* pc[r]: the next step of r
  kind,    \* kind[r]: what r asks for
  text,    \* text[r]: of which text
  row,     \* row[r]: of which rows, or the row r has inserted
  snap,    \* snap[r]: the items as r has read them
  todo,    \* todo[r]: the texts that the analysis r is still to save
  last,    \* history: last[t]: who last decided about text t
  wrote,   \* history: the requests that have written the items
  met      \* history: met[w]: who was under way with a row or the items when w wrote or deleted

stored  == <<rows, items>>
request == <<kind, text>>
local   == <<row, snap, todo>>
history == <<last, wrote, met>>
vars == <<stored, pc, request, local, history>>

Everybody == Requests \union {Earlier}
Ids == Everybody \X Texts
Kinds == {"analyze", "save", "update", "discard", "delete"}
Statuses == {"absent", "new", "AutoSaved", "Saved", "discarded"}

Item(status, id, who) == [status |-> status, row |-> id, by |-> who]
Items == [status : Statuses, row : Ids \union {NoRow}, by : Everybody]

Unread == [t \in Texts |-> Item("absent", NoRow, Earlier)]

Kept == {"AutoSaved", "Saved"}

FirstItem(t, saved) ==
  IF t \in saved THEN Item("AutoSaved", <<Earlier, t>>, Earlier) ELSE Item("new", NoRow, Earlier)

Init ==
  /\ \/ rows = {} /\ items = [t \in Texts |-> Item("absent", NoRow, Earlier)]
     \/ \E saved \in SUBSET Texts :
          /\ rows = {Earlier} \X saved
          /\ items = [t \in Texts |-> FirstItem(t, saved)]
  /\ pc = [r \in Requests |-> "idle"]
  /\ kind = [r \in Requests |-> "save"]
  /\ \E t \in Texts : text = [r \in Requests |-> t]
  /\ row = [r \in Requests |-> {}]
  /\ snap = [r \in Requests |-> Unread]
  /\ todo = [r \in Requests |-> {}]
  /\ last = [t \in Texts |-> Earlier]
  /\ wrote = {}
  /\ met = [w \in Everybody |-> {}]

Goto(r, from, to) ==
  /\ pc[r] = from
  /\ pc' = [pc EXCEPT ![r] = to]

Forget(r) == snap' = [snap EXCEPT ![r] = Unread]

Finish(r, from, a) ==
  /\ Goto(r, from, a)
  /\ Forget(r)
  /\ UNCHANGED <<stored, request, row, todo, history>>

(* Who has read the items, or holds a row they are to name. *)
Holding(r) == pc[r] \in {"save", "update", "look", "mark", "write", "commit"}
Meet(r) == met' = [met EXCEPT ![r] = {s \in Requests \ {r} : Holding(s)}]

(* The column is written; r has decided about the texts in ts. *)
WriteItems(r, new, ts) ==
  /\ items' = new
  /\ wrote' = wrote \union {r}
  /\ last' = [t \in Texts |-> IF t \in ts THEN r ELSE last[t]]
  /\ Meet(r)

-----------------------------------------------------------------------------
Start(k) ==
  CASE k = "analyze" -> "ask" [] k = "save" -> "insert" [] k = "discard" -> "read" [] OTHER -> "find"

Receive(r) ==
  /\ \E k \in Kinds, t \in Texts :
       /\ Goto(r, "idle", Start(k))
       /\ kind' = [kind EXCEPT ![r] = k]
       /\ text' = IF k \in {"analyze", "delete"} THEN text ELSE [text EXCEPT ![r] = t]
  /\ UNCHANGED <<stored, local, history>>

-----------------------------------------------------------------------------
(* analyze: AGNO answers with the texts, and which of them are certain. *)

Analyze(r) ==
  /\ Goto(r, "ask", "save")
  /\ todo' \in {[todo EXCEPT ![r] = ts] : ts \in SUBSET Texts}
  /\ UNCHANGED <<stored, request, row, snap, history>>

(* Each of these is inserted and committed on its own. *)
AutoSave(r) ==
  /\ pc[r] = "save"
  /\ \E t \in todo[r] :
       /\ rows' = rows \union {<<r, t>>}
       /\ todo' = [todo EXCEPT ![r] = @ \ {t}]
  /\ UNCHANGED <<items, pc, request, row, snap, history>>

(* A failed commit is swallowed, and so is all that follows in the unusable session. *)
AutoSaveFails(r) == todo[r] # {} /\ Finish(r, "save", "ok")

Analysed(r, t) == IF <<r, t>> \in rows THEN Item("AutoSaved", <<r, t>>, r) ELSE Item("new", NoRow, r)

(* The analysis replaces the message's, whatever that was. *)
Attach(r) ==
  /\ todo[r] = {}
  /\ Goto(r, "save", "ok")
  /\ WriteItems(r, [t \in Texts |-> Analysed(r, t)], Texts)
  /\ UNCHANGED <<rows, request, row, snap, todo>>

-----------------------------------------------------------------------------
(* save: a new row, whether or not the text has one. *)

Insert(r) ==
  /\ Goto(r, "insert", "look")
  /\ rows' = rows \union {<<r, text[r]>>}
  /\ row' = [row EXCEPT ![r] = {<<r, text[r]>>}]
  /\ UNCHANGED <<items, request, snap, todo, history>>

(* update and delete: the row is looked for, or those of a list that are there. *)
Found(r) == IF kind[r] = "update" THEN {{x} : x \in rows} ELSE SUBSET rows \ {{}}

Find(r) ==
  \/ \E xs \in Found(r) :
       /\ Goto(r, "find", IF kind[r] = "update" THEN "update" ELSE "erase")
       /\ row' = [row EXCEPT ![r] = xs]
       /\ UNCHANGED <<stored, request, snap, todo, history>>
  \/ Finish(r, "find", "error")

(* A deletion that has not committed yet holds its rows. *)
Locked(xs) == \E d \in Requests : pc[d] = "commit" /\ row[d] \intersect xs # {}

(* The UPDATE, and its commit: no row is no error. *)
Update(r) == ~Locked(row[r]) /\ Finish(r, "update", "look")

Look(r, from, to) ==
  /\ Goto(r, from, to)
  /\ snap' = [snap EXCEPT ![r] = items]
  /\ UNCHANGED <<stored, request, row, todo, history>>

(* The item of the text is marked, unless it is saved already. *)
LookToMark(r) ==
  \/ items[text[r]].status \in {"new", "AutoSaved", "discarded"} /\ Look(r, "look", "mark")
  \/ items[text[r]].status \in {"absent", "Saved"} /\ Finish(r, "look", "ok")

MarkEvery(r) ==   \* faulty: the texts are not compared
  /\ Goto(r, "mark", "ok")
  /\ \E x \in row[r] : WriteItems(r, [t \in Texts |-> Item("Saved", x, r)], {text[r]})
  /\ Forget(r)
  /\ UNCHANGED <<rows, request, row, todo>>

MarkWithoutRow(r) ==   \* faulty: no status
  /\ Goto(r, "mark", "ok")
  /\ WriteItems(r, [snap[r] EXCEPT ![text[r]] = Item("", NoRow, r)], {text[r]})
  /\ Forget(r)
  /\ UNCHANGED <<rows, request, row, todo>>

Mark(r) ==
  /\ Goto(r, "mark", "ok")
  /\ \E x \in row[r] : WriteItems(r, [snap[r] EXCEPT ![text[r]] = Item("Saved", x, r)], {text[r]})
  /\ Forget(r)
  /\ UNCHANGED <<rows, request, row, todo>>

(* Whatever fails once the row is committed is swallowed. *)
MarkFails(r) == \E from \in {"look", "mark"} : Finish(r, from, "ok")

-----------------------------------------------------------------------------
(* discard: the item, not the row. *)

ReadToDiscard(r) ==
  \/ items[text[r]].status # "absent" /\ Look(r, "read", "write")
  \/ items[text[r]].status = "absent" /\ Finish(r, "read", "error")

Discard(r) ==
  /\ Goto(r, "write", "ok")
  /\ WriteItems(r, [snap[r] EXCEPT ![text[r]] = Item("discarded", @.row, r)], {text[r]})
  /\ Forget(r)
  /\ UNCHANGED <<rows, request, row, todo>>

-----------------------------------------------------------------------------
(* delete: the DELETE, the messages that name the rows, the commit of both. *)

Erase(r) == ~Locked(row[r]) /\ Look(r, "erase", "commit")

Naming(r) == {t \in Texts : snap[r][t].row \in row[r]}

CommitErase(r) ==   \* faulty: the messages are left as they are
  /\ Goto(r, "commit", "ok")
  /\ rows' = rows \ row[r]
  /\ Meet(r)
  /\ Forget(r)
  /\ UNCHANGED <<items, last, wrote, request, row, todo>>

CommitDelete(r) ==
  /\ Goto(r, "commit", "ok")
  /\ rows' = rows \ row[r]
  /\ \/ /\ Naming(r) # {}
        /\ WriteItems(r, [t \in Texts |-> IF t \in Naming(r)
                                          THEN Item("discarded", snap[r][t].row, r) ELSE snap[r][t]],
                      Naming(r))
     \/ Naming(r) = {} /\ Meet(r) /\ UNCHANGED <<items, last, wrote>>
  /\ Forget(r)
  /\ UNCHANGED <<request, row, todo>>

-----------------------------------------------------------------------------
Underway(r) == pc[r] \notin {"idle", "ok", "error"}

(* A lost connection, or the worker's death; AGNO's error. *)
StatementFails(r) == Underway(r) /\ Finish(r, pc[r], "error")

Work(r) ==
  \/ Analyze(r) \/ AutoSave(r) \/ Attach(r) \/ Insert(r) \/ Find(r) \/ Update(r)
  \/ LookToMark(r) \/ Mark(r) \/ ReadToDiscard(r) \/ Discard(r) \/ Erase(r) \/ CommitDelete(r)

Next ==
  \E r \in Requests :
    Receive(r) \/ Work(r) \/ AutoSaveFails(r) \/ MarkFails(r) \/ StatementFails(r)

Spec == Init /\ [][Next]_vars

-----------------------------------------------------------------------------
Steps == {"idle", "ask", "save", "insert", "find", "update", "look", "mark", "read", "write",
          "erase", "commit", "ok", "error"}

TypeOK ==
  /\ rows \subseteq Ids
  /\ items \in [Texts -> Items]
  /\ pc \in [Requests -> Steps]
  /\ kind \in [Requests -> Kinds]
  /\ text \in [Requests -> Texts]
  /\ row \in [Requests -> SUBSET Ids]
  /\ snap \in [Requests -> [Texts -> Items]]
  /\ todo \in [Requests -> SUBSET Texts]
  /\ last \in [Texts -> Everybody]
  /\ wrote \subseteq Requests
  /\ met \in [Everybody -> SUBSET Requests]

(***************************************************************************)
(* The message calls a text saved whose row is gone only if the deletion   *)
(* overlapped: someone under way when it committed wrote the items later,  *)
(* or someone had written them under the deletion's hands.                 *)
(***************************************************************************)
Deleters(x) == {d \in Requests : kind[d] = "delete" /\ x \in row[d] /\ pc[d] = "ok"}

SavedHasRow ==
  \A t \in Texts :
    items[t].status \in Kept /\ items[t].row \notin rows
    => \E d \in Deleters(items[t].row) :
         met[d] \intersect wrote # {} \/ \E w \in wrote : d \in met[w]

(* What was last decided about a text is undone only by one that had read the items before. *)
DecisionLostOnlyByOverlap ==
  \A t \in Texts : items[t].by # last[t] => met[last[t]] \intersect wrote # {}
=============================================================================
