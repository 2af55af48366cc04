---------------------------- MODULE MemoryProofs ----------------------------
(***************************************************************************)
(* Theorems about memories: for any number of requests about one message,  *)
(* whatever fails between the two commits, a saved text has its row and a  *)
(* decision stands unless requests overlapped (MessageMemory); and what    *)
(* the cached list of a user's memories shows (UserMemoryCache).           *)
(***************************************************************************)
EXTENDS MessageMemory, UserMemoryCache, FiniteSetTheorems, TLAPS

USE NamesAssumption, CountsAssumption

-----------------------------------------------------------------------------
(* Types *)

LEMMA ItemMade ==
  ASSUME NEW status \in Statuses, NEW id \in Ids \union {NoRow}, NEW who \in Everybody
  PROVE  Item(status, id, who) \in Items
  BY DEF Item, Items

LEMMA UnreadItems == Unread \in [Texts -> Items]
  BY ItemMade DEF Unread, Statuses, Everybody

LEMMA InitType == Init => TypeOK
  <1> SUFFICES ASSUME Init PROVE TypeOK
    OBVIOUS
  <1>1. \A t \in Texts, saved \in SUBSET Texts : FirstItem(t, saved) \in Items
    BY ItemMade DEF FirstItem, Statuses, Ids, Everybody
  <1>2. rows \subseteq Ids /\ items \in [Texts -> Items]
    <2>1. CASE rows = {} /\ items = [t \in Texts |-> Item("absent", NoRow, Earlier)]
      BY <2>1, UnreadItems DEF Unread
    <2>2. ASSUME NEW saved \in SUBSET Texts, rows = {Earlier} \X saved,
                 items = [t \in Texts |-> FirstItem(t, saved)]
          PROVE  rows \subseteq Ids /\ items \in [Texts -> Items]
      BY <1>1, <2>2 DEF Ids, Everybody
    <2>3. QED
      BY <2>1, <2>2 DEF Init
  <1>3. QED
    BY <1>2, UnreadItems DEF Init, TypeOK, Kinds, Steps, Everybody

LEMMA FinishType ==
  ASSUME TypeOK, NEW r \in Requests, NEW from, NEW a \in Steps, Finish(r, from, a)
  PROVE  TypeOK'
  BY UnreadItems DEF TypeOK, Finish, Goto, Forget, stored, request, history

LEMMA LookType ==
  ASSUME TypeOK, NEW r \in Requests, NEW from, NEW to \in Steps, Look(r, from, to)
  PROVE  TypeOK'
  BY DEF TypeOK, Look, Goto, stored, request, history

LEMMA WriteType ==
  ASSUME TypeOK, NEW r \in Requests, NEW from, NEW ts,
         NEW new \in [Texts -> Items],
         Goto(r, from, "ok"), WriteItems(r, new, ts), rows' \subseteq rows,
         snap' = snap \/ Forget(r), UNCHANGED <<request, row, todo>>
  PROVE  TypeOK'
  <1> USE DEF TypeOK
  <1>1. pc' \in [Requests -> Steps] /\ snap' \in [Requests -> [Texts -> Items]]
    BY UnreadItems DEF Goto, Forget, Steps
  <1>2. /\ items' \in [Texts -> Items] /\ wrote' \subseteq Requests
        /\ last' \in [Texts -> Everybody] /\ met' \in [Everybody -> SUBSET Requests]
    BY DEF WriteItems, Meet, Everybody
  <1>3. QED
    BY <1>1, <1>2 DEF request

LEMMA TypeStep == TypeOK /\ [Next]_vars => TypeOK'
  <1> SUFFICES ASSUME TypeOK, [Next]_vars PROVE TypeOK'
    OBVIOUS
  <1>1. ASSUME NEW r \in Requests, Receive(r) PROVE TypeOK'
    <2>1. /\ \E a \in Steps : pc' = [pc EXCEPT ![r] = a]
          /\ \E k \in Kinds : kind' = [kind EXCEPT ![r] = k]
          /\ text' = text \/ \E t \in Texts : text' = [text EXCEPT ![r] = t]
      <3>1. PICK k \in Kinds, t \in Texts :
              /\ Goto(r, "idle", Start(k))
              /\ kind' = [kind EXCEPT ![r] = k]
              /\ text' = IF k \in {"analyze", "delete"} THEN text ELSE [text EXCEPT ![r] = t]
        BY <1>1 DEF Receive
      <3>2. Start(k) \in Steps
        BY DEF Start, Kinds, Steps
      <3>3. QED
        BY <3>1, <3>2 DEF Goto
    <2>2. QED
      BY <1>1, <2>1 DEF Receive, TypeOK, stored, local, history
  <1>2. ASSUME NEW r \in Requests, Analyze(r) PROVE TypeOK'
    BY <1>2 DEF Analyze, Goto, TypeOK, Steps, stored, request, history
  <1>3. ASSUME NEW r \in Requests, AutoSave(r) PROVE TypeOK'
    BY <1>3 DEF AutoSave, TypeOK, Ids, Everybody, request, history
  <1>4. ASSUME NEW r \in Requests, Attach(r) PROVE TypeOK'
    <2>1. [t \in Texts |-> Analysed(r, t)] \in [Texts -> Items]
      BY ItemMade DEF Analysed, Statuses, Ids, Everybody
    <2>2. QED
      BY <1>4, <2>1, WriteType DEF Attach
  <1>5. ASSUME NEW r \in Requests, Insert(r) PROVE TypeOK'
    BY <1>5 DEF Insert, Goto, TypeOK, Steps, Ids, Everybody, request, history
  <1>6. ASSUME NEW r \in Requests, Find(r) PROVE TypeOK'
    <2>1. ASSUME NEW xs \in Found(r), NEW a \in Steps, Goto(r, "find", a),
                 row' = [row EXCEPT ![r] = xs],
                 UNCHANGED <<stored, request, snap, todo, history>>
          PROVE  TypeOK'
      <3>1. xs \subseteq rows
        BY <2>1 DEF Found
      <3>2. QED
        BY <2>1, <3>1 DEF Goto, TypeOK, stored, request, history
    <2>2. QED
      BY <1>6, <2>1, FinishType DEF Find, Steps
  <1>7. ASSUME NEW r \in Requests, Update(r) PROVE TypeOK'
    BY <1>7, FinishType DEF Update, Steps
  <1>8. ASSUME NEW r \in Requests, LookToMark(r) PROVE TypeOK'
    BY <1>8, FinishType, LookType DEF LookToMark, Steps
  <1>9. ASSUME NEW r \in Requests, Mark(r) PROVE TypeOK'
    <2>1. PICK x \in row[r] :
            WriteItems(r, [snap[r] EXCEPT ![text[r]] = Item("Saved", x, r)], {text[r]})
      BY <1>9 DEF Mark
    <2>2. Item("Saved", x, r) \in Items
      BY ItemMade DEF TypeOK, Statuses, Everybody
    <2>3. [snap[r] EXCEPT ![text[r]] = Item("Saved", x, r)] \in [Texts -> Items]
      BY <2>2 DEF TypeOK
    <2>4. QED
      BY <1>9, <2>1, <2>3, WriteType DEF Mark
  <1>10. ASSUME NEW r \in Requests, ReadToDiscard(r) PROVE TypeOK'
    BY <1>10, FinishType, LookType DEF ReadToDiscard, Steps
  <1>11. ASSUME NEW r \in Requests, Discard(r) PROVE TypeOK'
    <2>1. snap[r][text[r]].row \in Ids \union {NoRow}
      BY DEF TypeOK, Items
    <2>2. Item("discarded", snap[r][text[r]].row, r) \in Items
      BY <2>1, ItemMade DEF Statuses, Everybody
    <2>3. [snap[r] EXCEPT ![text[r]] = Item("discarded", @.row, r)] \in [Texts -> Items]
      BY <2>2 DEF TypeOK
    <2>4. QED
      BY <1>11, <2>3, WriteType DEF Discard
  <1>12. ASSUME NEW r \in Requests, Erase(r) PROVE TypeOK'
    BY <1>12, LookType DEF Erase, Steps
  <1>13. ASSUME NEW r \in Requests, CommitDelete(r) PROVE TypeOK'
    <2> DEFINE new == [t \in Texts |-> IF t \in Naming(r)
                                       THEN Item("discarded", snap[r][t].row, r) ELSE snap[r][t]]
    <2>1. CASE WriteItems(r, new, Naming(r))
      <3>1. \A t \in Texts : snap[r][t] \in Items /\ snap[r][t].row \in Ids \union {NoRow}
        BY DEF TypeOK, Items
      <3>2. \A t \in Texts : Item("discarded", snap[r][t].row, r) \in Items
        BY <3>1, ItemMade DEF Statuses, Everybody
      <3>3. new \in [Texts -> Items]
        BY <3>1, <3>2
      <3>4. QED
        BY <1>13, <2>1, <3>3, WriteType DEF CommitDelete
    <2>2. CASE Meet(r) /\ UNCHANGED <<items, last, wrote>>
      <3>1. pc' \in [Requests -> Steps] /\ snap' \in [Requests -> [Texts -> Items]]
        BY <1>13, UnreadItems DEF CommitDelete, Goto, Forget, Steps, TypeOK
      <3>2. met' \in [Everybody -> SUBSET Requests]
        BY <2>2 DEF Meet, TypeOK
      <3>3. rows' \subseteq Ids /\ UNCHANGED <<request, row, todo>>
        BY <1>13 DEF CommitDelete, TypeOK
      <3>4. QED
        BY <2>2, <3>1, <3>2, <3>3 DEF TypeOK, request
    <2>3. QED
      BY <1>13, <2>1, <2>2 DEF CommitDelete
  <1>14. ASSUME NEW r \in Requests, AutoSaveFails(r) \/ MarkFails(r) \/ StatementFails(r)
         PROVE  TypeOK'
    BY <1>14, FinishType DEF AutoSaveFails, MarkFails, StatementFails, Steps
  <1>15. CASE UNCHANGED vars
    BY <1>15 DEF vars, stored, request, local, history, TypeOK
  <1>16. QED
    BY <1>1, <1>2, <1>3, <1>4, <1>5, <1>6, <1>7, <1>8, <1>9, <1>10, <1>11, <1>12, <1>13, <1>14,
       <1>15 DEF Next, Work

-----------------------------------------------------------------------------
(* Saved texts and their rows *)

KindsFit ==
  \A r \in Requests :
    /\ pc[r] = "find" => kind[r] \in {"update", "delete"}
    /\ pc[r] \in {"erase", "commit"} => kind[r] = "delete"

(* Who wrote is done; who decided wrote. *)
WritersAreDone == (\A w \in wrote : pc[w] = "ok") /\ \A t \in Texts : last[t] \in wrote \union {Earlier}

Reads(s) == pc[s] \in {"mark", "write", "commit"}

HoldsRow(s) == pc[s] \in {"update", "look", "mark"}

(* A row that may be named although it is gone; one that s may still name. *)
Excused(x) == \E d \in Deleters(x) : met[d] \intersect wrote # {} \/ \E w \in wrote : d \in met[w]
Due(s, x) == \E d \in Deleters(x) : s \in met[d]

Named(its) == {its[t].row : t \in {u \in Texts : its[u].status \in Kept}}

ItemsHaveRows == \A x \in Named(items) : x \notin rows => Excused(x)

(* What was read was right, or the deletion has met its reader. *)
ReadHasRows ==
  \A s \in Requests : Reads(s) => \A x \in Named(snap[s]) : x \notin rows => Excused(x) \/ Due(s, x)

HeldRowsAreThere ==
  \A s \in Requests : HoldsRow(s) => \A x \in row[s] : x \notin rows => Due(s, x)

(* What was read is what there is, or somebody wrote meanwhile. *)
ReadIsCurrent ==
  \A s \in Requests : Reads(s) => snap[s] = items \/ \E w \in wrote : s \in met[w]

DecisionsStand ==
  \A t \in Texts : items[t].by = last[t] \/ met[last[t]] \intersect wrote # {}

DecisionsRead ==
  \A s \in Requests : Reads(s) =>
    \A t \in Texts :
      snap[s][t].by = last[t] \/ s \in met[last[t]] \/ met[last[t]] \intersect wrote # {}

Safe ==
  /\ KindsFit
  /\ WritersAreDone
  /\ ItemsHaveRows
  /\ ReadHasRows
  /\ HeldRowsAreThere
  /\ ReadIsCurrent
  /\ DecisionsStand
  /\ DecisionsRead

LEMMA InitSafe == Init => Safe
  <1> SUFFICES ASSUME Init PROVE Safe
    OBVIOUS
  <1>1. \A r \in Requests : pc[r] = "idle"
    BY DEF Init
  <1>2. KindsFit /\ ReadHasRows /\ HeldRowsAreThere /\ ReadIsCurrent /\ DecisionsRead
    BY <1>1 DEF KindsFit, ReadHasRows, HeldRowsAreThere, ReadIsCurrent, DecisionsRead, Reads, HoldsRow
  <1>3. WritersAreDone
    BY DEF Init, WritersAreDone
  <1>4. \A t \in Texts : items[t].by = Earlier /\ (items[t].status \in Kept => items[t].row \in rows)
    <2>1. CASE rows = {} /\ items = [t \in Texts |-> Item("absent", NoRow, Earlier)]
      BY <2>1 DEF Item, Kept
    <2>2. ASSUME NEW saved \in SUBSET Texts, rows = {Earlier} \X saved,
                 items = [t \in Texts |-> FirstItem(t, saved)],
                 NEW t \in Texts
          PROVE  items[t].by = Earlier /\ (items[t].status \in Kept => items[t].row \in rows)
      BY <2>2 DEF FirstItem, Item, Kept
    <2>3. QED
      BY <2>1, <2>2 DEF Init
  <1>5. ItemsHaveRows /\ DecisionsStand
    BY <1>4 DEF Init, ItemsHaveRows, Named, DecisionsStand
  <1>6. QED
    BY <1>2, <1>3, <1>5 DEF Safe

(* A step of r: the others stay, and it had not ended. *)
Frame(r) ==
  /\ \A s \in Requests \ {r} :
       pc'[s] = pc[s] /\ kind'[s] = kind[s] /\ row'[s] = row[s] /\ snap'[s] = snap[s]
  /\ \A w \in Everybody \ {r} : met'[w] = met[w]
  /\ wrote \subseteq wrote'
  /\ pc[r] # "ok"

KeepsKinds(r) ==
  /\ pc'[r] = "find" => kind'[r] \in {"update", "delete"}
  /\ pc'[r] \in {"erase", "commit"} => kind'[r] = "delete"

LEMMA Lasting ==
  ASSUME TypeOK, WritersAreDone, NEW r \in Requests, Frame(r)
  PROVE  /\ r \notin wrote
         /\ \A w \in wrote : met'[w] = met[w]
         /\ \A t \in Texts : last[t] # r /\ met'[last[t]] = met[last[t]]
         /\ \A x : Excused(x) => Excused(x)'
         /\ \A s, x : Due(s, x) => Due(s, x)'
  <1>1. r \notin wrote
    BY DEF Frame, WritersAreDone
  <1>2. \A w \in wrote : w \in Everybody \ {r} /\ met'[w] = met[w]
    BY <1>1 DEF Frame, TypeOK, Everybody
  <1>3. \A t \in Texts : last[t] # r /\ met'[last[t]] = met[last[t]]
    BY <1>1 DEF Frame, TypeOK, WritersAreDone
  <1>4. \A x : \A d \in Deleters(x) : d \in Deleters(x)' /\ met'[d] = met[d]
    BY DEF Deleters, Frame, Everybody
  <1>5. \A s, x : Due(s, x) => Due(s, x)'
    BY <1>4 DEF Due
  <1>6. ASSUME NEW x, Excused(x) PROVE Excused(x)'
    <2>1. PICK d \in Deleters(x) : met[d] \intersect wrote # {} \/ \E w \in wrote : d \in met[w]
      BY <1>6 DEF Excused
    <2>2. d \in Deleters(x)' /\ met'[d] = met[d] /\ wrote \subseteq wrote'
      BY <1>4 DEF Frame
    <2>3. met'[d] \intersect wrote' # {} \/ \E w \in wrote' : d \in met'[w]
      BY <1>2, <2>1, <2>2
    <2>4. QED
      BY <2>2, <2>3 DEF Excused
  <1>7. QED
    BY <1>1, <1>2, <1>3, <1>5, <1>6

(* A step that takes no row and decides nothing; what r reads is what there is. *)
Quiet(r) ==
  /\ rows \subseteq rows'
  /\ Reads(r)' => snap'[r] = items
  /\ HoldsRow(r)' => row'[r] \subseteq rows' \/ (HoldsRow(r) /\ row'[r] = row[r])
  /\ UNCHANGED <<items, history>>

LEMMA QuietSafe ==
  ASSUME TypeOK, Safe, NEW r \in Requests, Frame(r), KeepsKinds(r), Quiet(r)
  PROVE  Safe'
  <1>1. /\ \A x : Excused(x) => Excused(x)'
        /\ \A s, x : Due(s, x) => Due(s, x)'
    BY Lasting DEF Safe
  <1>2. KindsFit'
    BY DEF Safe, KindsFit, KeepsKinds, Frame
  <1>3. WritersAreDone'
    BY DEF Safe, WritersAreDone, Frame, Quiet, history, TypeOK
  <1>4. \A x \in Named(items) : x \notin rows' => Excused(x)'
    BY <1>1 DEF Safe, ItemsHaveRows, Quiet
  <1>5. ItemsHaveRows'
    BY <1>4 DEF ItemsHaveRows, Quiet
  <1>6. \A s \in Requests \ {r} : Reads(s)' = Reads(s) /\ HoldsRow(s)' = HoldsRow(s)
    BY DEF Frame, Reads, HoldsRow
  <1>7. ReadHasRows'
    <2> SUFFICES ASSUME NEW s \in Requests, Reads(s)', NEW x \in Named(snap'[s]), x \notin rows'
                 PROVE  Excused(x)' \/ Due(s, x)'
      BY DEF ReadHasRows, Named
    <2>1. CASE s = r
      BY <1>4, <2>1 DEF Quiet
    <2>2. CASE s # r
      BY <1>1, <1>6, <2>2 DEF Safe, ReadHasRows, Frame, Quiet
    <2>3. QED
      BY <2>1, <2>2
  <1>8. HeldRowsAreThere'
    <2> SUFFICES ASSUME NEW s \in Requests, HoldsRow(s)', NEW x \in row'[s], x \notin rows'
                 PROVE  Due(s, x)'
      BY DEF HeldRowsAreThere
    <2>1. HoldsRow(s) /\ row'[s] = row[s]
      BY <1>6 DEF Quiet, Frame
    <2>2. Due(s, x)
      BY <2>1 DEF Safe, HeldRowsAreThere, Quiet
    <2>3. QED
      BY <1>1, <2>2
  <1>9. ReadIsCurrent'
    BY <1>6 DEF Safe, ReadIsCurrent, Frame, Quiet, history
  <1>10. DecisionsStand'
    BY DEF Safe, DecisionsStand, Quiet, history
  <1>11. DecisionsRead'
    <2> SUFFICES ASSUME NEW s \in Requests, Reads(s)', NEW t \in Texts
                 PROVE  snap'[s][t].by = last[t] \/ s \in met[last[t]] \/ met[last[t]] \intersect wrote # {}
      BY DEF DecisionsRead, Quiet, history
    <2>1. CASE s = r
      BY <2>1 DEF Quiet, Safe, DecisionsStand
    <2>2. CASE s # r
      BY <1>6, <2>2 DEF Frame, Safe, DecisionsRead
    <2>3. QED
      BY <2>1, <2>2
  <1>12. QED
    BY <1>2, <1>3, <1>5, <1>7, <1>8, <1>9, <1>10, <1>11 DEF Safe

(* The last step of r, which may take the rows it was to delete. *)
Ends(r, taken) ==
  /\ pc[r] # "ok" /\ pc'[r] = "ok"
  /\ rows' = rows \ taken
  /\ taken = {} \/ (taken = row'[r] /\ kind'[r] = "delete")
  /\ Meet(r)

(* It writes what it read but for the texts ts, and names no row it has taken. *)
Writes(r, taken, new, ts) ==
  /\ WriteItems(r, new, ts)
  /\ \A x \in Named(new) :
       x \notin taken /\ (x \in rows \/ (HoldsRow(r) /\ x \in row[r]) \/ (Reads(r) /\ x \in Named(snap[r])))
  /\ \A t \in Texts : IF t \in ts THEN new[t].by = r ELSE Reads(r) /\ new[t].by = snap[r][t].by

(* Or it has found nothing to write. *)
WritesNothing(r, taken) ==
  /\ UNCHANGED <<items, last, wrote>>
  /\ taken \intersect Named(snap[r]) = {} /\ Reads(r)

LEMMA MetOthers ==
  ASSUME TypeOK, NEW r \in Requests, Meet(r), NEW s \in Requests \ {r}, Reads(s) \/ HoldsRow(s)
  PROVE  s \in met'[r]
  BY DEF TypeOK, Everybody, Meet, Holding, Reads, HoldsRow

LEMMA EndsSafe ==
  ASSUME TypeOK, Safe, NEW r \in Requests, Frame(r), NEW taken, Ends(r, taken),
         WritesNothing(r, taken) \/ \E new, ts : Writes(r, taken, new, ts)
  PROVE  Safe'
  <1>1. /\ \A x : Excused(x) => Excused(x)'
        /\ \A s, x : Due(s, x) => Due(s, x)'
        /\ r \notin wrote
        /\ \A w \in wrote : met'[w] = met[w]
        /\ \A t \in Texts : last[t] # r /\ met'[last[t]] = met[last[t]]
    BY Lasting DEF Safe
  <1>2. \A s \in Requests \ {r} : Reads(s)' = Reads(s) /\ HoldsRow(s)' = HoldsRow(s)
    BY DEF Frame, Reads, HoldsRow
  <1>3. ~ Reads(r)' /\ ~ HoldsRow(r)'
    BY DEF Ends, Reads, HoldsRow
  <1>4. wrote \subseteq wrote'
    BY DEF Frame
  <1>5. \A x \in taken : r \in Deleters(x)'
    BY DEF Ends, Deleters
  <1>6. ASSUME NEW s \in Requests \ {r}, Reads(s) \/ HoldsRow(s), NEW x \in taken
        PROVE  Due(s, x)'
    BY <1>5, <1>6, MetOthers DEF Due, Ends
  <1>7. \A x : x \notin rows' => x \notin rows \/ x \in taken
    BY DEF Ends
  <1>8. KindsFit'
    BY DEF Safe, KindsFit, Frame, Ends
  <1>9. WritersAreDone'
    <2>1. CASE WritesNothing(r, taken)
      BY <2>1, <1>1 DEF Safe, WritersAreDone, Frame, WritesNothing, TypeOK
    <2>2. CASE \E new, ts : Writes(r, taken, new, ts)
      <3>1. wrote' = wrote \union {r} /\ \A t \in Texts : last'[t] \in {r, last[t]}
        BY <2>2 DEF Writes, WriteItems
      <3>2. QED
        BY <3>1 DEF Safe, WritersAreDone, Frame, Ends, TypeOK
    <2>3. QED
      BY <2>1, <2>2
  <1>10. ItemsHaveRows'
    <2> SUFFICES ASSUME NEW x \in Named(items'), x \notin rows' PROVE Excused(x)'
      BY DEF ItemsHaveRows, Named
    <2>1. CASE WritesNothing(r, taken)
      <3>1. x \in Named(items)
        BY <2>1 DEF WritesNothing
      <3>2. CASE x \notin rows
        BY <1>1, <3>1, <3>2 DEF Safe, ItemsHaveRows
      <3>3. CASE x \in taken
        <4>1. snap[r] # items
          BY <2>1, <3>1, <3>3 DEF WritesNothing
        <4>2. PICK w \in wrote : r \in met[w]
          BY <2>1, <4>1 DEF WritesNothing, Safe, ReadIsCurrent
        <4>3. w \in wrote' /\ r \in met'[w]
          BY <1>1, <1>4, <4>2
        <4>4. QED
          BY <1>5, <3>3, <4>3 DEF Excused
      <3>4. QED
        BY <1>7, <3>2, <3>3
    <2>2. ASSUME NEW new, NEW ts, Writes(r, taken, new, ts) PROVE Excused(x)'
      <3>1. x \in Named(new) /\ r \in wrote'
        BY <2>2 DEF Writes, WriteItems
      <3>2. x \notin taken /\ x \notin rows
        BY <2>2, <3>1, <1>7 DEF Writes
      <3>3. (HoldsRow(r) /\ x \in row[r]) \/ (Reads(r) /\ x \in Named(snap[r]))
        BY <2>2, <3>1, <3>2 DEF Writes
      <3>4. Excused(x) \/ Due(r, x)
        BY <3>2, <3>3 DEF Safe, HeldRowsAreThere, ReadHasRows
      <3>5. CASE Excused(x)
        BY <1>1, <3>5
      <3>6. CASE Due(r, x)
        <4>1. Due(r, x)'
          BY <1>1, <3>6
        <4>2. PICK d \in Deleters(x)' : r \in met'[d]
          BY <4>1 DEF Due
        <4>3. QED
          BY <3>1, <4>2 DEF Excused
      <3>7. QED
        BY <3>4, <3>5, <3>6
    <2>3. QED
      BY <2>1, <2>2
  <1>11. ReadHasRows'
    <2> SUFFICES ASSUME NEW s \in Requests, Reads(s)', NEW x \in Named(snap'[s]), x \notin rows'
                 PROVE  Excused(x)' \/ Due(s, x)'
      BY DEF ReadHasRows, Named
    <2>1. s # r /\ Reads(s) /\ snap'[s] = snap[s]
      BY <1>2, <1>3 DEF Frame
    <2>2. CASE x \notin rows
      BY <1>1, <2>1, <2>2 DEF Safe, ReadHasRows
    <2>3. CASE x \in taken
      BY <1>6, <2>1, <2>3
    <2>4. QED
      BY <1>7, <2>2, <2>3
  <1>12. HeldRowsAreThere'
    <2> SUFFICES ASSUME NEW s \in Requests, HoldsRow(s)', NEW x \in row'[s], x \notin rows'
                 PROVE  Due(s, x)'
      BY DEF HeldRowsAreThere
    <2>1. s # r /\ HoldsRow(s) /\ row'[s] = row[s]
      BY <1>2, <1>3 DEF Frame
    <2>2. CASE x \notin rows
      BY <1>1, <2>1, <2>2 DEF Safe, HeldRowsAreThere
    <2>3. CASE x \in taken
      BY <1>6, <2>1, <2>3
    <2>4. QED
      BY <1>7, <2>2, <2>3
  <1>13. ReadIsCurrent'
    <2> SUFFICES ASSUME NEW s \in Requests, Reads(s)'
                 PROVE  snap'[s] = items' \/ \E w \in wrote' : s \in met'[w]
      BY DEF ReadIsCurrent
    <2>1. s # r /\ Reads(s) /\ snap'[s] = snap[s]
      BY <1>2, <1>3 DEF Frame
    <2>2. CASE WritesNothing(r, taken)
      BY <1>1, <1>4, <2>1, <2>2 DEF WritesNothing, Safe, ReadIsCurrent
    <2>3. CASE \E new, ts : Writes(r, taken, new, ts)
      <3>1. r \in wrote'
        BY <2>3 DEF Writes, WriteItems
      <3>2. s \in met'[r]
        BY <2>1, MetOthers DEF Ends
      <3>3. QED
        BY <3>1, <3>2
    <2>4. QED
      BY <2>2, <2>3
  <1>14. DecisionsStand'
    <2> SUFFICES ASSUME NEW t \in Texts
                 PROVE  items'[t].by = last'[t] \/ met'[last'[t]] \intersect wrote' # {}
      BY DEF DecisionsStand
    <2>1. CASE WritesNothing(r, taken)
      BY <1>1, <1>4, <2>1 DEF WritesNothing, Safe, DecisionsStand
    <2>2. ASSUME NEW new, NEW ts, Writes(r, taken, new, ts)
          PROVE  items'[t].by = last'[t] \/ met'[last'[t]] \intersect wrote' # {}
      <3>1. items' = new /\ r \in wrote' /\ last'[t] = IF t \in ts THEN r ELSE last[t]
        BY <2>2 DEF Writes, WriteItems
      <3>2. CASE t \in ts
        BY <2>2, <3>1, <3>2 DEF Writes
      <3>3. CASE t \notin ts
        <4>1. Reads(r) /\ items'[t].by = snap[r][t].by
          BY <2>2, <3>1, <3>3 DEF Writes
        <4>2. snap[r][t].by = last[t] \/ r \in met[last[t]] \/ met[last[t]] \intersect wrote # {}
          BY <4>1 DEF Safe, DecisionsRead
        <4>3. QED
          BY <1>1, <1>4, <3>1, <3>3, <4>1, <4>2
      <3>4. QED
        BY <3>2, <3>3
    <2>3. QED
      BY <2>1, <2>2
  <1>15. DecisionsRead'
    <2> SUFFICES ASSUME NEW s \in Requests, Reads(s)', NEW t \in Texts
                 PROVE  \/ snap'[s][t].by = last'[t]
                        \/ s \in met'[last'[t]] \/ met'[last'[t]] \intersect wrote' # {}
      BY DEF DecisionsRead
    <2>1. s # r /\ Reads(s) /\ snap'[s] = snap[s]
      BY <1>2, <1>3 DEF Frame
    <2>2. snap[s][t].by = last[t] \/ s \in met[last[t]] \/ met[last[t]] \intersect wrote # {}
      BY <2>1 DEF Safe, DecisionsRead
    <2>3. last'[t] = last[t] \/ last'[t] = r
      BY DEF WritesNothing, Writes, WriteItems
    <2>4. CASE last'[t] = last[t]
      BY <1>1, <1>4, <2>1, <2>2, <2>4
    <2>5. CASE last'[t] = r
      BY <2>1, <2>5, MetOthers DEF Ends
    <2>6. QED
      BY <2>3, <2>4, <2>5
  <1>16. QED
    BY <1>8, <1>9, <1>10, <1>11, <1>12, <1>13, <1>14, <1>15 DEF Safe

LEMMA FinishSafe ==
  ASSUME TypeOK, Safe, NEW r \in Requests, NEW from, NEW a \in {"ok", "error"},
         Finish(r, from, a), from # "ok"
  PROVE  Safe'
  <1>1. pc[r] # "ok" /\ pc'[r] \in {"ok", "error"}
    BY DEF Finish, Goto, TypeOK
  <1>2. Frame(r)
    BY <1>1 DEF Finish, Goto, Forget, Frame, TypeOK, request, history
  <1>3. KeepsKinds(r) /\ Quiet(r)
    BY <1>1 DEF KeepsKinds, Quiet, Reads, HoldsRow, Finish, stored, history
  <1>4. QED
    BY <1>2, <1>3, QuietSafe

LEMMA LookSafe ==
  ASSUME TypeOK, Safe, NEW r \in Requests, NEW from, NEW to, Look(r, from, to),
         <<from, to>> \in {<<"look", "mark">>, <<"read", "write">>, <<"erase", "commit">>}
  PROVE  Safe'
  <1>1. pc[r] = from /\ pc'[r] = to /\ snap'[r] = items
    BY DEF Look, Goto, TypeOK
  <1>2. Frame(r)
    BY <1>1 DEF Look, Goto, Frame, TypeOK, request, history
  <1>3. KeepsKinds(r)
    BY <1>1 DEF KeepsKinds, Look, request, Safe, KindsFit
  <1>4. Quiet(r)
    BY <1>1 DEF Quiet, HoldsRow, Look, stored, history
  <1>5. QED
    BY <1>2, <1>3, <1>4, QuietSafe

LEMMA NextSafe == TypeOK /\ Safe /\ [Next]_vars => Safe'
  <1> SUFFICES ASSUME TypeOK, Safe, [Next]_vars PROVE Safe'
    OBVIOUS
  <1>1. ASSUME NEW r \in Requests, Receive(r) PROVE Safe'
    <2>1. PICK k \in Kinds, t \in Texts :
            /\ Goto(r, "idle", Start(k))
            /\ kind' = [kind EXCEPT ![r] = k]
      BY <1>1 DEF Receive
    <2>2. pc'[r] \in {"ask", "insert", "read", "find"} /\ (pc'[r] = "find" => k \in {"update", "delete"})
      BY <2>1 DEF Goto, Start, TypeOK, Kinds
    <2>3. Frame(r)
      BY <1>1, <2>1 DEF Receive, Goto, Frame, TypeOK, local, history
    <2>4. KeepsKinds(r)
      BY <2>1, <2>2 DEF KeepsKinds, TypeOK
    <2>5. Quiet(r)
      BY <1>1, <2>2 DEF Quiet, Reads, HoldsRow, Receive, stored, history
    <2>6. QED
      BY <2>3, <2>4, <2>5, QuietSafe
  <1>2. ASSUME NEW r \in Requests, Analyze(r) \/ AutoSave(r) PROVE Safe'
    <2>1. pc[r] \in {"ask", "save"} /\ pc'[r] = "save" /\ rows \subseteq rows'
      BY <1>2 DEF Analyze, AutoSave, Goto, TypeOK, stored
    <2>2. /\ \A s \in Requests \ {r} : pc'[s] = pc[s]
          /\ UNCHANGED <<items, request, row, snap, history>>
      BY <1>2 DEF Analyze, AutoSave, Goto, TypeOK, stored
    <2>3. Frame(r) /\ KeepsKinds(r) /\ Quiet(r)
      BY <2>1, <2>2 DEF Frame, KeepsKinds, Quiet, Reads, HoldsRow, request, history
    <2>4. QED
      BY <2>3, QuietSafe
  <1>3. ASSUME NEW r \in Requests, Attach(r) PROVE Safe'
    <2> DEFINE new == [t \in Texts |-> Analysed(r, t)]
    <2>1. Goto(r, "save", "ok") /\ WriteItems(r, new, Texts) /\ UNCHANGED <<rows, request, row, snap>>
      BY <1>3 DEF Attach
    <2>2. Frame(r)
      BY <2>1 DEF Goto, WriteItems, Meet, Frame, TypeOK, request
    <2>3. Ends(r, {})
      BY <2>1 DEF Ends, Goto, WriteItems, TypeOK
    <2>4. /\ \A t \in Texts : new[t].by = r
          /\ \A t \in Texts : new[t].status \in Kept => new[t].row \in rows
      BY DEF Analysed, Item, Kept
    <2>5. Writes(r, {}, new, Texts)
      BY <2>1, <2>4 DEF Writes, Named
    <2>6. QED
      BY <2>2, <2>3, <2>5, EndsSafe
  <1>4. ASSUME NEW r \in Requests, Insert(r) PROVE Safe'
    <2>1. pc[r] = "insert" /\ pc'[r] = "look" /\ rows \subseteq rows' /\ row'[r] \subseteq rows'
      BY <1>4 DEF Insert, Goto, TypeOK
    <2>2. Frame(r)
      BY <1>4, <2>1 DEF Insert, Goto, Frame, TypeOK, request, history
    <2>3. KeepsKinds(r) /\ Quiet(r)
      BY <1>4, <2>1 DEF Insert, KeepsKinds, Quiet, Reads
    <2>4. QED
      BY <2>2, <2>3, QuietSafe
  <1>5. ASSUME NEW r \in Requests, Find(r) PROVE Safe'
    <2>1. ASSUME NEW xs \in Found(r), Goto(r, "find", IF kind[r] = "update" THEN "update" ELSE "erase"),
                 row' = [row EXCEPT ![r] = xs],
                 UNCHANGED <<stored, request, snap, todo, history>>
          PROVE  Safe'
      <3>1. row'[r] \subseteq rows
        BY <2>1 DEF Found, TypeOK
      <3>2. /\ pc[r] = "find" /\ pc'[r] \in {"update", "erase"}
            /\ pc'[r] = "erase" => kind[r] = "delete"
        BY <2>1 DEF Goto, TypeOK, Safe, KindsFit
      <3>3. Frame(r)
        BY <2>1, <3>2 DEF Goto, Frame, TypeOK, request, history
      <3>4. KeepsKinds(r) /\ Quiet(r)
        BY <2>1, <3>1, <3>2 DEF KeepsKinds, Quiet, Reads, stored, request, history
      <3>5. QED
        BY <3>3, <3>4, QuietSafe
    <2>2. QED
      BY <1>5, <2>1, FinishSafe DEF Find
  <1>6. ASSUME NEW r \in Requests, Update(r) PROVE Safe'
    <2>1. Finish(r, "update", "look")
      BY <1>6 DEF Update
    <2>2. pc[r] = "update" /\ pc'[r] = "look"
      BY <2>1 DEF Finish, Goto, TypeOK
    <2>3. Frame(r)
      BY <2>1, <2>2 DEF Finish, Goto, Forget, Frame, TypeOK, request, history
    <2>4. KeepsKinds(r) /\ Quiet(r)
      BY <2>1, <2>2 DEF KeepsKinds, Quiet, Reads, HoldsRow, Finish, stored, history
    <2>5. QED
      BY <2>3, <2>4, QuietSafe
  <1>7. ASSUME NEW r \in Requests, LookToMark(r) PROVE Safe'
    BY <1>7, FinishSafe, LookSafe DEF LookToMark
  <1>8. ASSUME NEW r \in Requests, Mark(r) PROVE Safe'
    <2>1. PICK x \in row[r] :
            WriteItems(r, [snap[r] EXCEPT ![text[r]] = Item("Saved", x, r)], {text[r]})
      BY <1>8 DEF Mark
    <2> DEFINE new == [snap[r] EXCEPT ![text[r]] = Item("Saved", x, r)]
    <2>2. Goto(r, "mark", "ok") /\ Forget(r) /\ UNCHANGED <<rows, request, row>>
      BY <1>8 DEF Mark
    <2>3. pc[r] = "mark" /\ pc'[r] = "ok"
      BY <2>2 DEF Goto, TypeOK
    <2>4. Frame(r)
      BY <2>1, <2>2, <2>3 DEF Goto, Forget, WriteItems, Meet, Frame, TypeOK, request
    <2>5. Ends(r, {})
      BY <2>1, <2>2, <2>3 DEF Ends, WriteItems
    <2>6. /\ new[text[r]].by = r /\ new[text[r]].row = x
          /\ \A t \in Texts \ {text[r]} : new[t] = snap[r][t]
      BY DEF TypeOK, Item
    <2>7. Writes(r, {}, new, {text[r]})
      BY <2>1, <2>3, <2>6 DEF Writes, Named, Reads, HoldsRow
    <2>8. QED
      BY <2>4, <2>5, <2>7, EndsSafe
  <1>9. ASSUME NEW r \in Requests, ReadToDiscard(r) PROVE Safe'
    BY <1>9, FinishSafe, LookSafe DEF ReadToDiscard
  <1>10. ASSUME NEW r \in Requests, Discard(r) PROVE Safe'
    <2> DEFINE new == [snap[r] EXCEPT ![text[r]] = Item("discarded", @.row, r)]
    <2>1. WriteItems(r, new, {text[r]})
      BY <1>10 DEF Discard
    <2>2. Goto(r, "write", "ok") /\ Forget(r) /\ UNCHANGED <<rows, request, row>>
      BY <1>10 DEF Discard
    <2>3. pc[r] = "write" /\ pc'[r] = "ok"
      BY <2>2 DEF Goto, TypeOK
    <2>4. Frame(r)
      BY <2>1, <2>2, <2>3 DEF Goto, Forget, WriteItems, Meet, Frame, TypeOK, request
    <2>5. Ends(r, {})
      BY <2>1, <2>2, <2>3 DEF Ends, WriteItems
    <2>6. /\ new[text[r]].by = r /\ new[text[r]].status \notin Kept
          /\ \A t \in Texts \ {text[r]} : new[t] = snap[r][t]
      BY DEF TypeOK, Item, Kept
    <2>7. Writes(r, {}, new, {text[r]})
      BY <2>1, <2>3, <2>6 DEF Writes, Named, Reads
    <2>8. QED
      BY <2>4, <2>5, <2>7, EndsSafe
  <1>11. ASSUME NEW r \in Requests, Erase(r) PROVE Safe'
    BY <1>11, LookSafe DEF Erase
  <1>12. ASSUME NEW r \in Requests, CommitDelete(r) PROVE Safe'
    <2> DEFINE new == [t \in Texts |-> IF t \in Naming(r)
                                       THEN Item("discarded", snap[r][t].row, r) ELSE snap[r][t]]
    <2>1. /\ Goto(r, "commit", "ok") /\ Forget(r) /\ UNCHANGED <<request, row>>
          /\ rows' = rows \ row[r]
      BY <1>12 DEF CommitDelete
    <2>2. pc[r] = "commit" /\ pc'[r] = "ok" /\ kind[r] = "delete"
      BY <2>1 DEF Goto, TypeOK, Safe, KindsFit
    <2>3. CASE WriteItems(r, new, Naming(r))
      <3>1. Frame(r)
        BY <2>1, <2>2, <2>3 DEF Goto, Forget, WriteItems, Meet, Frame, TypeOK, request
      <3>2. Ends(r, row[r])
        BY <2>1, <2>2, <2>3 DEF Ends, WriteItems, request
      <3>3. \A t \in Naming(r) : new[t].by = r /\ new[t].status \notin Kept
        BY DEF Item, Kept, Naming
      <3>4. \A t \in Texts \ Naming(r) : new[t] = snap[r][t] /\ new[t].row \notin row[r]
        BY DEF Naming
      <3>5. Writes(r, row[r], new, Naming(r))
        <4>1. ASSUME NEW x \in Named(new) PROVE x \notin row[r] /\ x \in Named(snap[r])
          BY <3>3, <3>4 DEF Named
        <4>2. QED
          BY <2>2, <2>3, <3>3, <3>4, <4>1 DEF Writes, Reads
      <3>6. QED
        BY <3>1, <3>2, <3>5, EndsSafe
    <2>4. CASE Naming(r) = {} /\ Meet(r) /\ UNCHANGED <<items, last, wrote>>
      <3>1. Frame(r)
        BY <2>1, <2>2, <2>4 DEF Goto, Forget, Meet, Frame, TypeOK, request
      <3>2. Ends(r, row[r])
        BY <2>1, <2>2, <2>4 DEF Ends, request
      <3>3. WritesNothing(r, row[r])
        BY <2>2, <2>4 DEF WritesNothing, Naming, Named, Reads
      <3>4. QED
        BY <3>1, <3>2, <3>3, EndsSafe
    <2>5. QED
      BY <1>12, <2>3, <2>4 DEF CommitDelete
  <1>13. ASSUME NEW r \in Requests, AutoSaveFails(r) \/ MarkFails(r) \/ StatementFails(r)
         PROVE  Safe'
    <2>1. PICK from \in Steps, a \in {"ok", "error"} : Finish(r, from, a) /\ from # "ok"
      BY <1>13 DEF TypeOK, Steps, AutoSaveFails, MarkFails, StatementFails, Underway
    <2>2. QED
      BY <2>1, FinishSafe
  <1>14. CASE UNCHANGED vars
    BY <1>14 DEF vars, stored, request, local, history, Safe, KindsFit, WritersAreDone, ItemsHaveRows,
       ReadHasRows, HeldRowsAreThere, ReadIsCurrent, DecisionsStand, DecisionsRead, Excused, Due,
       Deleters, Reads, HoldsRow, Named
  <1>15. QED
    BY <1>1, <1>2, <1>3, <1>4, <1>5, <1>6, <1>7, <1>8, <1>9, <1>10, <1>11, <1>12, <1>13, <1>14
       DEF Next, Work

LEMMA Invariance == Spec => [](TypeOK /\ Safe)
  <1>1. Init => TypeOK /\ Safe
    BY InitType, InitSafe
  <1>2. TypeOK /\ Safe /\ [Next]_vars => (TypeOK /\ Safe)'
    BY TypeStep, NextSafe
  <1>3. QED
    BY <1>1, <1>2, PTL DEF Spec

(* Every variable of a message's memories keeps its type. *)
THEOREM TypeCorrect == Spec => []TypeOK
  BY Invariance, PTL

(***************************************************************************)
(* A text that the message calls saved has its row in agno_memories, or    *)
(* the deletion of the row overlapped with one who wrote the message.      *)
(***************************************************************************)
THEOREM SavedHasRowHolds == Spec => []SavedHasRow
  <1>1. Safe => SavedHasRow
    BY DEF Safe, ItemsHaveRows, Named, Excused, SavedHasRow
  <1>2. QED
    BY Invariance, <1>1, PTL

(* Only a writer that had read the message before undoes a decision about a text. *)
THEOREM DecisionLostOnlyByOverlapHolds == Spec => []DecisionLostOnlyByOverlap
  <1>1. Safe => DecisionLostOnlyByOverlap
    BY DEF Safe, DecisionsStand, DecisionLostOnlyByOverlap
  <1>2. QED
    BY Invariance, <1>1, PTL

-----------------------------------------------------------------------------
(* The list of memories: for any readers and writers, whatever fails, a list that lacks a *)
(* settled change is in Redis only through a fill that overlapped the DELETE, and the      *)
(* handlers implement StaleReads.                                                           *)

(* A reader that is to store a list has one; it lacks no settled change, or the reader *)
(* held it when the key was last deleted.                                              *)
FillsAreKnown ==
  \A r \in Readers : at[r] = "store" =>
    /\ list[r] \in 0 .. truth
    /\ list[r] >= settled \/ r \in filling

(* What these readers hold does not change any more. *)
FillingHasFetched == \A r \in filling : at[r] \in {"store", "done"}

CacheInv ==
  /\ CacheTypeOK
  /\ settled <= truth
  /\ entry # None => entry <= truth
  /\ FillsAreKnown
  /\ FillingHasFetched
  /\ OldOnlyFromOverlappingFill

LEMMA CacheInitInv ==
  CacheInit => CacheInv
  BY DEF CacheInit, CacheInv, CacheTypeOK, FillsAreKnown, FillingHasFetched,
     OldOnlyFromOverlappingFill,
     None, Ages, CacheSteps

LEMMA CacheTypeStep ==
  CacheTypeOK /\ [CacheNext]_cacheVars => CacheTypeOK'
  <1> SUFFICES ASSUME CacheTypeOK, [CacheNext]_cacheVars PROVE CacheTypeOK'
    OBVIOUS
  <1> USE DEF CacheTypeOK, Ages, None, CacheSteps, Move, data,
  held, cacheHistory
  <1>1. ASSUME NEW r \in Readers, Ask(r) PROVE CacheTypeOK'
    <2>1. Oldest \in 0 .. MaxChanges
      <3>1. {v \in 1 .. truth : \A c \in Copies : v <= c} \subseteq 1 .. truth
        OBVIOUS
      <3>2. IsFiniteSet(1 .. truth) /\ Cardinality(1 .. truth) = truth
        BY FS_Interval
      <3>3. Oldest \in Nat /\ Oldest <= truth
        BY <3>1, <3>2, FS_Subset, FS_CardinalityType DEF Oldest
      <3>4. QED
        BY <3>3
    <2>2. QED
      BY <1>1, <2>1 DEF Ask
  <1>2. ASSUME NEW r \in Readers,
  Hit(r) \/ Miss(r) \/ FetchFails(r) PROVE CacheTypeOK'
    BY <1>2 DEF Hit, Miss, FetchFails
  <1>3. ASSUME NEW r \in Readers, Fetch(r) PROVE CacheTypeOK'
    BY <1>3 DEF Fetch
  <1>4. ASSUME NEW r \in Readers, Store(r) \/ StoreFails(r) PROVE CacheTypeOK'
    BY <1>4 DEF Store, StoreFails, AnswerFetched
  <1>5. ASSUME NEW w \in Writers, Change(w) \/ ChangeUnanswered(w) PROVE CacheTypeOK'
    BY <1>5 DEF Change, ChangeUnanswered, Changes
  <1>6. ASSUME NEW w \in Writers,
  Invalidate(w) \/ InvalidateFails(w) PROVE CacheTypeOK'
    BY <1>6 DEF Invalidate, InvalidateFails
  <1>7. CASE AiqChanges \/ Expire
    BY <1>7 DEF AiqChanges, Expire, Changes
  <1>8. CASE UNCHANGED cacheVars
    BY <1>8 DEF cacheVars
  <1>9. QED
    BY <1>1, <1>2, <1>3, <1>4, <1>5, <1>6, <1>7, <1>8 DEF CacheNext, Read

(* A step that stores nothing and settles nothing, and lets no reader begin to hold a list. *)
LEMMA MovingOn ==
  ASSUME CacheInv, CacheTypeOK',
         truth' >= truth,
         entry' \in {entry, None},
         \A r \in Readers : at'[r] = "store" => at[r] = "store",
         \A r \in filling : at'[r] \in {at[r], "done"},
         UNCHANGED <<list, settled, filling>>
  PROVE  CacheInv'
  <1> USE DEF CacheInv, CacheTypeOK, Ages, None
  <1>1. settled' <= truth' /\ (entry' # None => entry' <= truth')
    OBVIOUS
  <1>2. FillsAreKnown'
    BY DEF FillsAreKnown
  <1>3. FillingHasFetched'
    BY DEF FillingHasFetched
  <1>4. OldOnlyFromOverlappingFill'
    BY DEF OldOnlyFromOverlappingFill
  <1>5. QED
    BY <1>1, <1>2, <1>3, <1>4

LEMMA CacheNextInv ==
  CacheInv /\ [CacheNext]_cacheVars => CacheInv'
  <1> SUFFICES ASSUME CacheInv, [CacheNext]_cacheVars PROVE CacheInv'
    OBVIOUS
  <1>0. CacheTypeOK /\ CacheTypeOK'
    BY CacheTypeStep DEF CacheInv
  <1> USE <1>0 DEF CacheTypeOK, Move, data, held, cacheHistory
  <1>1. ASSUME NEW r \in Readers,
  Ask(r) \/ Hit(r) \/ Miss(r) \/ FetchFails(r) PROVE CacheInv'
    BY <1>1, MovingOn DEF Ask, Hit, Miss, FetchFails, CacheInv,
       FillingHasFetched
  <1>2. ASSUME NEW r \in Readers, StoreFails(r) PROVE CacheInv'
    BY <1>2, MovingOn DEF StoreFails, CacheInv, FillingHasFetched
  <1>3. ASSUME NEW w \in Writers, Change(w) \/ ChangeUnanswered(w) PROVE CacheInv'
    BY <1>3, MovingOn DEF Change, ChangeUnanswered, Changes, CacheInv,
       FillingHasFetched
  <1>4. ASSUME NEW w \in Writers, InvalidateFails(w) PROVE CacheInv'
    BY <1>4, MovingOn DEF InvalidateFails, CacheInv, FillingHasFetched
  <1>5. CASE AiqChanges \/ Expire
    BY <1>5, MovingOn DEF AiqChanges, Expire, Changes, CacheInv, FillingHasFetched
  <1>6. ASSUME NEW r \in Readers, Fetch(r) PROVE CacheInv'
    <2> USE <1>6 DEF Fetch, CacheInv
    <2>1. r \notin filling
      BY DEF FillingHasFetched
    <2>2. FillsAreKnown'
      BY DEF FillsAreKnown
    <2>3. FillingHasFetched'
      BY <2>1 DEF FillingHasFetched
    <2>4. OldOnlyFromOverlappingFill'
      BY <2>1 DEF OldOnlyFromOverlappingFill
    <2>5. QED
      BY <2>2, <2>3, <2>4
  <1>7. ASSUME NEW r \in Readers, Store(r) PROVE CacheInv'
    <2> USE <1>7 DEF Store, AnswerFetched, CacheInv
    <2>1. FillsAreKnown'
      BY DEF FillsAreKnown
    <2>2. FillingHasFetched'
      BY DEF FillingHasFetched
    <2>3. OldOnlyFromOverlappingFill' /\ (entry' # None => entry' <= truth')
      BY DEF OldOnlyFromOverlappingFill, FillsAreKnown
    <2>4. QED
      BY <2>1, <2>2, <2>3
  <1>8. ASSUME NEW w \in Writers, Invalidate(w) PROVE CacheInv'
    <2> USE <1>8 DEF Invalidate, CacheInv
    <2>1. FillsAreKnown'
      BY DEF FillsAreKnown
    <2>2. FillingHasFetched'
      BY DEF FillingHasFetched
    <2>3. OldOnlyFromOverlappingFill'
      BY DEF OldOnlyFromOverlappingFill
    <2>4. QED
      BY <2>1, <2>2, <2>3
  <1>9. CASE UNCHANGED cacheVars
    BY <1>9, MovingOn DEF cacheVars, CacheInv
  <1>10. QED
    BY <1>1, <1>2, <1>3, <1>4, <1>5, <1>6, <1>7, <1>8, <1>9 DEF CacheNext, Read

LEMMA CacheInvariance ==
  CacheSpec => []CacheInv
  BY CacheInitInv, CacheNextInv, PTL DEF CacheSpec

(* Every variable of the cache, its readers and its writers keeps its type. *)
THEOREM CacheTypeCorrect ==
  CacheSpec => []CacheTypeOK
  <1>1. CacheInv => CacheTypeOK
    BY DEF CacheInv
  <1>2. QED
    BY CacheInvariance, <1>1, PTL

(***************************************************************************)
(* After the DELETE that follows a change, a list without it comes back to *)
(* Redis only through a reader that had fetched it by then.                *)
(***************************************************************************)
THEOREM OldOnlyFromOverlappingFillHolds ==
  CacheSpec => []OldOnlyFromOverlappingFill
  <1>1. CacheInv => OldOnlyFromOverlappingFill
    BY DEF CacheInv
  <1>2. QED
    BY CacheInvariance, <1>1, PTL

-----------------------------------------------------------------------------
(* What is shown by all of D as well as by all of C is at least what C shows. *)
Shown(n, C) == {v \in 1 .. n : \A c \in C : v <= c}

LEMMA ShownCount ==
  ASSUME NEW n \in Nat, NEW C
  PROVE  /\ IsFiniteSet(Shown(n, C))
         /\ Cardinality(Shown(n, C)) \in 0 .. n
         /\ \A c \in C : c \in Nat => Cardinality(Shown(n, C)) <= c
  <1>1. ASSUME NEW k \in Nat, Shown(n, C) \subseteq 1 .. k
        PROVE  /\ IsFiniteSet(Shown(n, C))
               /\ Cardinality(Shown(n, C)) \in 0 .. k
    <2>1. IsFiniteSet(1 .. k) /\ Cardinality(1 .. k) = k
      BY FS_Interval
    <2>2. /\ IsFiniteSet(Shown(n, C))
          /\ Cardinality(Shown(n, C)) <= k
      BY <1>1, <2>1, FS_Subset
    <2>3. QED
      BY <2>2, FS_CardinalityType
  <1>2. Shown(n, C) \subseteq 1 .. n
    BY DEF Shown
  <1>3. ASSUME NEW c \in C, c \in Nat PROVE Shown(n, C) \subseteq 1 .. c
    BY <1>3 DEF Shown
  <1>4. QED
    BY <1>1, <1>2, <1>3

LEMMA ShownGrows ==
  ASSUME NEW n \in Nat, NEW m \in Nat, n <= m,
         NEW C \in SUBSET Int, NEW D \in SUBSET Int,
         \A d \in D : \E c \in C : c <= d
  PROVE  Cardinality(Shown(n, C)) <= Cardinality(Shown(m, D))
  <1>1. Shown(n, C) \subseteq Shown(m, D)
    BY DEF Shown
  <1>2. QED
    BY <1>1, ShownCount, FS_Subset

(* Who has asked, and who has answered; what may still be served to whom. *)
AskedInTime ==
  \A r \in Readers :
    /\ at[r] = "idle" => asked[r] = None
    /\ at[r] \in {"get", "fetch", "store"} => asked[r] \in 0 .. Oldest
    /\ answer[r] # None => at[r] = "done"

PInv == CacheInv /\ AskedInTime

LEMMA CopiesType ==
  ASSUME CacheInv
  PROVE  /\ Copies \in SUBSET Nat
         /\ Oldest \in 0 .. truth
         /\ \A c \in Copies : Oldest <= c
         /\ Oldest = Cardinality(Shown(truth, Copies))
  <1>1. Copies \in SUBSET Nat
    BY DEF CacheInv, CacheTypeOK, Copies, Ages, None, FillsAreKnown
  <1>2. truth \in Nat
    BY DEF CacheInv, CacheTypeOK
  <1>3. Oldest = Cardinality(Shown(truth, Copies))
    BY DEF Oldest, Shown
  <1>4. QED
    BY <1>1, <1>2, <1>3, ShownCount

(* Copies may go, and a change may add a newer one: the oldest never gets older. *)
LEMMA OldestGrows ==
  ASSUME CacheInv, CacheInv', truth' >= truth,
         \A d \in Copies' : d \in Copies \/ d = truth'
  PROVE  Oldest' \in Oldest .. truth'
  <1>1. /\ Copies \in SUBSET Nat /\ Oldest \in 0 .. truth
        /\ Oldest = Cardinality(Shown(truth, Copies))
    BY CopiesType
  <1>2. /\ Copies' \in SUBSET Nat /\ Oldest' \in 0 .. truth'
        /\ Oldest' = Cardinality(Shown(truth', Copies'))
    <2>1. Copies' \in SUBSET Nat
      BY DEF CacheInv, CacheTypeOK, Copies, Ages, None, FillsAreKnown
    <2>2. truth' \in Nat
      BY DEF CacheInv, CacheTypeOK
    <2>3. Oldest' = Cardinality(Shown(truth', Copies'))
      BY DEF Oldest, Shown
    <2>4. QED
      BY <2>1, <2>2, <2>3, ShownCount
  <1>3. truth \in Copies /\ truth \in Nat /\ truth' \in Nat
    BY DEF Copies, CacheInv, CacheTypeOK
  <1>4. \A d \in Copies' : \E c \in Copies : c <= d
    BY <1>1, <1>2, <1>3
  <1>5. Cardinality(Shown(truth, Copies)) <= Cardinality(Shown(truth', Copies'))
    BY <1>1, <1>2, <1>3, <1>4, ShownGrows
  <1>6. QED
    BY <1>1, <1>2, <1>3, <1>5

PromiseStep == [Promise!Next]_(Promise!vars)

LEMMA InitPInv ==
  CacheInit => PInv /\ Promise!Init
  <1> SUFFICES ASSUME CacheInit PROVE PInv /\ Promise!Init
    OBVIOUS
  <1>1. CacheInv
    BY CacheInitInv
  <1>2. AskedInTime
    BY DEF CacheInit, AskedInTime
  <1>3. truth = 0 /\ Oldest = 0
    BY <1>1, CopiesType DEF CacheInit
  <1>4. Promise!Init
    BY <1>3 DEF CacheInit, Promise!Init, Promise!None, None
  <1>5. QED
    BY <1>1, <1>2, <1>4 DEF PInv

(* A step that neither asks nor answers, and makes no copy but of the newest list. *)
LEMMA NeitherAsksNorAnswers ==
  ASSUME PInv, CacheInv', truth' \in {truth, truth + 1},
         \A d \in Copies' : d \in Copies \/ d = truth',
         \A r \in Readers : at'[r] # at[r] =>
           /\ at'[r] \in {"get", "fetch", "store"} => at[r] \in {"get", "fetch", "store"}
           /\ at'[r] # "idle" /\ at[r] # "done",
         UNCHANGED <<asked, answer>>
  PROVE  AskedInTime' /\ PromiseStep
  <1>1. Oldest' \in Oldest .. truth' /\ Oldest \in 0 .. truth /\ truth \in Nat
    BY OldestGrows, CopiesType DEF PInv, CacheInv, CacheTypeOK
  <1>2. AskedInTime'
    <2> SUFFICES ASSUME NEW r \in Readers
                 PROVE  /\ at'[r] = "idle" => asked[r] = None
                        /\ at'[r] \in {"get", "fetch", "store"} => asked[r] \in 0 .. Oldest'
                        /\ answer[r] # None => at'[r] = "done"
      BY DEF AskedInTime
    <2>1. at[r] \in CacheSteps /\ at'[r] \in CacheSteps
      BY DEF PInv, CacheInv, CacheTypeOK
    <2>2. CASE at'[r] = at[r]
      BY <1>1, <2>2 DEF PInv, AskedInTime
    <2>3. CASE at'[r] # at[r]
      BY <1>1, <2>1, <2>3 DEF PInv, AskedInTime, CacheSteps
    <2>4. QED
      BY <2>2, <2>3
  <1>3. Promise!Change \/ Promise!Retire
    BY <1>1 DEF Promise!Change, Promise!Retire
  <1>4. QED
    BY <1>2, <1>3 DEF PromiseStep, Promise!Next

(* An answer is made of a copy, which goes with it or stays. *)
LEMMA AnswersFromCopy ==
  ASSUME PInv, CacheInv', NEW r \in Readers, NEW v \in Copies,
         at[r] \in {"get", "store"}, v <= truth,
         at' = [at EXCEPT ![r] = "done"],
         answer' = [answer EXCEPT ![r] = v],
         \A d \in Copies' : d \in Copies,
         UNCHANGED <<truth, asked>>
  PROVE  AskedInTime' /\ PromiseStep
  <1>1. /\ Oldest' \in Oldest .. truth /\ Oldest \in 0 .. truth /\ truth \in Nat
        /\ Oldest <= v /\ v \in Nat
    BY OldestGrows, CopiesType DEF PInv, CacheInv, CacheTypeOK
  <1>2. asked[r] \in 0 .. Oldest /\ answer[r] = None
    BY DEF PInv, AskedInTime
  <1>3. AskedInTime'
    <2> SUFFICES ASSUME NEW s \in Readers
                 PROVE  /\ at'[s] = "idle" => asked[s] = None
                        /\ at'[s] \in {"get", "fetch", "store"} => asked[s] \in 0 .. Oldest'
                        /\ answer'[s] # None => at'[s] = "done"
      BY DEF AskedInTime
    <2>1. at \in [Readers \union Writers -> CacheSteps] /\ answer \in [Readers -> Ages]
      BY DEF PInv, CacheInv, CacheTypeOK
    <2>2. QED
      BY <1>1, <2>1 DEF PInv, AskedInTime
  <1>4. Promise!Answer(r)
    <2>1. v \in asked[r] .. truth
      BY <1>1, <1>2
    <2>2. asked[r] # Promise!None /\ answer[r] = Promise!None
      BY <1>2 DEF Promise!None, None
    <2>3. QED
      BY <1>1, <2>1, <2>2 DEF Promise!Answer
  <1>5. QED
    BY <1>3, <1>4 DEF PromiseStep, Promise!Next

LEMMA StepRefines ==
  PInv /\ [CacheNext]_cacheVars => PInv' /\ PromiseStep
  <1> SUFFICES ASSUME PInv, [CacheNext]_cacheVars PROVE PInv' /\ PromiseStep
    OBVIOUS
  <1>0. CacheInv /\ CacheInv' /\ CacheTypeOK
    BY CacheNextInv DEF PInv, CacheInv
  <1> USE <1>0 DEF PInv
  <1> USE DEF CacheTypeOK, Move, data, held, cacheHistory
  <1>1. ASSUME NEW r \in Readers, Ask(r) PROVE AskedInTime' /\ PromiseStep
    <2>1. /\ at' = [at EXCEPT ![r] = "get"] /\ at[r] = "idle"
          /\ asked' = [asked EXCEPT ![r] = Oldest]
          /\ UNCHANGED <<truth, entry, list, answer>>
      BY <1>1 DEF Ask
    <2>2. Copies' = Copies
      BY <2>1 DEF Copies
    <2>3. Oldest' = Oldest /\ Oldest \in 0 .. truth
      BY <2>1, <2>2, CopiesType DEF Oldest
    <2>4. AskedInTime'
      BY <2>1, <2>3 DEF AskedInTime
    <2>5. asked[r] = Promise!None
      BY <2>1 DEF AskedInTime, Promise!None, None
    <2>6. Promise!Ask(r)
      BY <2>1, <2>3, <2>5 DEF Promise!Ask
    <2>7. QED
      BY <2>4, <2>6 DEF PromiseStep, Promise!Next
  <1>2. ASSUME NEW r \in Readers, Hit(r) PROVE AskedInTime' /\ PromiseStep
    <2>1. entry \in Copies /\ entry <= truth
      BY <1>2 DEF Hit, Copies, CacheInv
    <2>2. Copies' \subseteq Copies
      BY <1>2 DEF Hit, Copies
    <2>3. QED
      BY <1>2, <2>1, <2>2, AnswersFromCopy DEF Hit
  <1>3. ASSUME NEW r \in Readers,
  Store(r) \/ StoreFails(r) PROVE AskedInTime' /\ PromiseStep
    <2>1. at[r] = "store" /\ list[r] \in Copies /\ list[r] <= truth
      BY <1>3 DEF Store, StoreFails, Copies, CacheInv, FillsAreKnown
    <2>2. Copies' \subseteq Copies
      BY <1>3, <2>1 DEF Store, StoreFails, Copies
    <2>3. QED
      BY <1>3, <2>1, <2>2, AnswersFromCopy DEF Store, StoreFails, AnswerFetched
  <1>4. ASSUME NEW r \in Readers,
  Miss(r) \/ FetchFails(r) PROVE AskedInTime' /\ PromiseStep
    <2>1. Copies' \subseteq Copies
      BY <1>4 DEF Miss, FetchFails, Copies
    <2>2. QED
      BY <1>4, <2>1, NeitherAsksNorAnswers DEF Miss, FetchFails
  <1>5. ASSUME NEW r \in Readers, Fetch(r) PROVE AskedInTime' /\ PromiseStep
    <2>1. Copies' \subseteq Copies
      BY <1>5 DEF Fetch, Copies
    <2>2. QED
      BY <1>5, <2>1, NeitherAsksNorAnswers DEF Fetch
  <1>6. ASSUME NEW w \in Writers, Change(w) \/ ChangeUnanswered(w)
        PROVE  AskedInTime' /\ PromiseStep
    <2>1. \A d \in Copies' : d \in Copies \/ d = truth'
      BY <1>6 DEF Change, ChangeUnanswered, Copies
    <2>2. QED
      BY <1>6, <2>1, NeitherAsksNorAnswers DEF Change, ChangeUnanswered, Changes
  <1>7. ASSUME NEW w \in Writers, Invalidate(w) \/ InvalidateFails(w)
        PROVE  AskedInTime' /\ PromiseStep
    <2>1. Copies' \subseteq Copies
      BY <1>7 DEF Invalidate, InvalidateFails, Copies
    <2>2. QED
      BY <1>7, <2>1, NeitherAsksNorAnswers DEF Invalidate, InvalidateFails
  <1>8. CASE AiqChanges \/ Expire
    <2>1. \A d \in Copies' : d \in Copies \/ d = truth'
      BY <1>8 DEF AiqChanges, Expire, Copies
    <2>2. QED
      BY <1>8, <2>1, NeitherAsksNorAnswers DEF AiqChanges, Expire, Changes
  <1>9. CASE UNCHANGED cacheVars
    <2>1. Copies' \subseteq Copies
      BY <1>9 DEF cacheVars, Copies
    <2>2. QED
      BY <1>9, <2>1, NeitherAsksNorAnswers DEF cacheVars
  <1>10. QED
    BY <1>1, <1>2, <1>3, <1>4, <1>5, <1>6, <1>7, <1>8, <1>9 DEF CacheNext, Read

(***************************************************************************)
(* The list of memories keeps what StaleReads promises of a cache: no      *)
(* answer is older than the oldest copy there was when its reader asked.   *)
(***************************************************************************)
THEOREM PromiseKeptHolds ==
  CacheSpec => PromiseKept
  <1>1. PInv /\ [CacheNext]_cacheVars => PInv' /\ [Promise!Next]_(Promise!vars)
    BY StepRefines DEF PromiseStep
  <1>2. QED
    BY <1>1, InitPInv, PTL DEF CacheSpec, PromiseKept, Promise!Spec
=============================================================================
