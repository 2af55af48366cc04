----------------------------- MODULE AgentProofs -----------------------------
(***************************************************************************)
(* Theorems about the agents: for any number of administrators' requests   *)
(* and of users' agents, whatever is rolled back or fails, what an agent's *)
(* tables hold of the last to commit it, whose tools, features and tags    *)
(* come together in it and how two agents come to one name (AgentAdmin);   *)
(* and, for any readers, writers and versions, what the cached list of     *)
(* available agents shows (AgentAvailableCache).                           *)
(*                                                                         *)
(* PartsSafe is the inductive invariant of an agent's parts: what a        *)
(* request has deleted so far is all it could not fail to see (Covered),   *)
(* and two requests that hold the row of one agent are one (OneHolder).    *)
(* NamesSafe is that of the names: whoever wrote one met all that were to  *)
(* write it elsewhere (CheckedBefore).                                     *)
(***************************************************************************)
EXTENDS AgentAdmin, AgentAvailableCache, TLAPS

USE OldAssumption, TheirsAssumption, NobodyAssumption, DeletesAssumption, VersionAssumption

-----------------------------------------------------------------------------
(* Where a request is: in the transaction that writes the row, in the second of a *)
(* create, which writes its tools, or in none that has written.                   *)
First(r) ==
  \/ pc[r] \in {"category", "insert category", "type", "insert type",
                "features", "insert features", "commit"}
  \/ pc[r] \in {"tools", "insert tools"} /\ ~ Creates(r)

Second(r) ==
  \/ pc[r] \in {"tools", "insert tools"} /\ Creates(r)
  \/ pc[r] = "commit tools"

(* The parts that r has replaced in the transaction it is in. *)
Done(r) ==
  CASE pc[r] \in {"type", "insert type"} -> {"category"}
    [] pc[r] \in {"tools", "insert tools"} -> IF Creates(r) THEN {} ELSE {"category", "type"}
    [] pc[r] \in {"features", "insert features"} ->
         IF Creates(r) THEN {"category", "type"} ELSE {"category", "type", "tools"}
    [] pc[r] = "commit" -> IF Creates(r) THEN Parts \ {"tools"} ELSE Parts
    [] pc[r] = "commit tools" -> {"tools"}
    [] OTHER -> {}

(* Categories and a type are replaced only when some are given. *)
Always == {"tools", "features"}
Replaces(r, part) == part \in Always \/ New(r, part) # {}

-----------------------------------------------------------------------------
(* What r asks for fits where it is, and the agent it is about is there. *)
Known(r) ==
  /\ pc[r] # "idle" => IF Creates(r) THEN On(r) = r ELSE row[On(r)].state # "none"
  /\ Creates(r) => pc[r] \notin {"find", "delete"}
  /\ ask[r].kind = "delete" => pc[r] \in {"idle", "find", "delete", "ok", "error"}
  /\ pc[r] = "delete" => ask[r].kind = "delete"
  /\ pc[r] = "commit tools" => Creates(r)
  /\ pc[r] = "idle" \/ (Creates(r) /\ (First(r) \/ pc[r] \in {"name", "fields"}))
     => row[r].state = "none"
  /\ Second(r) => row[r].state # "none"

(* What its session and its open transaction hold. *)
Sound(r) ==
  /\ ~ (First(r) \/ Second(r)) => scan[r] = {} /\ gone[r] = {} /\ put[r] = {}
  /\ r \in holds => First(r) /\ r \notin rolled
  /\ r \in rolled => First(r) \/ Second(r) \/ pc[r] \in {"ok", "error"}
  /\ pc[r] = "idle" => changes[r] = {}
  /\ Creates(r) => changes[r] \in {{}, Fields}
  /\ Creates(r) /\ First(r) /\ r \notin rolled => changes[r] = Fields
  /\ Second(r) => changes[r] = {}
  /\ \A t \in scan[r] : t.part \in Parts /\ pc[r] = Insert[t.part]
  /\ \A t \in gone[r] : t.part \in Done(r)
  /\ \A t \in put[r] : t.part \in Done(r) /\ t \in New(r, t.part)
  /\ r \notin rolled => \A part \in Done(r) : New(r, part) \subseteq put[r]
  /\ (put[r] # {} \/ \E part \in Parts : pc[r] = Insert[part]) => r \in holds \union unlocked

(* What r cannot fail to see of its agent: all of it if nobody has committed the agent  *)
(* since r read it; if r holds the row, what was not stored without holding it.         *)
Sees(r, t) == r \notin stale \/ (r \in holds /\ t.by \notin unlocked)

Covered(r) ==
  \A t \in parts[On(r)] :
    Sees(r, t) =>
      /\ pc[r] = Insert[t.part] => t \in scan[r]
      /\ r \notin rolled /\ t.part \in Done(r) /\ Replaces(r, t.part) => t \in gone[r]

(* What r need not write is as it wants it, while nobody else commits the agent. *)
Unchanged(r) ==
  r \notin rolled \union stale /\ Reading(r) /\ (Creates(r) => Second(r))
  => \A f \in Fields \ changes[r] : row[On(r)][f] = ask[r][f]

Kept(r) ==
  r \notin rolled \union stale /\ Second(r)
  => \A part \in Parts \ {"tools"} :
       Replaces(r, part) => Held(On(r), part) = New(r, part)

Fresh(r) ==
  r \notin rolled \union stale /\ pc[r] = "ok" /\ ask[r].kind # "delete" /\ last[On(r)] = r
  => AsAsked(r)

RequestSafe(r) == Known(r) /\ Sound(r) /\ Covered(r) /\ Unchanged(r) /\ Kept(r) /\ Fresh(r)

OneHolder == \A r, s \in holds : On(r) = On(s) => r = s

NothingOfNone == \A a \in Agents : row[a].state = "none" => parts[a] = {}

PartsSafe ==
  /\ \A r \in Requests : RequestSafe(r)
  /\ OneHolder
  /\ NothingOfNone
  /\ MixedOnlyUnlocked

-----------------------------------------------------------------------------
(* Names *)

(* A name is as a request has written it, or a user, or the first as it was. *)
NamesAreWritten ==
  \A a \in Agents :
    LET w == row[a].by
    IN  row[a].state # "none" =>
          IF w \in Requests
          THEN pc[w] # "idle" /\ On(w) = a /\ row[a].name = ask[w].name
          ELSE w = a

(* Whoever has written a name met all that were to write it in another row. *)
CheckedBefore ==
  \A a \in Agents, s \in Requests :
    LET w == row[a].by
    IN  row[a].state # "none" /\ w \notin Theirs /\ Checked(s) /\ On(s) # a
          /\ ask[s].name = row[a].name
        => w \in Requests /\ s \in passed[w]

NamesSafe ==
  /\ NamesAreWritten
  /\ CheckedBefore
  /\ SameNameOnlyFromOverlap

-----------------------------------------------------------------------------
(* Types *)

LEMMA AskTyped ==
  ASSUME NEW q \in Asks
  PROVE  /\ q.agent \in Agents
         /\ \A part \in Parts : q[part] \in Words
         /\ q.kind \in {"create", "update", "delete"}
         /\ q.kind # "delete" => q.name \in Names /\ q.text \in Texts
  <1>1. CASE q \in {DeleteOf(a) : a \in Agents}
    BY <1>1 DEF DeleteOf, Words, Parts
  <1>2. CASE q \in [kind : {"create", "update"}, agent : Agents, name : Names, text : Texts,
                    category : Categories, type : Types, tools : Tools, features : Features]
    BY <1>2 DEF Words, Parts
  <1>3. QED
    BY <1>1, <1>2 DEF Asks

LEMMA OnTyped ==
  ASSUME TypeOK, NEW r \in Requests
  PROVE  /\ On(r) \in Agents /\ row[On(r)] \in Rows /\ r \in Agents
         /\ \A part \in Parts : ask[r][part] \in Words
         /\ ask[r].kind \in {"create", "update", "delete"}
         /\ ask[r].kind # "delete" => ask[r].name \in Names /\ ask[r].text \in Texts
  BY AskTyped DEF TypeOK, On, Agents

LEMMA GivenTyped ==
  ASSUME NEW q, NEW part \in Parts, q[part] \in Words, NEW a \in Agents
  PROVE  /\ Given(q, part, a) \subseteq Stored
         /\ \A t \in Given(q, part, a) : t.part = part /\ t.by = a
  BY DEF Given, Stored

LEMMA NewTyped ==
  ASSUME TypeOK, NEW r \in Requests, NEW part \in Parts
  PROVE  New(r, part) \subseteq Stored /\ \A t \in New(r, part) : t.part = part /\ t.by = r
  <1>1. ask[r][part] \in Words
    BY OnTyped
  <1>2. r \in Agents
    BY DEF Agents
  <1>3. QED
    BY <1>1, <1>2, GivenTyped DEF New

LEMMA InitType == Init => TypeOK
  <1> SUFFICES ASSUME Init PROVE TypeOK
    OBVIOUS
  <1>1. PICK q \in Asks :
          /\ q.kind = "create"
          /\ row = [a \in Agents |-> [state |-> IF a = Old THEN "live" ELSE "none",
                                     name |-> q.name, text |-> q.text, by |-> a]]
          /\ parts = [a \in Agents |-> IF a # Old THEN {} ELSE UNION {Given(q, p, Old) : p \in Parts}]
    BY DEF Init
  <1>2. row \in [Agents -> Rows]
    BY <1>1, AskTyped DEF Rows
  <1>3. UNION {Given(q, p, Old) : p \in Parts} \subseteq Stored
    <2>1. Old \in Agents /\ \A p \in Parts : q[p] \in Words
      BY AskTyped DEF Agents
    <2>2. \A p \in Parts : Given(q, p, Old) \subseteq Stored
      BY <2>1, GivenTyped
    <2>3. QED
      BY <2>2
  <1>4. parts \in [Agents -> SUBSET Stored]
    BY <1>1, <1>3
  <1>5. DeleteOf(Old) \in Asks
    BY DEF Asks, Agents
  <1>6. QED
    BY <1>2, <1>4, <1>5 DEF Init, TypeOK, Steps

LEMMA AfterTyped == ASSUME NEW r \in Requests, NEW part \in Parts PROVE After(r, part) \in Steps
  BY DEF After, Parts, Steps

LEMMA InsertIs ==
  /\ Insert["category"] = "insert category" /\ Insert["type"] = "insert type"
  /\ Insert["tools"] = "insert tools" /\ Insert["features"] = "insert features"
  BY DEF Insert

LEMMA InsertTyped == ASSUME NEW part \in Parts PROVE Insert[part] \in Steps
  BY InsertIs DEF Parts, Steps

LEMMA AnswerType ==
  ASSUME TypeOK, NEW r \in Requests, NEW from, NEW a \in Steps, Answer(r, from, a)
  PROVE  TypeOK'
  BY DEF TypeOK, Answer, Goto, Abandon, tables, history

LEMMA SkipType ==
  ASSUME TypeOK, NEW r \in Requests, NEW from, NEW to \in Steps, Skip(r, from, to)
  PROVE  TypeOK'
  BY DEF TypeOK, Skip, Goto, tables, local, history

LEMMA DeleteType ==
  ASSUME TypeOK, NEW r \in Requests, NEW part \in Parts, Delete(r, part)
  PROVE  TypeOK'
  <1>1. Held(On(r), part) \subseteq Stored
    BY OnTyped DEF Held, TypeOK
  <1>2. QED
    BY <1>1, InsertTyped DEF TypeOK, Delete, Goto, tables

LEMMA ReplaceType ==
  ASSUME TypeOK, NEW r \in Requests, NEW part \in Parts, Replace(r, part)
  PROVE  TypeOK'
  <1>1. New(r, part) \subseteq Stored /\ After(r, part) \in Steps
    BY NewTyped, AfterTyped
  <1>2. gone[r] \subseteq Stored /\ scan[r] \subseteq Stored /\ put[r] \subseteq Stored
    BY DEF TypeOK
  <1>3. QED
    BY <1>1, <1>2 DEF TypeOK, Replace, Goto, tables, history

LEMMA RolledBackType ==
  ASSUME TypeOK, NEW r \in Requests, NEW from, NEW part \in Parts, RolledBack(r, from, part)
  PROVE  TypeOK'
  BY AfterTyped DEF RolledBack, Goto, Abandon, TypeOK, tables

LEMMA StateType ==
  ASSUME TypeOK, NEW a \in Agents, NEW r \in Rows, row' = [row EXCEPT ![a] = r]
  PROVE  row' \in [Agents -> Rows]
  BY DEF TypeOK

(* What a commit of r makes of the row. *)
NewRow(r) ==
  [state |-> IF Creates(r) THEN "live" ELSE row[On(r)].state,
   name  |-> IF "name" \in changes[r] THEN ask[r].name ELSE row[On(r)].name,
   text  |-> IF "text" \in changes[r] THEN ask[r].text ELSE row[On(r)].text,
   by    |-> IF "name" \in changes[r] THEN r ELSE row[On(r)].by]

LEMMA ApplyType ==
  ASSUME TypeOK, NEW r \in Requests, NEW from, NEW to \in Steps, Apply(r, from, to),
         ask[r].kind # "delete"
  PROVE  TypeOK'
  <1>1. NewRow(r) \in Rows
    BY OnTyped DEF NewRow, Rows
  <1>2. row' = row \/ row' = [row EXCEPT ![On(r)] = NewRow(r)]
    BY OnTyped DEF Apply, NewRow, TypeOK
  <1>3. row' \in [Agents -> Rows]
    <2>1. On(r) \in Agents
      BY OnTyped
    <2>2. CASE row' = row
      BY <2>2 DEF TypeOK
    <2>3. CASE row' = [row EXCEPT ![On(r)] = NewRow(r)]
      BY <1>1, <2>1, <2>3, StateType
    <2>4. QED
      BY <1>2, <2>2, <2>3
  <1>4. parts' \in [Agents -> SUBSET Stored]
    <2>1. parts[On(r)] \subseteq Stored /\ put[r] \subseteq Stored
      BY OnTyped DEF TypeOK
    <2>2. QED
      BY <2>1, OnTyped DEF Apply, TypeOK
  <1>5. /\ stale' \subseteq Requests
        /\ passed' \in [Requests -> SUBSET Requests]
        /\ last' \in [Agents -> Agents]
    BY OnTyped DEF Apply, Rivals, TypeOK
  <1>6. QED
    BY <1>3, <1>4, <1>5 DEF Apply, Goto, Abandon, TypeOK

(* What a user makes of it. *)
UserRow(a, n, x) ==
  [state |-> IF row[a].state = "none" THEN "live" ELSE row[a].state,
   name  |-> n,
   text  |-> x,
   by    |-> IF row[a].state # "none" /\ n = row[a].name THEN row[a].by ELSE a]

LEMMA TypeStep == TypeOK /\ (\A r \in Requests : Known(r)) /\ [Next]_vars => TypeOK'
  <1> SUFFICES ASSUME TypeOK, \A r \in Requests : Known(r), [Next]_vars PROVE TypeOK'
    OBVIOUS
  <1>1. ASSUME NEW r \in Requests, Receive(r) PROVE TypeOK'
    <2>1. PICK q \in Asks : ask' = [ask EXCEPT ![r] = q]
                          /\ Goto(r, "idle", IF q.kind = "create" THEN "name" ELSE "find")
      BY <1>1 DEF Receive, Goto
    <2>2. pc' \in [Requests -> Steps] /\ ask' \in [Requests -> Asks]
      BY <2>1 DEF Goto, TypeOK, Steps
    <2>3. QED
      BY <1>1, <2>2 DEF Receive, TypeOK, tables, local, history
  <1>2. ASSUME NEW r \in Requests, Find(r) \/ CheckName(r) PROVE TypeOK'
    <2>1. CASE changes' = [changes EXCEPT ![r] = Differ(r)] /\ Find(r) /\ Goto(r, "find", "name")
                 /\ UNCHANGED <<tables, ask, holds, scan, gone, put, history>>
      BY <2>1 DEF Differ, Goto, TypeOK, Steps, tables, history
    <2>2. QED
      BY <1>2, <2>1, SkipType, AnswerType DEF Find, CheckName, Steps, Parts
  <1>3. ASSUME NEW r \in Requests, WriteFields(r) PROVE TypeOK'
    <2>1. pc' \in [Requests -> Steps] /\ changes' \in [Requests -> SUBSET Fields]
          /\ holds' \subseteq Requests
      BY <1>3 DEF WriteFields, Goto, TypeOK, Steps, Parts
    <2>2. QED
      BY <1>3, <2>1 DEF WriteFields, TypeOK, tables, history
  <1>4. ASSUME NEW r \in Requests, SetCategories(r) PROVE TypeOK'
    BY <1>4, AfterTyped, SkipType, DeleteType, ReplaceType, RolledBackType DEF SetCategories, Parts
  <1>5. ASSUME NEW r \in Requests, SetType(r) PROVE TypeOK'
    BY <1>5, AfterTyped, SkipType, DeleteType, ReplaceType, AnswerType DEF SetType, Parts, Steps
  <1>6. ASSUME NEW r \in Requests, SetTools(r) \/ SetFeatures(r) PROVE TypeOK'
    BY <1>6, DeleteType, ReplaceType DEF SetTools, SetFeatures, Parts
  <1>7. ASSUME NEW r \in Requests, StatementFails(r) PROVE TypeOK'
    BY <1>7, RolledBackType DEF StatementFails, Parts
  <1>8. ASSUME NEW r \in Requests, Commit(r) \/ CommitTools(r) PROVE TypeOK'
    <2>1. ask[r].kind # "delete"
      BY <1>8 DEF Known, Commit, CommitTools, Apply, Answer, Goto
    <2>2. QED
      BY <1>8, <2>1, ApplyType, AnswerType DEF Commit, CommitTools, Steps, Parts
  <1>9. ASSUME NEW r \in Requests, DeleteAgent(r) PROVE TypeOK'
    <2>1. [row[On(r)] EXCEPT !.state = "deleted"] \in Rows
      BY OnTyped DEF Rows
    <2>2. row' = [row EXCEPT ![On(r)] = [row[On(r)] EXCEPT !.state = "deleted"]]
      BY <1>9 DEF DeleteAgent
    <2>3. row' \in [Agents -> Rows]
      BY <2>1, <2>2, OnTyped, StateType
    <2>4. QED
      BY <1>9, <2>3 DEF DeleteAgent, Goto, TypeOK, Steps, local, history
  <1>10. ASSUME NEW r \in Requests, Fail(r) PROVE TypeOK'
    BY <1>10, AnswerType DEF Fail, Steps
  <1>11. ASSUME NEW a \in Theirs, UserWrites(a) PROVE TypeOK'
    <2>1. a \in Agents /\ row[a] \in Rows
      BY DEF Agents, TypeOK
    <2>2. PICK n \in Names, x \in Texts : row' = [row EXCEPT ![a] = UserRow(a, n, x)]
      BY <1>11, <2>1 DEF UserWrites, UserRow, TypeOK
    <2>3. UserRow(a, n, x) \in Rows
      BY <2>1 DEF Rows, UserRow
    <2>4. row' \in [Agents -> Rows]
      BY <2>1, <2>2, <2>3, StateType
    <2>5. parts' \in [Agents -> SUBSET Stored]
      <3>1. [part : {"features"}, word : Features \ {None}, by : {a}] \subseteq Stored
        BY <2>1 DEF Stored, Parts, Words
      <3>2. QED
        BY <1>11, <2>1, <3>1 DEF UserWrites, TypeOK
    <2>6. stale' \subseteq Requests /\ last' \in [Agents -> Agents]
      BY <1>11, <2>1 DEF UserWrites, TypeOK
    <2>7. QED
      BY <1>11, <2>4, <2>5, <2>6 DEF UserWrites, TypeOK, local
  <1>12. CASE UNCHANGED vars
    BY <1>12 DEF vars, tables, local, history, TypeOK
  <1>13. QED
    BY <1>1, <1>2, <1>3, <1>4, <1>5, <1>6, <1>7, <1>8, <1>9, <1>10, <1>11, <1>12
    DEF Next, Work

-----------------------------------------------------------------------------
(* Steps of one request that touch no table *)

Same(s) ==
  /\ pc'[s] = pc[s] /\ ask'[s] = ask[s] /\ changes'[s] = changes[s]
  /\ scan'[s] = scan[s] /\ gone'[s] = gone[s] /\ put'[s] = put[s]
  /\ s \in holds' <=> s \in holds
  /\ s \in rolled' <=> s \in rolled
  /\ s \in unlocked' <=> s \in unlocked

Quiet(r) ==
  /\ UNCHANGED <<row, parts, stale, passed, last>>
  /\ unlocked \subseteq unlocked'
  /\ \A s \in Requests \ {r} : Same(s)

LEMMA SamePlace ==
  ASSUME NEW s, pc'[s] = pc[s], ask'[s] = ask[s]
  PROVE  /\ On(s)' = On(s) /\ (Creates(s)' <=> Creates(s))
         /\ First(s)' <=> First(s)
         /\ Second(s)' <=> Second(s)
         /\ Reading(s)' <=> Reading(s)
         /\ Done(s)' = Done(s)
         /\ \A part : New(s, part)' = New(s, part) /\ (Replaces(s, part)' <=> Replaces(s, part))
  BY DEF On, Creates, First, Second, Reading, Done, New, Replaces, Always, Given

LEMMA SoundStays ==
  ASSUME NEW s, Same(s), Sound(s)
  PROVE  Sound(s)'
  BY SamePlace DEF Same, Sound

LEMMA QuietOthers ==
  ASSUME NEW r \in Requests, NEW s \in Requests \ {r}, Quiet(r), RequestSafe(s)
  PROVE  RequestSafe(s)'
  <1>1. Same(s) /\ row' = row /\ parts' = parts /\ stale' = stale /\ last' = last
    BY DEF Quiet
  <1> USE SamePlace
  <1>2. Known(s)'
    BY <1>1 DEF Same, RequestSafe, Known
  <1>3. Sound(s)'
    BY <1>1, SoundStays DEF RequestSafe
  <1>4. Covered(s)'
    <2> SUFFICES ASSUME NEW t \in parts[On(s)], Sees(s, t)'
                 PROVE  /\ pc[s] = Insert[t.part] => t \in scan[s]
                        /\ s \notin rolled /\ t.part \in Done(s) /\ Replaces(s, t.part) => t \in gone[s]
      BY <1>1 DEF Same, Covered
    <2>1. Sees(s, t)
      BY <1>1 DEF Sees, Same, Quiet
    <2>2. QED
      BY <2>1 DEF RequestSafe, Covered
  <1>5. Unchanged(s)'
    BY <1>1 DEF Same, RequestSafe, Unchanged
  <1>6. Kept(s)'
    BY <1>1 DEF Same, RequestSafe, Kept, Held
  <1>7. Fresh(s)'
    <2>1. ask'[s] = ask[s] /\ pc'[s] = pc[s] /\ (s \in rolled' <=> s \in rolled)
      BY <1>1 DEF Same
    <2>2. \A part : Held(On(s), part)' = Held(On(s), part)
      BY <1>1, <2>1 DEF Held
    <2>3. AsAsked(s)' <=> AsAsked(s)
      BY <1>1, <2>1, <2>2 DEF AsAsked
    <2>4. QED
      BY <1>1, <2>1, <2>3 DEF RequestSafe, Fresh
  <1>8. QED
    BY <1>2, <1>3, <1>4, <1>5, <1>6, <1>7 DEF RequestSafe

LEMMA QuietStep ==
  ASSUME TypeOK, PartsSafe, NEW r \in Requests, Quiet(r), RequestSafe(r)',
         r \in holds' => On(r)' = On(r) /\ (r \in holds \/ ~ Locked(On(r))),
         holds' \subseteq Requests
  PROVE  PartsSafe'
  <1>1. \A s \in Requests : RequestSafe(s)'
    BY QuietOthers DEF PartsSafe
  <1>2. OneHolder'
    <2> SUFFICES ASSUME NEW s \in holds', NEW u \in holds', On(s)' = On(u)', s # u PROVE FALSE
      BY DEF OneHolder
    <2>1. \A x \in holds' \ {r} : x \in holds /\ On(x)' = On(x)
      BY DEF Quiet, Same, On
    <2>2. On(s) = On(u)
      BY <2>1
    <2>3. QED
      BY <2>1, <2>2 DEF PartsSafe, OneHolder, Locked
  <1>3. NothingOfNone'
    BY DEF Quiet, PartsSafe, NothingOfNone
  <1>4. MixedOnlyUnlocked'
    BY DEF Quiet, PartsSafe, MixedOnlyUnlocked, Together
  <1>5. QED
    BY <1>1, <1>2, <1>3, <1>4 DEF PartsSafe

(* Where r is when it is not in a transaction that has written. *)
Idle(p) == p \in {"idle", "find", "delete", "name", "fields", "ok", "error"}

LEMMA OutsidePlace ==
  ASSUME NEW r
  PROVE  /\ Idle(pc[r]) => ~ First(r) /\ ~ Second(r) /\ Done(r) = {}
         /\ Idle(pc[r]) => \A part \in Parts : pc[r] # Insert[part]
  BY InsertIs DEF Idle, First, Second, Done, Parts

LEMMA AnswerStep ==
  ASSUME TypeOK, PartsSafe, NEW r \in Requests, NEW from, Answer(r, from, "error"), from # "idle"
  PROVE  PartsSafe'
  <1>1. /\ pc[r] = from /\ pc'[r] = "error" /\ ask' = ask /\ Quiet(r) /\ r \notin holds'
        /\ changes'[r] = {} /\ scan'[r] = {} /\ gone'[r] = {} /\ put'[r] = {}
        /\ row' = row /\ rolled' = rolled /\ holds' \subseteq Requests
    BY DEF Answer, Goto, Abandon, Quiet, Same, TypeOK, tables, history
  <1>2. /\ On(r)' = On(r) /\ (Creates(r)' <=> Creates(r)) /\ ~ Reading(r)'
        /\ ~ First(r)' /\ ~ Second(r)' /\ Done(r)' = {}
        /\ \A part \in Parts : pc'[r] # Insert[part]
    BY <1>1 DEF On, Creates, Reading, First, Second, Done, Insert, Parts
  <1>3. RequestSafe(r)'
    <2>1. Known(r)'
      BY <1>1, <1>2 DEF PartsSafe, RequestSafe, Known
    <2>2. Sound(r)'
      BY <1>1, <1>2 DEF Sound
    <2>3. Covered(r)'
      <3>1. \A t \in parts'[On(r)'] : t.part \in Parts
        BY <1>1, <1>2, OnTyped DEF TypeOK, Stored, Quiet
      <3>2. QED
        BY <1>1, <1>2, <3>1 DEF Covered
    <2>4. Unchanged(r)' /\ Kept(r)' /\ Fresh(r)'
      BY <1>1, <1>2 DEF Unchanged, Kept, Fresh
    <2>5. QED
      BY <2>1, <2>2, <2>3, <2>4 DEF RequestSafe
  <1>4. QED
    BY <1>1, <1>3, QuietStep

(* The steps from part to part. *)
LEMMA DonePlace ==
  ASSUME NEW r, NEW part \in Parts, pc[r] \in {part, Insert[part]}
  PROVE  /\ First(r) \/ Second(r)
         /\ Reading(r) /\ ~ Idle(pc[r])
         /\ part \notin Done(r)
         /\ pc[r] = part => \A p \in Parts : pc[r] # Insert[p]
         /\ pc[r] = Insert[part] => \A p \in Parts : pc[r] = Insert[p] => p = part
  BY InsertIs DEF First, Second, Reading, Done, Parts, Idle

LEMMA DoneAfter ==
  ASSUME NEW r, NEW part \in Parts, pc[r] \in {part, Insert[part]},
         pc'[r] = After(r, part), ask'[r] = ask[r]
  PROVE  /\ Done(r)' = Done(r) \union {part}
         /\ First(r)' <=> First(r)
         /\ Second(r)' <=> Second(r)
         /\ Reading(r)' /\ ~ Idle(pc'[r])
         /\ \A p \in Parts : pc'[r] # Insert[p]
         /\ pc'[r] = "commit tools" => Creates(r)
  <1>1. Creates(r)' <=> Creates(r)
    BY DEF Creates
  <1>2. CASE part = "category"
    BY <1>1, <1>2, InsertIs DEF After, First, Second, Reading, Done, Parts, Idle
  <1>3. CASE part = "type"
    BY <1>1, <1>3, InsertIs DEF After, First, Second, Reading, Done, Parts, Idle
  <1>4. CASE part = "tools"
    BY <1>1, <1>4, InsertIs DEF After, First, Second, Reading, Done, Parts, Idle
  <1>5. CASE part = "features"
    BY <1>1, <1>5, InsertIs DEF After, First, Second, Reading, Done, Parts, Idle
  <1>6. QED
    BY <1>2, <1>3, <1>4, <1>5 DEF Parts

LEMMA DoneInsert ==
  ASSUME NEW r, NEW part \in Parts, pc[r] = part, pc'[r] = Insert[part], ask'[r] = ask[r]
  PROVE  /\ Done(r)' = Done(r)
         /\ First(r)' <=> First(r)
         /\ Second(r)' <=> Second(r)
         /\ Reading(r)' /\ ~ Idle(pc'[r]) /\ pc'[r] # "commit tools"
         /\ \A p \in Parts : pc'[r] = Insert[p] => p = part
  <1>1. Creates(r)' <=> Creates(r)
    BY DEF Creates
  <1>2. QED
    BY <1>1, InsertIs DEF First, Second, Reading, Done, Parts, Idle

LEMMA DoneIn == ASSUME NEW r PROVE Done(r) \subseteq Parts
  BY DEF Done, Parts

LEMMA PartsTyped ==
  ASSUME TypeOK, NEW r \in Requests, NEW t \in parts[On(r)]
  PROVE  t.part \in Parts
  BY OnTyped DEF TypeOK, Stored

(* Nothing to do for a part. *)
LEMMA PassStep ==
  ASSUME TypeOK, PartsSafe, NEW r \in Requests, NEW part \in {"category", "type"},
         New(r, part) = {}, Skip(r, part, After(r, part))
  PROVE  PartsSafe'
  <1>1. /\ pc[r] = part /\ pc'[r] = After(r, part) /\ ask' = ask /\ Quiet(r) /\ holds' = holds
        /\ UNCHANGED <<changes, scan, gone, put, rolled, unlocked, row, parts, stale>>
    BY DEF Skip, Quiet, Same, Goto, TypeOK, tables, local, history
  <1>2. part \in Parts
    BY DEF Parts
  <1>3. /\ On(r)' = On(r) /\ (Creates(r)' <=> Creates(r))
        /\ \A p : New(r, p)' = New(r, p) /\ (Replaces(r, p)' <=> Replaces(r, p))
    BY <1>1 DEF On, Creates, New, Replaces, Always, Given
  <1>4. RequestSafe(r)
    BY DEF PartsSafe
  <1>5. Known(r)'
    BY <1>1, <1>2, <1>3, <1>4, DonePlace, DoneAfter DEF RequestSafe, Known, Idle
  <1>6. /\ Done(r)' = Done(r) \union {part} /\ part \notin Done(r) /\ Done(r) \subseteq Parts
        /\ (First(r)' <=> First(r)) /\ (Second(r)' <=> Second(r)) /\ (First(r) \/ Second(r))
        /\ pc[r] # "idle" /\ pc'[r] # "idle"
        /\ \A q \in Parts : pc'[r] # Insert[q]
    BY <1>1, <1>2, DonePlace, DoneAfter, DoneIn DEF Idle
  <1>7. Sound(r)
    BY <1>4 DEF RequestSafe
  <1>8. Sound(r)'
    <2>1. \A t \in scan[r] : t.part \in Parts /\ pc'[r] = Insert[t.part]
      BY <1>1, <1>2, <1>7, DonePlace DEF Sound
    <2>2. \A t \in put[r] : t.part \in Done(r)' /\ t \in New(r, t.part)'
      BY <1>3, <1>6, <1>7 DEF Sound
    <2>3. r \notin rolled => \A q \in Done(r)' : New(r, q)' \subseteq put[r]
      BY <1>3, <1>6, <1>7 DEF Sound
    <2>4. (put[r] # {} \/ \E q \in Parts : pc'[r] = Insert[q]) => r \in holds \union unlocked
      BY <1>6, <1>7 DEF Sound
    <2>5. \A t \in gone[r] : t.part \in Done(r)'
      BY <1>6, <1>7 DEF Sound
    <2>6. QED
      BY <1>1, <1>3, <1>6, <1>7, <2>1, <2>2, <2>3, <2>4, <2>5 DEF Sound
  <1>9. Covered(r)'
    <2> SUFFICES ASSUME NEW t \in parts[On(r)], Sees(r, t)
                 PROVE  /\ pc'[r] = Insert[t.part] => t \in scan[r]
                        /\ r \notin rolled /\ t.part \in Done(r)' /\ Replaces(r, t.part) => t \in gone[r]
      BY <1>1, <1>3 DEF Covered, Sees
    <2>1. ~ Replaces(r, part)
      BY DEF Replaces, Always
    <2>2. QED
      BY <1>4, <1>6, <2>1, PartsTyped DEF RequestSafe, Covered
  <1>10. Unchanged(r)'
    BY <1>1, <1>2, <1>3, <1>4, DonePlace, DoneAfter DEF RequestSafe, Unchanged
  <1>11. Kept(r)'
    BY <1>1, <1>2, <1>3, <1>4, DonePlace, DoneAfter DEF RequestSafe, Kept, Held
  <1>12. Fresh(r)'
    BY <1>1, <1>2, DoneAfter DEF Fresh, Idle
  <1>13. RequestSafe(r)'
    BY <1>5, <1>8, <1>9, <1>10, <1>11, <1>12 DEF RequestSafe
  <1>14. QED
    BY <1>1, <1>3, <1>13, QuietStep DEF TypeOK

(* A DELETE starts. *)
LEMMA DeleteStep ==
  ASSUME TypeOK, PartsSafe, NEW r \in Requests, NEW part \in Parts, Delete(r, part)
  PROVE  PartsSafe'
  <1>1. /\ pc[r] = part /\ pc'[r] = Insert[part] /\ ask' = ask /\ Quiet(r)
        /\ scan'[r] = Held(On(r), part) /\ r \in holds \union unlocked'
        /\ UNCHANGED <<changes, holds, gone, put, rolled, row, parts, stale>>
        /\ unlocked \subseteq unlocked'
    BY DEF Delete, Quiet, Same, Goto, TypeOK, tables
  <1>2. /\ On(r)' = On(r) /\ (Creates(r)' <=> Creates(r))
        /\ \A p : New(r, p)' = New(r, p) /\ (Replaces(r, p)' <=> Replaces(r, p))
    BY <1>1 DEF On, Creates, New, Replaces, Always, Given
  <1>3. RequestSafe(r)
    BY DEF PartsSafe
  <1>4. Known(r)'
    BY <1>1, <1>2, <1>3, DonePlace, DoneInsert DEF RequestSafe, Known, Idle
  <1>5. /\ Done(r)' = Done(r) /\ Done(r) \subseteq Parts
        /\ (First(r)' <=> First(r)) /\ (Second(r)' <=> Second(r)) /\ (First(r) \/ Second(r))
        /\ pc[r] # "idle" /\ pc'[r] # "idle"
    BY <1>1, DonePlace, DoneInsert, DoneIn DEF Idle
  <1>6. Sound(r)
    BY <1>3 DEF RequestSafe
  <1>7. Sound(r)'
    <2>1. \A t \in scan'[r] : t.part \in Parts /\ pc'[r] = Insert[t.part]
      BY <1>1 DEF Held
    <2>2. \A t \in put[r] : t.part \in Done(r)' /\ t \in New(r, t.part)'
      BY <1>2, <1>5, <1>6 DEF Sound
    <2>3. r \notin rolled => \A q \in Done(r)' : New(r, q)' \subseteq put[r]
      BY <1>2, <1>5, <1>6 DEF Sound
    <2>4. \A t \in gone[r] : t.part \in Done(r)'
      BY <1>5, <1>6 DEF Sound
    <2>5. QED
      BY <1>1, <1>2, <1>5, <1>6, <2>1, <2>2, <2>3, <2>4 DEF Sound
  <1>8. Covered(r)'
    <2> SUFFICES ASSUME NEW t \in parts[On(r)], Sees(r, t)'
                 PROVE  /\ pc'[r] = Insert[t.part] => t \in scan'[r]
                        /\ r \notin rolled /\ t.part \in Done(r)' /\ Replaces(r, t.part) => t \in gone[r]
      BY <1>1, <1>2 DEF Covered
    <2>1. Sees(r, t)
      BY <1>1 DEF Sees
    <2>2. QED
      BY <1>1, <1>3, <2>1, PartsTyped, DoneInsert DEF RequestSafe, Covered, Held
  <1>9. Unchanged(r)'
    BY <1>1, <1>2, <1>3, DonePlace, DoneInsert DEF RequestSafe, Unchanged
  <1>10. Kept(r)'
    BY <1>1, <1>2, <1>3, DonePlace, DoneInsert DEF RequestSafe, Kept, Held
  <1>11. Fresh(r)'
    BY <1>1, DoneInsert DEF Fresh, Idle
  <1>12. RequestSafe(r)'
    BY <1>4, <1>7, <1>8, <1>9, <1>10, <1>11 DEF RequestSafe
  <1>13. QED
    BY <1>1, <1>2, <1>12, QuietStep DEF TypeOK

(* It ends, and the INSERT follows. *)
LEMMA ReplaceStep ==
  ASSUME TypeOK, PartsSafe, NEW r \in Requests, NEW part \in Parts, Replace(r, part)
  PROVE  PartsSafe'
  <1>1. /\ pc[r] = Insert[part] /\ pc'[r] = After(r, part) /\ ask' = ask /\ Quiet(r)
        /\ gone'[r] = gone[r] \union (scan[r] \intersect parts[On(r)])
        /\ scan'[r] = {} /\ put'[r] = put[r] \union New(r, part)
        /\ UNCHANGED <<changes, holds, rolled, unlocked, row, parts, stale>>
    BY DEF Replace, Quiet, Same, Goto, TypeOK, tables, history
  <1>2. /\ On(r)' = On(r) /\ (Creates(r)' <=> Creates(r))
        /\ \A p : New(r, p)' = New(r, p) /\ (Replaces(r, p)' <=> Replaces(r, p))
    BY <1>1 DEF On, Creates, New, Replaces, Always, Given
  <1>3. RequestSafe(r)
    BY DEF PartsSafe
  <1>4. Known(r)'
    BY <1>1, <1>2, <1>3, DonePlace, DoneAfter DEF RequestSafe, Known, Idle
  <1>5. /\ Done(r)' = Done(r) \union {part} /\ part \notin Done(r) /\ Done(r) \subseteq Parts
        /\ (First(r)' <=> First(r)) /\ (Second(r)' <=> Second(r)) /\ (First(r) \/ Second(r))
        /\ pc[r] # "idle" /\ pc'[r] # "idle"
        /\ \A q \in Parts : pc'[r] # Insert[q]
    BY <1>1, DonePlace, DoneAfter, DoneIn DEF Idle
  <1>6. Sound(r)
    BY <1>3 DEF RequestSafe
  <1>7. Covered(r)'
    <2> SUFFICES ASSUME NEW t \in parts[On(r)], Sees(r, t)
                 PROVE  /\ pc'[r] = Insert[t.part] => t \in scan'[r]
                        /\ r \notin rolled /\ t.part \in Done(r)' /\ Replaces(r, t.part) => t \in gone'[r]
      BY <1>1, <1>2 DEF Covered, Sees
    <2>1. pc[r] = Insert[t.part] => t \in scan[r]
      BY <1>3 DEF RequestSafe, Covered
    <2>2. r \notin rolled /\ t.part \in Done(r) /\ Replaces(r, t.part) => t \in gone[r]
      BY <1>3 DEF RequestSafe, Covered
    <2>3. QED
      BY <1>1, <1>5, <2>1, <2>2, PartsTyped
  <1>8. Sound(r)'
    <2>1. \A t \in gone'[r] : t.part \in Done(r)'
      <3>1. \A t \in scan[r] : t.part = part
        BY <1>1, <1>6, DonePlace DEF Sound
      <3>2. QED
        BY <1>1, <1>5, <1>6, <3>1 DEF Sound
    <2>2. \A t \in put'[r] : t.part \in Done(r)' /\ t \in New(r, t.part)'
      <3>1. \A t \in New(r, part) : t.part = part
        BY NewTyped
      <3>2. \A t \in put[r] : t.part \in Done(r) /\ t \in New(r, t.part)
        BY <1>6 DEF Sound
      <3>3. QED
        BY <1>1, <1>2, <1>5, <3>1, <3>2
    <2>3. r \notin rolled => \A q \in Done(r)' : New(r, q)' \subseteq put'[r]
      <3>1. r \notin rolled => \A q \in Done(r) : New(r, q) \subseteq put[r]
        BY <1>6 DEF Sound
      <3>2. QED
        BY <1>1, <1>2, <1>5, <3>1
    <2>4. r \in holds \union unlocked
      BY <1>1, <1>6 DEF Sound
    <2>5. QED
      BY <1>1, <1>2, <1>5, <1>6, <2>1, <2>2, <2>3, <2>4 DEF Sound
  <1>9. Unchanged(r)'
    BY <1>1, <1>2, <1>3, DonePlace, DoneAfter DEF RequestSafe, Unchanged
  <1>10. Kept(r)'
    BY <1>1, <1>2, <1>3, DonePlace, DoneAfter DEF RequestSafe, Kept, Held
  <1>11. Fresh(r)'
    BY <1>1, DoneAfter DEF Fresh, Idle
  <1>12. RequestSafe(r)'
    BY <1>4, <1>7, <1>8, <1>9, <1>10, <1>11 DEF RequestSafe
  <1>13. QED
    BY <1>1, <1>2, <1>12, QuietStep DEF TypeOK


LEMMA AfterPlace ==
  ASSUME NEW r, NEW part \in Parts, pc'[r] = After(r, part), ask'[r] = ask[r]
  PROVE  /\ First(r)' \/ Second(r)'
         /\ pc'[r] \notin {"idle", "find", "delete", "name", "fields", "ok", "error"}
         /\ \A p \in Parts : pc'[r] # Insert[p]
         /\ pc'[r] = "commit tools" => Creates(r)
         /\ Second(r)' => Creates(r) /\ part = "tools"
  <1>1. Creates(r)' <=> Creates(r)
    BY DEF Creates
  <1>2. CASE part = "category"
    BY <1>1, <1>2, InsertIs DEF After, First, Second, Parts
  <1>3. CASE part = "type"
    BY <1>1, <1>3, InsertIs DEF After, First, Second, Parts
  <1>4. CASE part = "tools"
    BY <1>1, <1>4, InsertIs DEF After, First, Second, Parts
  <1>5. CASE part = "features"
    BY <1>1, <1>5, InsertIs DEF After, First, Second, Parts
  <1>6. QED
    BY <1>2, <1>3, <1>4, <1>5 DEF Parts

LEMMA SecondIsTools ==
  ASSUME NEW r, NEW part \in Parts, pc[r] \in {part, Insert[part]}
  PROVE  Creates(r) /\ part = "tools" => Second(r)
  BY InsertIs DEF Second, Parts

(* A helper rolls back. *)
LEMMA RolledBackStep ==
  ASSUME TypeOK, PartsSafe, NEW r \in Requests, NEW part \in Parts, NEW from, RolledBack(r, from, part),
         from \in {part, Insert[part]} \/ (from = "fields" /\ ~ Creates(r))
  PROVE  PartsSafe'
  <1>1. /\ pc[r] = from /\ pc'[r] = After(r, part) /\ ask' = ask /\ Quiet(r) /\ r \in rolled'
        /\ r \notin holds' /\ holds' \subseteq Requests
        /\ changes'[r] = {} /\ scan'[r] = {} /\ gone'[r] = {} /\ put'[r] = {}
        /\ UNCHANGED <<row, parts, stale, unlocked>>
    BY DEF RolledBack, Abandon, Quiet, Same, Goto, TypeOK, tables
  <1>2. /\ On(r)' = On(r) /\ (Creates(r)' <=> Creates(r))
    BY <1>1 DEF On, Creates
  <1>3. /\ First(r)' \/ Second(r)'
        /\ pc'[r] \notin {"idle", "find", "delete", "name", "fields", "ok", "error"}
        /\ \A p \in Parts : pc'[r] # Insert[p]
        /\ pc'[r] = "commit tools" => Creates(r)
        /\ Second(r)' => Creates(r) /\ part = "tools"
    BY <1>1, AfterPlace
  <1>4. RequestSafe(r)
    BY DEF PartsSafe
  <1>5. Known(r)'
    <2>1. Known(r)
      BY <1>4 DEF RequestSafe
    <2>2. CASE from = "fields" /\ ~ Creates(r)
      BY <1>1, <1>2, <1>3, <2>1, <2>2 DEF Known
    <2>3. CASE from \in {part, Insert[part]}
      <3>1. (First(r)' <=> First(r)) /\ (Second(r)' <=> Second(r))
            /\ ~ Idle(pc[r])
        BY <1>1, <2>3, DoneAfter, DonePlace
      <3>2. QED
        BY <1>1, <1>2, <1>3, <2>1, <3>1 DEF Known, Idle
    <2>4. QED
      BY <2>2, <2>3
  <1>6. Sound(r)'
    BY <1>1, <1>2, <1>3 DEF Sound
  <1>7. Covered(r)'
    BY <1>1, <1>2, <1>3, PartsTyped DEF Covered
  <1>8. Unchanged(r)' /\ Kept(r)' /\ Fresh(r)'
    BY <1>1 DEF Unchanged, Kept, Fresh
  <1>9. RequestSafe(r)'
    BY <1>5, <1>6, <1>7, <1>8 DEF RequestSafe
  <1>10. QED
    BY <1>1, <1>9, QuietStep

-----------------------------------------------------------------------------
(* Before the first write *)

LEMMA ReceiveStep ==
  ASSUME TypeOK, PartsSafe, NEW r \in Requests, Receive(r)
  PROVE  PartsSafe'
  <1>1. PICK q \in Asks :
          /\ IF q.kind = "create" THEN q.agent = r ELSE row[q.agent].state # "none"
          /\ ask' = [ask EXCEPT ![r] = q]
          /\ Goto(r, "idle", IF q.kind = "create" THEN "name" ELSE "find")
    BY DEF Receive, Goto
  <1>2. /\ pc[r] = "idle" /\ pc'[r] = IF q.kind = "create" THEN "name" ELSE "find"
        /\ ask'[r] = q /\ Quiet(r)
        /\ UNCHANGED <<row, parts, changes, holds, scan, gone, put, stale, rolled, unlocked>>
    BY <1>1 DEF Receive, Quiet, Same, Goto, TypeOK, tables, local, history
  <1>3. /\ On(r)' = q.agent /\ (Creates(r)' <=> q.kind = "create")
    BY <1>2 DEF On, Creates
  <1>4. Idle(pc[r]) /\ Idle(pc'[r])
    BY <1>2 DEF Idle
  <1>5. /\ ~ First(r) /\ ~ Second(r) /\ ~ First(r)' /\ ~ Second(r)' /\ Done(r)' = {}
        /\ \A p \in Parts : pc'[r] # Insert[p]
    BY <1>4, OutsidePlace, InsertIs DEF First, Second, Done, Idle, Parts
  <1>6. Known(r) /\ Sound(r)
    BY DEF PartsSafe, RequestSafe
  <1>7. /\ r \notin holds /\ r \notin rolled /\ changes[r] = {}
        /\ scan[r] = {} /\ gone[r] = {} /\ put[r] = {}
    BY <1>2, <1>5, <1>6 DEF Sound
  <1>8. Known(r)'
    <2>1. row[r].state = "none"
      BY <1>2, <1>6 DEF Known
    <2>2. CASE q.kind = "create"
      BY <1>1, <1>2, <1>3, <1>5, <2>1, <2>2 DEF Known
    <2>3. CASE q.kind # "create"
      BY <1>1, <1>2, <1>3, <1>5, <2>3 DEF Known
    <2>4. QED
      BY <2>2, <2>3
  <1>9. Sound(r)'
    BY <1>2, <1>5, <1>7 DEF Sound
  <1>10. Covered(r)'
    <2>1. q.agent \in Agents
      BY AskTyped
    <2>2. \A t \in parts'[On(r)'] : t.part \in Parts
      BY <1>2, <1>3, <2>1 DEF TypeOK, Stored
    <2>3. QED
      BY <1>5, <2>2 DEF Covered
  <1>11. Unchanged(r)' /\ Kept(r)' /\ Fresh(r)'
    BY <1>2, <1>3, <1>5 DEF Unchanged, Kept, Fresh, Reading
  <1>12. RequestSafe(r)'
    BY <1>8, <1>9, <1>10, <1>11 DEF RequestSafe
  <1>13. QED
    BY <1>2, <1>7, <1>12, QuietStep DEF TypeOK

(* An update reads the row. *)
LEMMA FindStep ==
  ASSUME TypeOK, PartsSafe, NEW r \in Requests, ask[r].kind = "update", Goto(r, "find", "name"),
         changes' = [changes EXCEPT ![r] = Differ(r)],
         UNCHANGED <<tables, ask, holds, scan, gone, put, history>>
  PROVE  PartsSafe'
  <1>1. /\ pc[r] = "find" /\ pc'[r] = "name" /\ ask' = ask /\ Quiet(r) /\ changes'[r] = Differ(r)
        /\ UNCHANGED <<row, parts, holds, scan, gone, put, stale, rolled, unlocked>>
    BY DEF Quiet, Same, Goto, TypeOK, tables, history
  <1>2. /\ On(r)' = On(r) /\ ~ Creates(r)' /\ ~ Creates(r)
    BY <1>1 DEF On, Creates
  <1>3. Idle(pc[r]) /\ Idle(pc'[r])
    BY <1>1 DEF Idle
  <1>4. /\ ~ First(r) /\ ~ Second(r) /\ ~ First(r)' /\ ~ Second(r)' /\ Done(r)' = {}
        /\ \A p \in Parts : pc'[r] # Insert[p]
    BY <1>3, OutsidePlace, InsertIs DEF First, Second, Done, Idle, Parts
  <1>5. Known(r) /\ Sound(r)
    BY DEF PartsSafe, RequestSafe
  <1>6. r \notin holds /\ r \notin rolled /\ scan[r] = {} /\ gone[r] = {} /\ put[r] = {}
    BY <1>1, <1>4, <1>5 DEF Sound
  <1>7. Known(r)'
    BY <1>1, <1>2, <1>4, <1>5 DEF Known
  <1>8. Sound(r)'
    BY <1>1, <1>2, <1>4, <1>6 DEF Sound
  <1>9. Covered(r)'
    BY <1>1, <1>2, <1>4, PartsTyped DEF Covered
  <1>10. Unchanged(r)'
    <2>1. \A f \in Fields \ Differ(r) : row[On(r)][f] = ask[r][f]
      BY DEF Differ
    <2>2. QED
      BY <1>1, <1>2, <2>1 DEF Unchanged
  <1>11. Kept(r)' /\ Fresh(r)'
    BY <1>1, <1>4 DEF Kept, Fresh
  <1>12. RequestSafe(r)'
    BY <1>7, <1>8, <1>9, <1>10, <1>11 DEF RequestSafe
  <1>13. QED
    BY <1>1, <1>6, <1>12, QuietStep DEF TypeOK

(* A delete finds its agent; a name is free. *)
LEMMA SkipStep ==
  ASSUME TypeOK, PartsSafe, NEW r \in Requests, NEW from, NEW to, Skip(r, from, to),
         (from = "find" /\ to = "delete" /\ ask[r].kind = "delete") \/ (from = "name" /\ to = "fields")
  PROVE  PartsSafe'
  <1>1. /\ pc[r] = from /\ pc'[r] = to /\ ask' = ask /\ Quiet(r)
        /\ UNCHANGED <<changes, row, parts, holds, scan, gone, put, stale, rolled, unlocked>>
    BY DEF Skip, Quiet, Same, Goto, TypeOK, tables, local, history
  <1>2. /\ On(r)' = On(r) /\ (Creates(r)' <=> Creates(r))
    BY <1>1 DEF On, Creates
  <1>3. Idle(pc[r]) /\ Idle(pc'[r]) /\ pc[r] # "idle"
    BY <1>1 DEF Idle
  <1>4. /\ ~ First(r) /\ ~ Second(r) /\ ~ First(r)' /\ ~ Second(r)' /\ Done(r)' = {}
        /\ \A p \in Parts : pc'[r] # Insert[p]
    BY <1>3, OutsidePlace, InsertIs DEF First, Second, Done, Idle, Parts
  <1>5. Known(r) /\ Sound(r) /\ Unchanged(r)
    BY DEF PartsSafe, RequestSafe
  <1>6. r \notin holds /\ r \notin rolled /\ scan[r] = {} /\ gone[r] = {} /\ put[r] = {}
    BY <1>1, <1>4, <1>5 DEF Sound
  <1>7. Known(r)'
    BY <1>1, <1>2, <1>4, <1>5 DEF Known, Creates
  <1>8. Sound(r)'
    BY <1>1, <1>2, <1>4, <1>5, <1>6 DEF Sound
  <1>9. Covered(r)'
    BY <1>1, <1>2, <1>4, PartsTyped DEF Covered
  <1>10. Unchanged(r)'
    BY <1>1, <1>2, <1>4, <1>5 DEF Unchanged, Reading
  <1>11. Kept(r)' /\ Fresh(r)'
    BY <1>1, <1>4 DEF Kept, Fresh
  <1>12. RequestSafe(r)'
    BY <1>7, <1>8, <1>9, <1>10, <1>11 DEF RequestSafe
  <1>13. QED
    BY <1>1, <1>6, <1>12, QuietStep DEF TypeOK

(* The row is written, if a field differs, and locked with it. *)
LEMMA WriteFieldsStep ==
  ASSUME TypeOK, PartsSafe, NEW r \in Requests, WriteFields(r)
  PROVE  PartsSafe'
  <1>1. /\ pc[r] = "fields" /\ pc'[r] = "category" /\ ask' = ask /\ Quiet(r)
        /\ changes'[r] = IF Creates(r) THEN Fields ELSE changes[r]
        /\ r \in holds' => r \in holds \/ ~ Locked(On(r))
        /\ holds' \subseteq Requests
        /\ UNCHANGED <<row, parts, scan, gone, put, stale, rolled, unlocked>>
    BY DEF WriteFields, Quiet, Same, Goto, TypeOK, tables, history
  <1>2. /\ On(r)' = On(r) /\ (Creates(r)' <=> Creates(r))
    BY <1>1 DEF On, Creates
  <1>3. Idle(pc[r])
    BY <1>1 DEF Idle
  <1>4. /\ ~ First(r) /\ ~ Second(r) /\ First(r)' /\ ~ Second(r)' /\ Done(r)' = {}
        /\ \A p \in Parts : pc'[r] # Insert[p]
    BY <1>1, <1>3, OutsidePlace, InsertIs DEF First, Second, Done, Parts
  <1>5. Known(r) /\ Sound(r) /\ Unchanged(r)
    BY DEF PartsSafe, RequestSafe
  <1>6. r \notin rolled /\ scan[r] = {} /\ gone[r] = {} /\ put[r] = {}
    BY <1>1, <1>4, <1>5 DEF Sound
  <1>7. Known(r)'
    BY <1>1, <1>2, <1>4, <1>5 DEF Known, Creates
  <1>8. Sound(r)'
    BY <1>1, <1>2, <1>4, <1>5, <1>6 DEF Sound
  <1>9. Covered(r)'
    BY <1>1, <1>2, <1>4, PartsTyped DEF Covered
  <1>10. Unchanged(r)'
    BY <1>1, <1>2, <1>4, <1>5 DEF Unchanged, Reading
  <1>11. Kept(r)' /\ Fresh(r)'
    BY <1>1, <1>4 DEF Kept, Fresh
  <1>12. RequestSafe(r)'
    BY <1>7, <1>8, <1>9, <1>10, <1>11 DEF RequestSafe
  <1>13. QED
    BY <1>1, <1>2, <1>12, QuietStep

-----------------------------------------------------------------------------
(* A commit *)

LEMMA RowAfter ==
  ASSUME TypeOK, NEW r \in Requests, NEW from, NEW to, Apply(r, from, to)
  PROVE  /\ \A a \in Agents \ {On(r)} : row'[a] = row[a] /\ parts'[a] = parts[a] /\ last'[a] = last[a]
         /\ row'[On(r)].name = IF "name" \in changes[r] THEN ask[r].name ELSE row[On(r)].name
         /\ row'[On(r)].text = IF "text" \in changes[r] THEN ask[r].text ELSE row[On(r)].text
         /\ row'[On(r)].by = IF "name" \in changes[r] THEN r ELSE row[On(r)].by
         /\ row'[On(r)].state = IF changes[r] # {} /\ Creates(r) THEN "live" ELSE row[On(r)].state
         /\ parts'[On(r)] = (parts[On(r)] \ gone[r]) \union put[r]
         /\ last'[On(r)] = r
  <1>1. row' = IF changes[r] = {} THEN row ELSE [row EXCEPT ![On(r)] = NewRow(r)]
    BY OnTyped DEF Apply, NewRow, TypeOK
  <1>2. CASE changes[r] = {}
    BY <1>1, <1>2, OnTyped DEF Apply, TypeOK
  <1>3. CASE changes[r] # {}
    BY <1>1, <1>3, OnTyped DEF Apply, TypeOK, NewRow
  <1>4. QED
    BY <1>2, <1>3

LEMMA FieldAfter ==
  ASSUME TypeOK, NEW r \in Requests, NEW from, NEW to, Apply(r, from, to), NEW f \in Fields
  PROVE  row'[On(r)][f] = IF f \in changes[r] THEN ask[r][f] ELSE row[On(r)][f]
  BY RowAfter DEF Fields

LEMMA Busy ==
  ASSUME NEW s, First(s) \/ Second(s) \/ Done(s) # {} \/ \E part \in Parts : pc[s] = Insert[part]
  PROVE  Reading(s)
  <1> SUFFICES ASSUME pc[s] \in {"idle", "find", "delete", "ok", "error"} PROVE FALSE
    BY DEF Reading
  <1>1. Idle(pc[s])
    BY DEF Idle
  <1>2. QED
    BY <1>1, OutsidePlace

(* What another request sees of the agent after the commit of r. *)
LEMMA ApplyOther ==
  ASSUME TypeOK, PartsSafe, NEW r \in Requests, NEW from, NEW to, Apply(r, from, to),
         First(r) \/ Second(r), NEW s \in Requests \ {r}
  PROVE  RequestSafe(s)'
  <1>1. Same(s) /\ ask' = ask /\ unlocked' = unlocked /\ rolled' = rolled /\ stale \subseteq stale'
    BY DEF Apply, Goto, Abandon, Same, TypeOK
  <1>2. On(s) = On(r) /\ Reading(s) => s \in stale'
    BY DEF Apply, Rivals
  <1>3. On(s)' = On(s) /\ On(s) \in Agents /\ On(r) \in Agents /\ s \in Agents
    BY <1>1, OnTyped DEF On
  <1>4. Known(r) /\ Sound(r) /\ RequestSafe(s) /\ pc[r] # "idle"
    BY OutsidePlace DEF PartsSafe, RequestSafe, Idle
  <1>5. On(s) # On(r) => row'[On(s)] = row[On(s)] /\ parts'[On(s)] = parts[On(s)] /\ last'[On(s)] = last[On(s)]
    BY <1>3, RowAfter
  <1> USE SamePlace
  <1>6. Known(s)'
    <2>1. \A a \in Agents : row[a].state # "none" => row'[a].state # "none"
      BY <1>3, RowAfter
    <2>2. row[s].state = "none" => row'[s].state = "none"
      <3>1. CASE s = On(r)
        BY <1>4, <3>1 DEF Known
      <3>2. CASE s # On(r)
        BY <1>3, <3>2, RowAfter
      <3>3. QED
        BY <3>1, <3>2
    <2>3. QED
      BY <1>1, <1>3, <1>4, <2>1, <2>2 DEF Same, RequestSafe, Known
  <1>7. Sound(s)'
    BY <1>1, <1>4, SoundStays DEF RequestSafe
  <1>8. Covered(s)'
    <2> SUFFICES ASSUME NEW t \in parts'[On(s)], Sees(s, t)'
                 PROVE  /\ pc[s] = Insert[t.part] => t \in scan[s]
                        /\ s \notin rolled /\ t.part \in Done(s) /\ Replaces(s, t.part) => t \in gone[s]
      BY <1>1, <1>3 DEF Same, Covered
    <2>1. Sees(s, t)
      BY <1>1 DEF Sees, Same
    <2>2. CASE t \in parts[On(s)]
      BY <1>4, <2>1, <2>2 DEF RequestSafe, Covered
    <2>3. CASE t \notin parts[On(s)]
      <3>1. On(s) = On(r) /\ t \in put[r]
        BY <1>3, <1>5, <2>3, RowAfter
      <3>2. t \in New(r, t.part) /\ t.part \in Done(r)
        BY <1>4, <3>1 DEF Sound
      <3>3. t.part \in Parts /\ t.by = r
        BY <3>2, NewTyped, DoneIn
      <3>4. s \in stale' => FALSE
        <4>1. ASSUME s \in holds, r \notin unlocked PROVE FALSE
          <5>1. r \in holds
            BY <1>4, <3>1, <4>1 DEF Sound
          <5>2. QED
            BY <3>1, <4>1, <5>1 DEF PartsSafe, OneHolder
        <4>2. QED
          BY <1>1, <3>3, <4>1 DEF Sees, Same
      <3>5. ~ Reading(s)
        BY <1>2, <3>1, <3>4
      <3>6. pc[s] # Insert[t.part] /\ Done(s) = {}
        BY <3>3, <3>5, Busy
      <3>7. QED
        BY <3>6
    <2>4. QED
      BY <2>2, <2>3
  <1>9. Unchanged(s)'
    <2> SUFFICES ASSUME s \notin rolled, s \notin stale', Reading(s), Creates(s) => Second(s),
                        NEW f \in Fields \ changes[s]
                 PROVE  row'[On(s)][f] = ask[s][f]
      BY <1>1, <1>3 DEF Same, Unchanged
    <2>1. s \notin stale
      BY <1>1
    <2>2. QED
      BY <1>2, <1>4, <1>5, <2>1 DEF RequestSafe, Unchanged
  <1>10. Kept(s)'
    <2> SUFFICES ASSUME s \notin rolled, s \notin stale', Second(s),
                        NEW part \in Parts \ {"tools"}, Replaces(s, part)
                 PROVE  Held(On(s), part)' = New(s, part)
      BY <1>1, <1>3 DEF Same, Kept
    <2>1. s \notin stale /\ On(s) # On(r)
      BY <1>1, <1>2, Busy
    <2>2. Held(On(s), part)' = Held(On(s), part)
      BY <1>3, <1>5, <2>1 DEF Held
    <2>3. QED
      BY <1>4, <2>1, <2>2 DEF RequestSafe, Kept
  <1>11. Fresh(s)'
    <2> SUFFICES ASSUME s \notin rolled, s \notin stale', pc[s] = "ok", ask[s].kind # "delete",
                        last'[On(s)] = s
                 PROVE  AsAsked(s)'
      BY <1>1, <1>3 DEF Same, Fresh
    <2>1. On(s) # On(r)
      BY RowAfter
    <2>2. AsAsked(s)
      BY <1>1, <1>4, <1>5, <2>1 DEF RequestSafe, Fresh
    <2>3. \A part : Held(On(s), part)' = Held(On(s), part)
      BY <1>3, <1>5, <2>1 DEF Held
    <2>4. QED
      BY <1>1, <1>3, <1>5, <2>1, <2>2, <2>3 DEF AsAsked, Same
  <1>12. QED
    BY <1>6, <1>7, <1>8, <1>9, <1>10, <1>11 DEF RequestSafe

(* What r has then stored. *)
LEMMA HeldAfter ==
  ASSUME TypeOK, PartsSafe, NEW r \in Requests, NEW from, NEW to, Apply(r, from, to),
         NEW part \in Parts
  PROVE  /\ part \notin Done(r) => Held(On(r), part)' = Held(On(r), part)
         /\ part \in Done(r) /\ r \notin rolled \union stale /\ Replaces(r, part)
            => Held(On(r), part)' = New(r, part)
         /\ part \in Done(r) /\ r \notin rolled /\ parts[On(r)] = {}
            => Held(On(r), part)' = New(r, part)
  <1>1. On(r)' = On(r) /\ parts'[On(r)] = (parts[On(r)] \ gone[r]) \union put[r]
    BY RowAfter DEF Apply, On
  <1>2. Sound(r) /\ Covered(r)
    BY DEF PartsSafe, RequestSafe
  <1>3. \A t \in gone[r] \union put[r] : t.part \in Done(r)
    BY <1>2 DEF Sound
  <1>4. {t \in put[r] : t.part = part} \subseteq New(r, part)
    BY <1>2 DEF Sound
  <1>5. part \in Done(r) /\ r \notin rolled => New(r, part) \subseteq {t \in put[r] : t.part = part}
    BY <1>2, NewTyped DEF Sound
  <1>6. part \in Done(r) /\ r \notin rolled \union stale /\ Replaces(r, part)
        => \A t \in parts[On(r)] : t.part = part => t \in gone[r]
    BY <1>2 DEF Covered, Sees
  <1>7. Held(On(r), part)' = {t \in (parts[On(r)] \ gone[r]) \union put[r] : t.part = part}
    BY <1>1 DEF Held
  <1>8. part \notin Done(r) => Held(On(r), part)' = Held(On(r), part)
    BY <1>3, <1>7 DEF Held
  <1>9. QED
    BY <1>4, <1>5, <1>6, <1>7, <1>8

(* The two commits: of the row with its tags and features, and of a create's tools. *)
Commits(r, to) ==
  \/ Apply(r, "commit", to) /\ to = (IF Creates(r) THEN "tools" ELSE "ok") /\ ~ (Creates(r) /\ r \in rolled)
  \/ Apply(r, "commit tools", to) /\ to = (IF r \in rolled THEN "error" ELSE "ok")

(* Where r is and what it leaves. *)
AtCommit(r, to) ==
  /\ pc[r] \in {"commit", "commit tools"} /\ pc'[r] = to /\ ask' = ask
  /\ unlocked' = unlocked /\ rolled' = rolled /\ (r \in stale' <=> r \in stale)
  /\ On(r)' = On(r) /\ (Creates(r)' <=> Creates(r)) /\ On(r) \in Agents
  /\ changes'[r] = {} /\ scan'[r] = {} /\ gone'[r] = {} /\ put'[r] = {} /\ holds' = holds \ {r}
  /\ \A p : New(r, p)' = New(r, p)
  /\ First(r) \/ Second(r)
  /\ ~ First(r)' /\ Done(r)' = {} /\ (Second(r)' <=> pc[r] = "commit" /\ Creates(r))
  /\ (Reading(r)' <=> pc[r] = "commit" /\ Creates(r))
  /\ \A p \in Parts : pc'[r] # Insert[p]
  /\ pc[r] = "commit tools" => Creates(r) /\ Second(r) /\ Done(r) = {"tools"} /\ changes[r] = {}
  /\ pc[r] = "commit" => First(r) /\ ~ Second(r)
  /\ pc[r] = "commit" /\ Creates(r) =>
       /\ r \notin rolled /\ changes[r] = Fields /\ row[r].state = "none"
       /\ Done(r) = Parts \ {"tools"} /\ parts[r] = {}
  /\ pc[r] = "commit" /\ ~ Creates(r) => Done(r) = Parts
  /\ Creates(r) => On(r) = r
  /\ to \in {"ok", "tools", "error"} /\ (to = "tools" <=> pc[r] = "commit" /\ Creates(r))

LEMMA CommitFacts ==
  ASSUME TypeOK, PartsSafe, NEW r \in Requests, NEW to, Commits(r, to)
  PROVE  AtCommit(r, to)
  <1>1. PICK from \in {"commit", "commit tools"} : Apply(r, from, to) /\ pc[r] = from
    BY DEF Commits, Apply, Goto
  <1>2. /\ pc'[r] = to /\ ask' = ask /\ unlocked' = unlocked /\ rolled' = rolled
        /\ r \in stale' <=> r \in stale
        /\ changes'[r] = {} /\ scan'[r] = {} /\ gone'[r] = {} /\ put'[r] = {} /\ holds' = holds \ {r}
    BY <1>1 DEF Apply, Goto, Abandon, Rivals, TypeOK
  <1>3. On(r)' = On(r) /\ (Creates(r)' <=> Creates(r)) /\ On(r) \in Agents
        /\ \A p : New(r, p)' = New(r, p)
    BY <1>2, OnTyped DEF On, Creates, New, Given
  <1>4. Known(r) /\ Sound(r) /\ NothingOfNone /\ r \in Agents
    BY DEF PartsSafe, RequestSafe, Agents
  <1>5. CASE pc[r] = "commit"
    <2>1. to = (IF Creates(r) THEN "tools" ELSE "ok") /\ ~ (Creates(r) /\ r \in rolled)
      BY <1>5 DEF Commits, Apply, Goto
    <2>2. /\ First(r) /\ ~ Second(r) /\ ~ First(r)' /\ Done(r)' = {}
          /\ Second(r)' <=> Creates(r)
          /\ Reading(r)' <=> Creates(r)
          /\ \A p \in Parts : pc'[r] # Insert[p]
          /\ Done(r) = IF Creates(r) THEN Parts \ {"tools"} ELSE Parts
      BY <1>2, <1>3, <1>5, <2>1, InsertIs DEF First, Second, Done, Reading, Parts
    <2>3. Creates(r) => On(r) = r /\ changes[r] = Fields /\ row[r].state = "none" /\ parts[r] = {}
      BY <1>4, <1>5, <2>1, <2>2 DEF Known, Sound, NothingOfNone
    <2>4. QED
      BY <1>2, <1>3, <1>5, <2>1, <2>2, <2>3 DEF AtCommit
  <1>6. CASE pc[r] = "commit tools"
    <2>1. to = (IF r \in rolled THEN "error" ELSE "ok")
      BY <1>6 DEF Commits, Apply, Goto
    <2>2. /\ Second(r) /\ ~ Second(r)' /\ ~ First(r)' /\ Done(r)' = {} /\ ~ Reading(r)'
          /\ \A p \in Parts : pc'[r] # Insert[p]
          /\ Done(r) = {"tools"}
      BY <1>2, <1>6, <2>1, InsertIs DEF First, Second, Done, Reading, Parts
    <2>3. Creates(r) /\ On(r) = r /\ changes[r] = {}
      BY <1>4, <1>6, <2>2 DEF Known, Sound
    <2>4. QED
      BY <1>2, <1>3, <1>6, <2>1, <2>2, <2>3 DEF AtCommit
  <1>7. QED
    BY <1>1, <1>5, <1>6

LEMMA ApplySelf ==
  ASSUME TypeOK, PartsSafe, NEW r \in Requests, NEW to, Commits(r, to)
  PROVE  RequestSafe(r)'
  <1>1. PICK from : Apply(r, from, to)
    BY DEF Commits
  <1>2. AtCommit(r, to)
    BY CommitFacts
  <1>3. Known(r) /\ Sound(r) /\ Unchanged(r) /\ Kept(r)
    BY DEF PartsSafe, RequestSafe
  <1>4. Known(r)'
    <2>1. row'[On(r)].state = IF changes[r] # {} /\ Creates(r) THEN "live" ELSE row[On(r)].state
      BY <1>1, RowAfter
    <2>2. pc[r] = "commit" /\ Creates(r) => row'[On(r)].state = "live"
      BY <2>1, <1>2 DEF AtCommit, Fields
    <2>3. QED
      BY <1>3, <2>1, <2>2, <1>2 DEF AtCommit, Known
  <1>5. Sound(r)'
    BY <1>2 DEF AtCommit, Sound
  <1>6. Covered(r)'
    <2>1. \A t \in parts'[On(r)] : t.part \in Parts
      <3>1. parts'[On(r)] \subseteq parts[On(r)] \union put[r]
        BY <1>1, RowAfter
      <3>2. parts[On(r)] \subseteq Stored /\ put[r] \subseteq Stored
        BY OnTyped DEF TypeOK
      <3>3. QED
        BY <3>1, <3>2 DEF Stored
    <2>2. QED
      BY <2>1, <1>2 DEF AtCommit, Covered
  <1>7. Unchanged(r)'
    <2> SUFFICES ASSUME r \notin rolled \union stale, pc[r] = "commit", Creates(r), NEW f \in Fields
                 PROVE  row'[On(r)][f] = ask[r][f]
      BY <1>2 DEF AtCommit, Unchanged
    <2>1. QED
      BY <1>1, FieldAfter, <1>2 DEF AtCommit
  <1>8. Kept(r)'
    <2> SUFFICES ASSUME r \notin rolled \union stale, pc[r] = "commit", Creates(r),
                        NEW part \in Parts \ {"tools"}
                 PROVE  Held(On(r), part)' = New(r, part)
      BY <1>2 DEF AtCommit, Kept
    <2>1. QED
      BY <1>1, HeldAfter, <1>2 DEF AtCommit
  <1>9. Fresh(r)'
    <2> SUFFICES ASSUME r \notin rolled \union stale, to = "ok", ask[r].kind # "delete"
                 PROVE  AsAsked(r)'
      BY <1>2 DEF AtCommit, Fresh
    <2>1. \A f \in Fields : row'[On(r)][f] = ask[r][f]
      <3> TAKE f \in Fields
      <3>1. Reading(r) /\ (Creates(r) => Second(r))
        BY <1>2, Busy DEF AtCommit
      <3>2. f \notin changes[r] => row[On(r)][f] = ask[r][f]
        BY <1>3, <3>1 DEF Unchanged
      <3>3. QED
        BY <1>1, <3>2, FieldAfter
    <2>2. \A part \in Parts : Replaces(r, part) => Held(On(r), part)' = New(r, part)
      <3> SUFFICES ASSUME NEW part \in Parts, Replaces(r, part)
                   PROVE  Held(On(r), part)' = New(r, part)
        OBVIOUS
      <3>1. CASE part \in Done(r)
        BY <1>1, <3>1, HeldAfter
      <3>2. CASE part \notin Done(r)
        <4>1. Second(r) /\ part # "tools"
          BY <3>2, <1>2 DEF AtCommit
        <4>2. QED
          BY <1>1, <1>3, <3>2, <4>1, HeldAfter DEF Kept
      <3>3. QED
        BY <3>1, <3>2
    <2>3. /\ \A part \in {"tools", "features"} : Held(On(r), part)' = New(r, part)
          /\ \A part \in {"category", "type"} :
               New(r, part) # {} => Held(On(r), part)' = New(r, part)
      BY <2>2 DEF Replaces, Always, Parts
    <2>4. QED
      BY <2>1, <2>3, <1>2 DEF AtCommit, AsAsked
  <1>10. QED
    BY <1>4, <1>5, <1>6, <1>7, <1>8, <1>9 DEF RequestSafe

LEMMA ApplyMixed ==
  ASSUME TypeOK, PartsSafe, NEW r \in Requests, NEW to, Commits(r, to)
  PROVE  MixedOnlyUnlocked'
  <1>1. PICK from : Apply(r, from, to)
    BY DEF Commits
  <1>2. AtCommit(r, to)
    BY CommitFacts
  <1> SUFFICES ASSUME NEW a \in Agents, NEW t \in parts'[a], NEW u \in parts'[a],
                      Together(t, u), t.by # u.by, t.by \notin unlocked, u.by \notin unlocked
               PROVE  FALSE
    BY <1>2 DEF AtCommit, MixedOnlyUnlocked, Together
  <1>3. Sound(r) /\ Covered(r)
    BY DEF PartsSafe, RequestSafe
  <1>4. \A x, y \in parts[a] : Together(x, y) /\ x.by # y.by => x.by \in unlocked \/ y.by \in unlocked
    BY DEF PartsSafe, MixedOnlyUnlocked
  <1>5. a = On(r) /\ parts'[a] = (parts[a] \ gone[r]) \union put[r]
    <2>1. a = On(r)
      BY <1>1, <1>4, RowAfter
    <2>2. QED
      BY <1>1, <2>1, RowAfter
  <1>6. ASSUME NEW x \in put[r], NEW y \in parts[a] \ gone[r], Together(x, y),
               r \notin unlocked, y.by \notin unlocked
        PROVE  FALSE
    <2>1. r \in holds /\ First(r) /\ r \notin rolled /\ x.part \in Done(r) /\ x \in New(r, x.part)
      BY <1>3, <1>6 DEF Sound
    <2>2. pc[r] = "commit" /\ ~ Creates(r) /\ Done(r) = Parts
      BY <1>5, <1>6, <2>1, <1>2 DEF AtCommit, First
    <2>3. y.part \in Parts
      BY <1>5, <1>6, PartsTyped
    <2>4. Replaces(r, y.part)
      <3>1. CASE x.part = y.part
        BY <2>1, <3>1 DEF Replaces
      <3>2. CASE {x.part, y.part} = {"tools", "features"}
        BY <3>2 DEF Replaces, Always
      <3>3. QED
        BY <1>6, <3>1, <3>2 DEF Together
    <2>5. Sees(r, y)
      BY <1>6, <2>1 DEF Sees
    <2>6. QED
      BY <1>3, <1>5, <1>6, <2>1, <2>2, <2>3, <2>4, <2>5 DEF Covered
  <1>7. \A x \in put[r] : x.by = r
    <2> TAKE x \in put[r]
    <2>1. x \in New(r, x.part) /\ x.part \in Parts
      BY <1>3, DoneIn DEF Sound
    <2>2. QED
      BY <2>1, NewTyped
  <1>8. CASE t \in put[r] /\ u \notin put[r]
    BY <1>5, <1>6, <1>7, <1>8
  <1>9. CASE u \in put[r] /\ t \notin put[r]
    <2>1. Together(u, t)
      BY DEF Together
    <2>2. QED
      BY <1>5, <1>6, <1>7, <1>9, <2>1
  <1>10. CASE t \in put[r] /\ u \in put[r]
    BY <1>7, <1>10
  <1>11. CASE t \notin put[r] /\ u \notin put[r]
    BY <1>4, <1>5, <1>11
  <1>12. QED
    BY <1>8, <1>9, <1>10, <1>11

LEMMA ApplyStep ==
  ASSUME TypeOK, PartsSafe, NEW r \in Requests, NEW to, Commits(r, to)
  PROVE  PartsSafe'
  <1>1. PICK from : Apply(r, from, to)
    BY DEF Commits
  <1>2. AtCommit(r, to)
    BY CommitFacts
  <1>3. \A s \in Requests : RequestSafe(s)'
    <2> TAKE s \in Requests
    <2>1. CASE s = r
      BY <2>1, ApplySelf
    <2>2. CASE s # r
      BY <1>1, <2>2, ApplyOther, <1>2 DEF AtCommit
    <2>3. QED
      BY <2>1, <2>2
  <1>4. OneHolder'
    BY <1>2 DEF AtCommit, PartsSafe, OneHolder, On
  <1>5. NothingOfNone'
    <2> SUFFICES ASSUME NEW a \in Agents, row'[a].state = "none" PROVE parts'[a] = {}
      BY DEF NothingOfNone
    <2>1. CASE a # On(r)
      BY <1>1, <2>1, RowAfter DEF PartsSafe, NothingOfNone
    <2>2. CASE a = On(r)
      <3>1. row'[a].state = IF changes[r] # {} /\ Creates(r) THEN "live" ELSE row[a].state
        BY <1>1, <2>2, RowAfter
      <3>2. row[a].state = "none" /\ ~ (changes[r] # {} /\ Creates(r))
        BY <3>1
      <3>3. Known(r)
        BY DEF PartsSafe, RequestSafe
      <3>4. QED
        BY <2>2, <3>2, <3>3, <1>2 DEF AtCommit, Known, Fields
    <2>3. QED
      BY <2>1, <2>2
  <1>6. QED
    BY <1>3, <1>4, <1>5, ApplyMixed DEF PartsSafe

-----------------------------------------------------------------------------
(* A deleted agent, and a user's *)

(* Marked as deleted, an agent is for every other request as it was. *)
LEMMA MarkedDeleted ==
  ASSUME TypeOK, NEW a \in Agents, row[a].state # "none", row' = [row EXCEPT ![a].state = "deleted"]
  PROVE  \A b \in Agents : /\ row'[b].name = row[b].name /\ row'[b].by = row[b].by
                           /\ row'[b].state = "none" <=> row[b].state = "none"
                           /\ \A f \in Fields : row'[b][f] = row[b][f]
  <1>1. row \in [Agents -> Rows]
    BY DEF TypeOK
  <1>2. row' = [row EXCEPT ![a] = [row[a] EXCEPT !.state = "deleted"]]
    OBVIOUS
  <1>3. \A b \in Agents : /\ row'[b].name = row[b].name /\ row'[b].by = row[b].by
                          /\ row'[b].text = row[b].text
                          /\ row'[b].state = "none" <=> row[b].state = "none"
    BY <1>1, <1>2 DEF Rows
  <1>4. QED
    BY <1>3 DEF Fields

LEMMA DeletedOther ==
  ASSUME TypeOK, PartsSafe,
         \A b \in Agents : /\ row'[b].state = "none" <=> row[b].state = "none"
                           /\ \A f \in Fields : row'[b][f] = row[b][f],
         UNCHANGED <<parts, unlocked, stale, last>>, NEW s \in Requests, Same(s)
  PROVE  RequestSafe(s)'
  <1>1. RequestSafe(s) /\ On(s) \in Agents /\ s \in Agents
    BY OnTyped DEF PartsSafe
  <1> USE SamePlace
  <1>2. Known(s)'
    BY <1>1 DEF Same, RequestSafe, Known
  <1>3. Sound(s)'
    BY <1>1, SoundStays DEF RequestSafe
  <1>4. Covered(s)'
    <2> SUFFICES ASSUME NEW t \in parts[On(s)], Sees(s, t)'
                 PROVE  /\ pc[s] = Insert[t.part] => t \in scan[s]
                        /\ s \notin rolled /\ t.part \in Done(s) /\ Replaces(s, t.part)
                           => t \in gone[s]
      BY DEF Same, Covered
    <2>1. Sees(s, t)
      BY DEF Sees, Same
    <2>2. QED
      BY <1>1, <2>1 DEF RequestSafe, Covered
  <1>5. Unchanged(s)'
    BY <1>1 DEF Same, RequestSafe, Unchanged
  <1>6. Kept(s)'
    BY <1>1 DEF Same, RequestSafe, Kept, Held
  <1>7. Fresh(s)'
    <2>1. \A part : Held(On(s), part)' = Held(On(s), part)
      BY <1>1 DEF Held, Same
    <2>2. AsAsked(s)' <=> AsAsked(s)
      BY <1>1, <2>1 DEF AsAsked, Same
    <2>3. QED
      BY <1>1, <2>2 DEF Same, RequestSafe, Fresh
  <1>8. QED
    BY <1>2, <1>3, <1>4, <1>5, <1>6, <1>7 DEF RequestSafe

(* What is between the agents, when the tables are as they were but for such a mark. *)
LEMMA DeletedAgents ==
  ASSUME TypeOK, PartsSafe, NEW a \in Agents, row[a].state # "none",
         row' = [row EXCEPT ![a].state = "deleted"],
         UNCHANGED <<parts, unlocked, holds, ask>>
  PROVE  OneHolder' /\ NothingOfNone' /\ MixedOnlyUnlocked'
  <1>1. OneHolder'
    BY DEF PartsSafe, OneHolder, On
  <1>2. NothingOfNone'
    BY MarkedDeleted DEF PartsSafe, NothingOfNone
  <1>3. MixedOnlyUnlocked'
    BY DEF PartsSafe, MixedOnlyUnlocked, Together
  <1>4. QED
    BY <1>1, <1>2, <1>3

LEMMA DeleteAgentStep ==
  ASSUME TypeOK, PartsSafe, NEW r \in Requests, DeleteAgent(r)
  PROVE  PartsSafe'
  <1>1. /\ pc[r] = "delete" /\ pc'[r] = "ok" /\ row' = [row EXCEPT ![On(r)].state = "deleted"]
        /\ UNCHANGED <<parts, ask, changes, holds, scan, gone, put, rolled, unlocked, stale, last>>
        /\ \A s \in Requests \ {r} : Same(s)
    BY DEF DeleteAgent, Goto, Same, TypeOK, local, history
  <1>2. Known(r) /\ Sound(r)
    BY DEF PartsSafe, RequestSafe
  <1>3. ask[r].kind = "delete" /\ ~ Creates(r) /\ row[On(r)].state # "none" /\ On(r) \in Agents
    BY <1>1, <1>2, OnTyped DEF Known, Creates
  <1>4. RequestSafe(r)'
    <2>1. On(r)' = On(r) /\ (Creates(r)' <=> Creates(r))
      BY <1>1 DEF On, Creates
    <2>2. Idle(pc[r]) /\ Idle(pc'[r])
      BY <1>1 DEF Idle
    <2>3. /\ ~ First(r) /\ ~ Second(r) /\ ~ First(r)' /\ ~ Second(r)' /\ Done(r)' = {}
          /\ \A p \in Parts : pc'[r] # Insert[p]
      BY <2>2, OutsidePlace, InsertIs DEF First, Second, Done, Idle, Parts
    <2>4. Known(r)'
      <3>1. row'[On(r)].state # "none"
        BY <1>1, <1>3, MarkedDeleted
      <3>2. QED
        BY <1>1, <1>3, <2>1, <2>3, <3>1 DEF Known
    <2>5. Sound(r)'
      BY <1>1, <1>2, <1>3, <2>1, <2>3 DEF Sound
    <2>6. Covered(r)'
      BY <1>1, <2>1, <2>3, PartsTyped DEF Covered
    <2>7. Unchanged(r)' /\ Kept(r)' /\ Fresh(r)'
      BY <1>1, <1>3, <2>3 DEF Unchanged, Kept, Fresh, Reading
    <2>8. QED
      BY <2>4, <2>5, <2>6, <2>7 DEF RequestSafe
  <1>5. \A b \in Agents : /\ row'[b].state = "none" <=> row[b].state = "none"
                          /\ \A f \in Fields : row'[b][f] = row[b][f]
    BY <1>1, <1>3, MarkedDeleted
  <1>6. \A s \in Requests \ {r} : RequestSafe(s)'
    <2> TAKE s \in Requests \ {r}
    <2>1. Same(s) /\ UNCHANGED <<parts, unlocked, stale, last>>
      BY <1>1
    <2>2. QED
      BY <1>5, <2>1, DeletedOther
  <1>7. QED
    BY <1>1, <1>3, <1>4, <1>6, DeletedAgents DEF PartsSafe

LEMMA UserWritesStep ==
  ASSUME TypeOK, PartsSafe, NEW a \in Theirs, UserWrites(a)
  PROVE  PartsSafe'
  <1>1. /\ UNCHANGED <<ask, holds, rolled, unlocked>> /\ stale \subseteq stale'
        /\ \A s \in Requests : Same(s)
        /\ last' = [last EXCEPT ![a] = a]
        /\ ~ Locked(a)
    BY DEF UserWrites, Same, local
  <1>2. a \in Agents /\ a \notin Requests
    BY DEF Agents
  <1>3. /\ \A b \in Agents \ {a} : row'[b] = row[b] /\ parts'[b] = parts[b] /\ last'[b] = last[b]
        /\ row'[a].state # "none" /\ last'[a] = a
        /\ \A t \in parts'[a] : (t \in parts[a] /\ t.part # "features") \/ (t.part = "features" /\ t.by = a)
    <2>1. PICK n \in Names, x \in Texts : row' = [row EXCEPT ![a] = UserRow(a, n, x)]
      BY <1>2 DEF UserWrites, UserRow, TypeOK
    <2>2. /\ row \in [Agents -> Rows] /\ last \in [Agents -> Agents]
          /\ parts \in [Agents -> SUBSET Stored]
      BY DEF TypeOK
    <2>3. parts' = [parts EXCEPT ![a] = (parts[a] \ Held(a, "features"))
                       \union [part : {"features"}, word : Features \ {None}, by : {a}]]
      BY <1>2, <2>2 DEF UserWrites
    <2>4. /\ \A b \in Agents \ {a} : row'[b] = row[b] /\ parts'[b] = parts[b] /\ last'[b] = last[b]
          /\ row'[a].state # "none" /\ last'[a] = a
      BY <1>1, <1>2, <2>1, <2>2, <2>3 DEF UserRow
    <2>5. parts'[a] = (parts[a] \ Held(a, "features"))
                        \union [part : {"features"}, word : Features \ {None}, by : {a}]
      BY <1>2, <2>2, <2>3
    <2>6. \A t \in [part : {"features"}, word : Features \ {None}, by : {a}] :
            t.part = "features" /\ t.by = a
      OBVIOUS
    <2>7. QED
      BY <2>4, <2>5, <2>6 DEF Held
  <1>4. ASSUME NEW s \in Requests PROVE RequestSafe(s)'
    <2>1. /\ Same(s) /\ RequestSafe(s) /\ On(s) \in Agents /\ s \in Agents /\ s # a
          /\ On(s) = a /\ Reading(s) => s \in stale'
      BY <1>1, <1>2, OnTyped DEF PartsSafe, UserWrites
    <2>2. On(s) # a => row'[On(s)] = row[On(s)] /\ parts'[On(s)] = parts[On(s)] /\ last'[On(s)] = last[On(s)]
      BY <1>3, <2>1
    <2> USE SamePlace
    <2>3. Known(s)'
      <3>1. row'[s] = row[s]
        BY <1>3, <2>1
      <3>2. row[On(s)].state # "none" => row'[On(s)].state # "none"
        BY <1>3, <2>2
      <3>3. QED
        BY <2>1, <3>1, <3>2 DEF Same, RequestSafe, Known
    <2>4. Sound(s)'
      BY <2>1, SoundStays DEF RequestSafe
    <2>5. Covered(s)'
      <3> SUFFICES ASSUME NEW t \in parts'[On(s)], Sees(s, t)'
                   PROVE  /\ pc[s] = Insert[t.part] => t \in scan[s]
                          /\ s \notin rolled /\ t.part \in Done(s) /\ Replaces(s, t.part) => t \in gone[s]
        BY <2>1 DEF Same, Covered
      <3>1. Sees(s, t)
        BY <1>1, <2>1 DEF Sees, Same
      <3>2. CASE t \in parts[On(s)]
        BY <2>1, <3>1, <3>2 DEF RequestSafe, Covered
      <3>3. CASE t \notin parts[On(s)]
        <4>1. On(s) = a /\ t.part \in Parts
          BY <1>3, <2>2, <3>3 DEF Parts
        <4>2. s \notin holds
          BY <1>1, <4>1 DEF Locked
        <4>3. ~ Reading(s)
          BY <1>1, <2>1, <4>1, <4>2 DEF Sees, Same
        <4>4. pc[s] # Insert[t.part] /\ Done(s) = {}
          BY <4>1, <4>3, Busy
        <4>5. QED
          BY <4>4
      <3>4. QED
        BY <3>2, <3>3
    <2>6. Unchanged(s)'
      <3> SUFFICES ASSUME s \notin rolled, s \notin stale', Reading(s), Creates(s) => Second(s),
                          NEW f \in Fields \ changes[s]
                   PROVE  row'[On(s)][f] = ask[s][f]
        BY <1>1, <2>1 DEF Same, Unchanged
      <3>1. QED
        BY <1>1, <2>1, <2>2 DEF RequestSafe, Unchanged
    <2>7. Kept(s)'
      <3> SUFFICES ASSUME s \notin rolled, s \notin stale', Second(s),
                          NEW part \in Parts \ {"tools"}, Replaces(s, part)
                   PROVE  Held(On(s), part)' = New(s, part)
        BY <1>1, <2>1 DEF Same, Kept
      <3>1. s \notin stale /\ On(s) # a
        BY <1>1, <2>1, Busy
      <3>2. Held(On(s), part)' = Held(On(s), part)
        BY <2>1, <2>2, <3>1 DEF Held, Same
      <3>3. QED
        BY <2>1, <3>1, <3>2 DEF RequestSafe, Kept
    <2>8. Fresh(s)'
      <3> SUFFICES ASSUME s \notin rolled, s \notin stale', pc[s] = "ok", ask[s].kind # "delete",
                          last'[On(s)] = s
                   PROVE  AsAsked(s)'
        BY <1>1, <2>1 DEF Same, Fresh
      <3>1. On(s) # a
        BY <1>3, <2>1
      <3>2. AsAsked(s)
        BY <1>1, <2>1, <2>2, <3>1 DEF RequestSafe, Fresh
      <3>3. \A part : Held(On(s), part)' = Held(On(s), part)
        BY <2>1, <2>2, <3>1 DEF Held, Same
      <3>4. QED
        BY <2>1, <2>2, <3>1, <3>2, <3>3 DEF AsAsked, Same
    <2>9. QED
      BY <2>3, <2>4, <2>5, <2>6, <2>7, <2>8 DEF RequestSafe
  <1>5. OneHolder'
    BY <1>1 DEF PartsSafe, OneHolder, On
  <1>6. NothingOfNone'
    BY <1>1, <1>3 DEF PartsSafe, NothingOfNone
  <1>7. MixedOnlyUnlocked'
    <2> SUFFICES ASSUME NEW b \in Agents, NEW t \in parts'[b], NEW v \in parts'[b],
                        Together(t, v), t.by # v.by
                 PROVE  t.by \in unlocked \/ v.by \in unlocked
      BY <1>1 DEF MixedOnlyUnlocked, Together
    <2>1. \A x, y \in parts[b] : Together(x, y) /\ x.by # y.by => x.by \in unlocked \/ y.by \in unlocked
      BY DEF PartsSafe, MixedOnlyUnlocked
    <2>2. CASE b # a
      BY <1>3, <2>1, <2>2
    <2>3. CASE b = a
      <3>1. t \in parts[a] /\ v \in parts[a]
        BY <1>3, <2>3 DEF Together
      <3>2. QED
        BY <2>1, <2>3, <3>1
    <2>4. QED
      BY <2>2, <2>3
  <1>8. QED
    BY <1>4, <1>5, <1>6, <1>7 DEF PartsSafe

LEMMA StutterStep ==
  ASSUME TypeOK, PartsSafe, UNCHANGED vars
  PROVE  PartsSafe'
  <1>1. \A r \in Requests : RequestSafe(r)' <=> RequestSafe(r)
    <2> TAKE r \in Requests
    <2>1. /\ Same(r) /\ row' = row /\ parts' = parts /\ stale' = stale /\ rolled' = rolled
          /\ unlocked' = unlocked /\ holds' = holds /\ last' = last /\ ask' = ask
      BY DEF vars, tables, local, history, Same
    <2> USE SamePlace
    <2>2. \A part : Held(On(r), part)' = Held(On(r), part)
      BY <2>1 DEF Held, Same
    <2>3. AsAsked(r)' <=> AsAsked(r)
      BY <2>1, <2>2 DEF AsAsked, Same
    <2>4. Known(r)' <=> Known(r)
      BY <2>1 DEF Same, Known
    <2>5. Sound(r)' <=> Sound(r)
      BY <2>1 DEF Same, Sound
    <2>6. Covered(r)' <=> Covered(r)
      BY <2>1 DEF Same, Covered, Sees
    <2>7. (Unchanged(r)' <=> Unchanged(r)) /\ (Kept(r)' <=> Kept(r)) /\ (Fresh(r)' <=> Fresh(r))
      BY <2>1, <2>2, <2>3 DEF Same, Unchanged, Kept, Fresh
    <2>8. QED
      BY <2>4, <2>5, <2>6, <2>7 DEF RequestSafe
  <1>2. QED
    BY <1>1 DEF PartsSafe, OneHolder, NothingOfNone, MixedOnlyUnlocked, Together, On,
                vars, tables, local, history

LEMMA PartsInit == Init => PartsSafe
  <1> SUFFICES ASSUME Init PROVE PartsSafe
    OBVIOUS
  <1>1. PICK q \in Asks :
          /\ row = [a \in Agents |-> [state |-> IF a = Old THEN "live" ELSE "none",
                                     name |-> q.name, text |-> q.text, by |-> a]]
          /\ parts = [a \in Agents |-> IF a # Old THEN {} ELSE UNION {Given(q, p, Old) : p \in Parts}]
    BY DEF Init
  <1>2. \A p \in Parts : \A t \in Given(q, p, Old) : t.by = Old /\ t.part \in Parts
    BY DEF Given
  <1>3. \A a \in Agents : \A t \in parts[a] : t.by = Old /\ t.part \in Parts
    BY <1>1, <1>2
  <1>4. ASSUME NEW r \in Requests PROVE RequestSafe(r)
    <2>1. /\ pc[r] = "idle" /\ ~ Creates(r) /\ On(r) = Old /\ ask[r].kind = "delete"
          /\ changes[r] = {} /\ scan[r] = {} /\ gone[r] = {} /\ put[r] = {}
          /\ holds = {} /\ rolled = {} /\ r # Old
      BY DEF Init, Creates, On, DeleteOf
    <2>2. Idle(pc[r])
      BY <2>1 DEF Idle
    <2>3. ~ First(r) /\ ~ Second(r) /\ Done(r) = {} /\ \A p \in Parts : pc[r] # Insert[p]
      BY <2>2, OutsidePlace
    <2>4. Known(r)
      <3>1. row[r].state = "none"
        BY <1>1, <2>1 DEF Agents
      <3>2. QED
        BY <2>1, <2>3, <3>1 DEF Known
    <2>5. Sound(r)
      BY <2>1, <2>3 DEF Sound
    <2>6. Covered(r)
      <3>1. On(r) \in Agents
        BY <2>1 DEF Agents
      <3>2. QED
        BY <1>3, <2>3, <3>1 DEF Covered
    <2>7. Unchanged(r) /\ Kept(r) /\ Fresh(r)
      BY <2>1, <2>3 DEF Unchanged, Kept, Fresh, Reading
    <2>8. QED
      BY <2>4, <2>5, <2>6, <2>7 DEF RequestSafe
  <1>5. OneHolder
    BY DEF Init, OneHolder
  <1>6. NothingOfNone
    BY <1>1 DEF NothingOfNone
  <1>7. MixedOnlyUnlocked
    BY <1>3 DEF MixedOnlyUnlocked
  <1>8. QED
    BY <1>4, <1>5, <1>6, <1>7 DEF PartsSafe

LEMMA PartsStep == TypeOK /\ PartsSafe /\ [Next]_vars => PartsSafe'
  <1> SUFFICES ASSUME TypeOK, PartsSafe, [Next]_vars PROVE PartsSafe'
    OBVIOUS
  <1>1. ASSUME NEW r \in Requests, Receive(r) PROVE PartsSafe'
    BY <1>1, ReceiveStep
  <1>2. ASSUME NEW r \in Requests, Find(r) PROVE PartsSafe'
    BY <1>2, FindStep, SkipStep, AnswerStep DEF Find
  <1>3. ASSUME NEW r \in Requests, CheckName(r) PROVE PartsSafe'
    BY <1>3, SkipStep, AnswerStep DEF CheckName
  <1>4. ASSUME NEW r \in Requests, WriteFields(r) PROVE PartsSafe'
    BY <1>4, WriteFieldsStep
  <1>5. ASSUME NEW r \in Requests, SetCategories(r) PROVE PartsSafe'
    BY <1>5, PassStep, DeleteStep, ReplaceStep, RolledBackStep, InsertIs DEF SetCategories, Parts
  <1>6. ASSUME NEW r \in Requests, SetType(r) PROVE PartsSafe'
    BY <1>6, PassStep, DeleteStep, ReplaceStep, AnswerStep DEF SetType, Parts
  <1>7. ASSUME NEW r \in Requests, SetTools(r) \/ SetFeatures(r) PROVE PartsSafe'
    BY <1>7, DeleteStep, ReplaceStep DEF SetTools, SetFeatures, Parts
  <1>8. ASSUME NEW r \in Requests, StatementFails(r) PROVE PartsSafe'
    <2>1. PICK part \in Parts, from \in Steps :
            /\ RolledBack(r, from, part)
            /\ from \in {part, Insert[part]} \/ (from = "fields" /\ ~ Creates(r))
      BY <1>8, InsertIs DEF StatementFails, Creates, Parts, Steps
    <2>2. QED
      BY <2>1, RolledBackStep
  <1>9. ASSUME NEW r \in Requests, Commit(r) PROVE PartsSafe'
    BY <1>9, ApplyStep, AnswerStep DEF Commit, Commits
  <1>10. ASSUME NEW r \in Requests, CommitTools(r) PROVE PartsSafe'
    BY <1>10, ApplyStep DEF CommitTools, Commits
  <1>11. ASSUME NEW r \in Requests, DeleteAgent(r) PROVE PartsSafe'
    BY <1>11, DeleteAgentStep
  <1>12. ASSUME NEW r \in Requests, Fail(r) PROVE PartsSafe'
    BY <1>12, AnswerStep DEF Fail, Underway
  <1>13. ASSUME NEW a \in Theirs, UserWrites(a) PROVE PartsSafe'
    BY <1>13, UserWritesStep
  <1>14. CASE UNCHANGED vars
    BY <1>14, StutterStep
  <1>15. QED
    BY <1>1, <1>2, <1>3, <1>4, <1>5, <1>6, <1>7, <1>8, <1>9, <1>10, <1>11, <1>12, <1>13, <1>14
       DEF Next, Work

-----------------------------------------------------------------------------
(* Names *)

(* A step that leaves every name and who wrote it: what was received is not changed by *)
(* it, and who is to write a name has met all others, if only just now.               *)
LEMMA NamesQuiet ==
  ASSUME NamesSafe, UNCHANGED passed,
         \A a \in Agents : /\ row'[a].name = row[a].name /\ row'[a].by = row[a].by
                           /\ row'[a].state = "none" <=> row[a].state = "none",
         \A s \in Requests : pc[s] # "idle" => pc'[s] # "idle" /\ ask'[s] = ask[s],
         \A s \in Requests : Checked(s)' => /\ ask'[s] = ask[s]
                                            /\ Checked(s) \/ Namesakes(s) = {}
  PROVE  NamesSafe'
  <1>1. NamesAreWritten'
    BY DEF NamesSafe, NamesAreWritten, On
  <1>2. CheckedBefore'
    <2> SUFFICES ASSUME NEW a \in Agents, NEW s \in Requests, row[a].state # "none",
                        row[a].by \notin Theirs, Checked(s)', On(s)' # a, ask'[s].name = row[a].name
                 PROVE  row[a].by \in Requests /\ s \in passed[row[a].by]
      BY DEF CheckedBefore
    <2>1. On(s) # a /\ ask[s].name = row[a].name
      BY DEF On
    <2>2. Namesakes(s) # {}
      BY <2>1 DEF Namesakes
    <2>3. QED
      BY <2>1, <2>2 DEF NamesSafe, CheckedBefore
  <1>3. SameNameOnlyFromOverlap'
    BY DEF NamesSafe, SameNameOnlyFromOverlap
  <1>4. QED
    BY <1>1, <1>2, <1>3 DEF NamesSafe

LEMMA NamesCommit ==
  ASSUME TypeOK, PartsSafe, NamesSafe, NEW r \in Requests, NEW to, Commits(r, to)
  PROVE  NamesSafe'
  <1>1. PICK from : Apply(r, from, to)
    BY DEF Commits
  <1>2. AtCommit(r, to)
    BY CommitFacts
  <1>3. /\ ask' = ask /\ pc'[r] = to /\ pc[r] \in {"commit", "commit tools"}
        /\ to \in {"ok", "tools", "error"} /\ On(r) \in Agents
        /\ pc[r] = "commit tools" => changes[r] = {}
    BY <1>2 DEF AtCommit
  <1>4. /\ \A s \in Requests \ {r} : pc'[s] = pc[s] /\ passed'[s] = passed[s]
        /\ passed'[r] = passed[r] \union {s \in Requests \ {r} : Checked(s)}
    BY <1>1 DEF Apply, Goto, TypeOK
  <1>5. \A s \in Requests : /\ On(s)' = On(s)
                            /\ pc[s] # "idle" => pc'[s] # "idle"
                            /\ Checked(s)' => Checked(s)
                            /\ passed[s] \subseteq passed'[s]
    BY <1>3, <1>4 DEF On, Checked, Reading
  <1>6. Checked(r)
    BY <1>3 DEF Checked, Reading
  <1>7. changes[r] # {} /\ Creates(r) => "name" \in changes[r]
    BY DEF PartsSafe, RequestSafe, Sound, Fields
  <1>8. ASSUME NEW a \in Agents, a # On(r) \/ "name" \notin changes[r]
        PROVE  /\ row'[a].name = row[a].name /\ row'[a].by = row[a].by
               /\ row'[a].state = row[a].state
    <2>1. CASE a # On(r)
      BY <1>1, <2>1, RowAfter
    <2>2. CASE a = On(r)
      BY <1>1, <1>7, <1>8, <2>2, RowAfter
    <2>3. QED
      BY <2>1, <2>2
  <1>9. "name" \in changes[r] => row'[On(r)].name = ask[r].name /\ row'[On(r)].by = r
    BY <1>1, RowAfter
  <1>10. NamesAreWritten'
    <2> SUFFICES ASSUME NEW a \in Agents, NEW w, w = row'[a].by, row'[a].state # "none"
                 PROVE  IF w \in Requests
                        THEN pc'[w] # "idle" /\ ask'[w].agent = a /\ row'[a].name = ask'[w].name
                        ELSE w = a
      BY DEF NamesAreWritten, On
    <2>1. CASE a # On(r) \/ "name" \notin changes[r]
      BY <1>3, <1>5, <1>8, <2>1 DEF NamesSafe, NamesAreWritten, On
    <2>2. CASE a = On(r) /\ "name" \in changes[r]
      BY <1>3, <1>9, <2>2 DEF On
    <2>3. QED
      BY <2>1, <2>2
  <1>11. CheckedBefore'
    <2> SUFFICES ASSUME NEW a \in Agents, NEW s \in Requests, row'[a].state # "none",
                        row'[a].by \notin Theirs, Checked(s), On(s) # a, ask[s].name = row'[a].name
                 PROVE  row'[a].by \in Requests /\ s \in passed'[row'[a].by]
      BY <1>3, <1>5 DEF CheckedBefore
    <2>1. CASE a # On(r) \/ "name" \notin changes[r]
      BY <1>5, <1>8, <2>1 DEF NamesSafe, CheckedBefore
    <2>2. CASE a = On(r) /\ "name" \in changes[r]
      BY <1>4, <1>9, <2>2
    <2>3. QED
      BY <2>1, <2>2
  <1>12. SameNameOnlyFromOverlap'
    <2> SUFFICES ASSUME NEW a \in Agents, NEW b \in Agents, a # b, row'[a].state # "none",
                        row'[b].state # "none", row'[a].name = row'[b].name,
                        row'[a].by \notin Theirs, row'[b].by \notin Theirs
                 PROVE  \/ row'[a].by \in Requests /\ row'[b].by \in passed'[row'[a].by]
                        \/ row'[b].by \in Requests /\ row'[a].by \in passed'[row'[b].by]
      BY DEF SameNameOnlyFromOverlap
    <2>1. ASSUME NEW c \in Agents, c # On(r), "name" \in changes[r], row'[c].state # "none",
                 row'[c].by \notin Theirs, row'[c].name = ask[r].name
          PROVE  row'[c].by \in Requests /\ r \in passed'[row'[c].by]
      BY <1>5, <1>6, <1>8, <2>1 DEF NamesSafe, CheckedBefore
    <2>2. CASE a = On(r) /\ "name" \in changes[r]
      BY <1>9, <2>1, <2>2
    <2>3. CASE b = On(r) /\ "name" \in changes[r]
      BY <1>9, <2>1, <2>3
    <2>4. CASE ~ (a = On(r) /\ "name" \in changes[r]) /\ ~ (b = On(r) /\ "name" \in changes[r])
      BY <1>5, <1>8, <2>4 DEF NamesSafe, SameNameOnlyFromOverlap
    <2>5. QED
      BY <2>2, <2>3, <2>4
  <1>13. QED
    BY <1>10, <1>11, <1>12 DEF NamesSafe

LEMMA NamesUser ==
  ASSUME TypeOK, NamesSafe, NEW u \in Theirs, UserWrites(u)
  PROVE  NamesSafe'
  <1>1. UNCHANGED <<pc, ask, passed>> /\ u \in Agents /\ u \notin Requests
    BY DEF UserWrites, Agents
  <1>2. PICK n \in Names, x \in Texts : row' = [row EXCEPT ![u] = UserRow(u, n, x)]
    BY <1>1 DEF UserWrites, UserRow, TypeOK
  <1>3. /\ \A a \in Agents \ {u} : row'[a] = row[a]
        /\ row'[u].by = u \/ (row[u].state # "none" /\ row'[u].name = row[u].name /\ row'[u].by = row[u].by)
    BY <1>1, <1>2 DEF UserRow, TypeOK
  <1>4. \A s \in Requests : On(s)' = On(s) /\ (Checked(s)' <=> Checked(s))
    BY <1>1 DEF On, Checked, Reading
  <1>5. NamesAreWritten'
    BY <1>1, <1>3, <1>4 DEF NamesSafe, NamesAreWritten
  <1>6. CheckedBefore'
    BY <1>1, <1>3, <1>4 DEF NamesSafe, CheckedBefore
  <1>7. SameNameOnlyFromOverlap'
    BY <1>1, <1>3 DEF NamesSafe, SameNameOnlyFromOverlap
  <1>8. QED
    BY <1>5, <1>6, <1>7 DEF NamesSafe

LEMMA NamesInit == Init => NamesSafe
  <1> SUFFICES ASSUME Init PROVE NamesSafe
    OBVIOUS
  <1>1. PICK q \in Asks :
          row = [a \in Agents |-> [state |-> IF a = Old THEN "live" ELSE "none",
                                  name |-> q.name, text |-> q.text, by |-> a]]
    BY DEF Init
  <1>2. \A a \in Agents : row[a].state # "none" => a = Old /\ row[a].by = Old
    BY <1>1
  <1>3. \A s \in Requests : ~ Checked(s)
    BY DEF Init, Checked, Reading
  <1>4. NamesAreWritten
    BY <1>2 DEF NamesAreWritten
  <1>5. CheckedBefore
    BY <1>3 DEF CheckedBefore
  <1>6. SameNameOnlyFromOverlap
    BY <1>2 DEF SameNameOnlyFromOverlap
  <1>7. QED
    BY <1>4, <1>5, <1>6 DEF NamesSafe

(* Every step of r from one place to another that touches neither row nor request. *)
LEMMA NamesMove ==
  ASSUME TypeOK, NamesSafe, NEW r \in Requests, NEW from, NEW to, Goto(r, from, to),
         UNCHANGED <<ask, passed>>, from \in Steps, to # "idle",
         \A a \in Agents : /\ row'[a].name = row[a].name /\ row'[a].by = row[a].by
                           /\ row'[a].state = "none" <=> row[a].state = "none",
         \/ from \notin {"idle", "find", "delete", "ok", "error", "name"}
         \/ to \in {"ok", "error", "name", "delete"}
         \/ Namesakes(r) = {}
  PROVE  NamesSafe'
  <1>1. \A s \in Requests : pc[s] # "idle" => pc'[s] # "idle" /\ ask'[s] = ask[s]
    BY DEF Goto, TypeOK
  <1>2. ASSUME NEW s \in Requests, Checked(s)' PROVE Checked(s) \/ Namesakes(s) = {}
    <2>1. CASE s = r
      BY <1>2, <2>1 DEF Goto, TypeOK, Checked, Reading
    <2>2. CASE s # r
      BY <1>2, <2>2 DEF Goto, TypeOK, Checked, Reading
    <2>3. QED
      BY <2>1, <2>2
  <1>3. QED
    BY <1>1, <1>2, NamesQuiet

LEMMA NamesStep == TypeOK /\ PartsSafe /\ NamesSafe /\ [Next]_vars => NamesSafe'
  <1> SUFFICES ASSUME TypeOK, PartsSafe, NamesSafe, [Next]_vars PROVE NamesSafe'
    OBVIOUS
  <1>1. ASSUME NEW r \in Requests, Receive(r) PROVE NamesSafe'
    <2>1. /\ \A s \in Requests : s # r => pc'[s] = pc[s] /\ ask'[s] = ask[s]
          /\ pc[r] = "idle" /\ pc'[r] \in {"name", "find"} /\ UNCHANGED <<row, passed>>
      BY <1>1 DEF Receive, Goto, TypeOK, tables, history
    <2>2. \A s \in Requests : Checked(s)' => Checked(s) /\ s # r
      BY <2>1 DEF Checked, Reading
    <2>3. QED
      BY <2>1, <2>2, NamesQuiet
  <1>2. ASSUME NEW r \in Requests, NEW from \in Steps, NEW to, Skip(r, from, to) \/ Answer(r, from, to)
               \/ (Goto(r, from, to) /\ UNCHANGED <<row, ask, passed>>),
               to # "idle",
               \/ from \notin {"idle", "find", "delete", "ok", "error", "name"}
               \/ to \in {"ok", "error", "name", "delete"}
               \/ Namesakes(r) = {}
        PROVE  NamesSafe'
    <2>1. Goto(r, from, to) /\ UNCHANGED <<row, ask, passed>>
      BY <1>2 DEF Skip, Answer, tables, history
    <2>2. QED
      BY <1>2, <2>1, NamesMove
  <1>3. ASSUME NEW r \in Requests, Find(r) \/ CheckName(r) \/ WriteFields(r) PROVE NamesSafe'
    <2>1. CASE Find(r)
      BY <1>2, <2>1 DEF Find, tables, history, Steps
    <2>2. CASE CheckName(r)
      BY <1>2, <2>2 DEF CheckName, Steps
    <2>3. CASE WriteFields(r)
      BY <1>2, <2>3 DEF WriteFields, tables, history, Steps
    <2>4. QED
      BY <1>3, <2>1, <2>2, <2>3
  <1>4. ASSUME NEW r \in Requests, NEW part \in Parts, Delete(r, part) PROVE NamesSafe'
    <2>1. Goto(r, part, Insert[part]) /\ UNCHANGED <<row, ask, passed>>
      BY <1>4 DEF Delete, tables
    <2>2. part \in Steps /\ part \notin {"idle", "find", "delete", "ok", "error", "name"}
          /\ Insert[part] # "idle"
      BY InsertIs DEF Parts, Steps
    <2>3. QED
      BY <1>2, <2>1, <2>2
  <1>5. \A r \in Requests : \A part \in Parts : After(r, part) # "idle"
    BY DEF After, Parts
  <1>6. ASSUME NEW r \in Requests, NEW part \in Parts, Replace(r, part) PROVE NamesSafe'
    <2>1. Goto(r, Insert[part], After(r, part)) /\ UNCHANGED <<row, ask, passed>>
      BY <1>6 DEF Replace, tables, history
    <2>2. Insert[part] \in Steps /\ Insert[part] \notin {"idle", "find", "delete", "ok", "error", "name"}
      BY InsertIs DEF Parts, Steps
    <2>3. QED
      BY <1>2, <1>5, <2>1, <2>2
  <1>7. ASSUME NEW r \in Requests, NEW part \in Parts, NEW from, RolledBack(r, from, part),
               from \in Steps \ {"idle", "find", "delete", "ok", "error", "name"}
        PROVE  NamesSafe'
    <2>1. Goto(r, from, After(r, part)) /\ UNCHANGED <<row, ask, passed>>
      BY <1>7 DEF RolledBack, tables
    <2>2. QED
      BY <1>2, <1>5, <1>7, <2>1
  <1>8. ASSUME NEW r \in Requests, SetCategories(r) \/ SetType(r) PROVE NamesSafe'
    <2>1. CASE SetCategories(r)
      BY <1>2, <1>4, <1>5, <1>6, <1>7, <2>1, InsertIs DEF SetCategories, Parts, Steps
    <2>2. CASE SetType(r)
      BY <1>2, <1>4, <1>5, <1>6, <2>2 DEF SetType, Parts, Steps
    <2>3. QED
      BY <1>8, <2>1, <2>2
  <1>9. ASSUME NEW r \in Requests, SetTools(r) \/ SetFeatures(r) PROVE NamesSafe'
    BY <1>4, <1>6, <1>9 DEF SetTools, SetFeatures, Parts
  <1>10. ASSUME NEW r \in Requests, StatementFails(r) PROVE NamesSafe'
    <2>1. PICK part \in Parts, from \in Steps \ {"idle", "find", "delete", "ok", "error", "name"} :
            RolledBack(r, from, part)
      BY <1>10 DEF StatementFails, Parts, Steps
    <2>2. QED
      BY <1>7, <2>1
  <1>11. ASSUME NEW r \in Requests, Commit(r) \/ CommitTools(r) PROVE NamesSafe'
    <2>1. CASE \E to : Commits(r, to)
      BY <2>1, NamesCommit
    <2>2. CASE Answer(r, "commit", "error")
      BY <1>2, <2>2 DEF Steps
    <2>3. QED
      BY <1>11, <2>1, <2>2 DEF Commit, CommitTools, Commits
  <1>12. ASSUME NEW r \in Requests, DeleteAgent(r) PROVE NamesSafe'
    <2>1. On(r) \in Agents /\ row[On(r)].state # "none"
      <3>1. Known(r) /\ pc[r] = "delete"
        BY <1>12 DEF DeleteAgent, Goto, PartsSafe, RequestSafe
      <3>2. QED
        BY <3>1, OnTyped DEF Known, Creates
    <2>2. row' = [row EXCEPT ![On(r)].state = "deleted"] /\ Goto(r, "delete", "ok")
          /\ UNCHANGED <<ask, passed>> /\ "delete" \in Steps
      BY <1>12 DEF DeleteAgent, history, Steps
    <2>3. QED
      BY <2>1, <2>2, MarkedDeleted, NamesMove
  <1>13. ASSUME NEW r \in Requests, Fail(r) PROVE NamesSafe'
    BY <1>2, <1>13 DEF Fail, TypeOK
  <1>14. ASSUME NEW u \in Theirs, UserWrites(u) PROVE NamesSafe'
    BY <1>14, NamesUser
  <1>15. CASE UNCHANGED vars
    <2>1. UNCHANGED <<row, passed, pc, ask>>
      BY <1>15 DEF vars, tables, history
    <2>2. \A s \in Requests : Checked(s)' => Checked(s)
      BY <2>1 DEF Checked, Reading
    <2>3. QED
      BY <2>1, <2>2, NamesQuiet
  <1>16. QED
    BY <1>1, <1>3, <1>8, <1>9, <1>10, <1>11, <1>12, <1>13, <1>14, <1>15 DEF Next, Work

-----------------------------------------------------------------------------
Safe == TypeOK /\ PartsSafe /\ NamesSafe

LEMMA Invariance == Spec => []Safe
  <1>1. Init => Safe
    BY InitType, PartsInit, NamesInit DEF Safe
  <1>2. Safe /\ [Next]_vars => Safe'
    <2>1. PartsSafe => \A r \in Requests : Known(r)
      BY DEF PartsSafe, RequestSafe
    <2>2. QED
      BY <2>1, TypeStep, PartsStep, NamesStep DEF Safe
  <1>3. QED
    BY <1>1, <1>2, PTL DEF Spec

(* Every variable of the agents has its type.  admin_agents.py:1304-1660, 2694-2760 *)
THEOREM TypeCorrect == Spec => []TypeOK
  BY Invariance, PTL DEF Safe

(* Of the last to commit an agent all that it asked for is stored and nothing else, if    *)
(* nothing of it was rolled back and nobody committed the agent after it had read it.     *)
(* admin_agents.py:1313-1607                                                              *)
THEOREM FreshIsWholeHolds == Spec => []FreshIsWhole
  <1>1. PartsSafe => FreshIsWhole
    BY DEF PartsSafe, RequestSafe, Fresh, FreshIsWhole
  <1>2. QED
    BY <1>1, Invariance, PTL DEF Safe

(* Two requests' tools, features, categories or types are together in one agent only if   *)
(* one of the two replaced its own without holding the agent's row.                       *)
(* admin_agents.py:137-233, 268-320                                                       *)
THEOREM MixedOnlyUnlockedHolds == Spec => []MixedOnlyUnlocked
  <1>1. PartsSafe => MixedOnlyUnlocked
    BY DEF PartsSafe
  <1>2. QED
    BY <1>1, Invariance, PTL DEF Safe

(* Two agents share a name only if one name was checked before the other was committed,   *)
(* or a user wrote one of them.  admin_agents.py:568-581, azure_ad_obo.py:1176-1260       *)
THEOREM SameNameOnlyFromOverlapHolds == Spec => []SameNameOnlyFromOverlap
  <1>1. NamesSafe => SameNameOnlyFromOverlap
    BY DEF NamesSafe
  <1>2. QED
    BY <1>1, Invariance, PTL DEF Safe

-----------------------------------------------------------------------------
(* The list of available agents: what the check for deleted agents gives under every *)
(* failure, and what the global version gives while it is there.                      *)

LEMMA VersionsAreIntegers ==
  /\ \A v \in Versions \union {Missing} : v \in Int
  /\ 1 \in Versions
  /\ FirstVersion \in Versions \union {Missing}
  /\ \A v \in Versions \union {Missing} : v < MaxVersion => v + 1 \in Versions
  BY DEF Versions, Missing

LEMMA ListIsList ==
  /\ NoEntry \in Lists
  /\ \A c \in SUBSET Writers, r \in Readers : [shows |-> c, by |-> r] \in Lists
  BY DEF NoEntry, Lists

LEMMA CacheInitType ==
  CacheInit => CacheTypeOK
  BY VersionsAreIntegers, ListIsList DEF CacheInit, CacheTypeOK

LEMMA CacheTypeStep ==
  CacheTypeOK /\ [CacheNext]_cacheVars => CacheTypeOK'
  <1> SUFFICES ASSUME CacheTypeOK, [CacheNext]_cacheVars PROVE CacheTypeOK'
    OBVIOUS
  <1> USE VersionsAreIntegers, ListIsList DEF CacheTypeOK, Unstored
  <1>1. ASSUME NEW r \in Readers, Begin(r) PROVE CacheTypeOK'
    BY <1>1 DEF Begin, Move, database, redis
  <1>2. ASSUME NEW r \in Readers, ReadVersion(r) PROVE CacheTypeOK'
    BY <1>2 DEF ReadVersion, GetVersion, SetVersionToOne, Move,
       database, redis, cacheHistory
  <1>3. ASSUME NEW r \in Readers, Lookup(r) PROVE CacheTypeOK'
    BY <1>3 DEF Lookup, Move, database, redis, cacheHistory
  <1>4. ASSUME NEW r \in Readers, Check(r) PROVE CacheTypeOK'
    BY <1>4 DEF Check, Move, database, redis, cacheHistory
  <1>5. ASSUME NEW r \in Readers, Fetch(r) PROVE CacheTypeOK'
    BY <1>5 DEF Fetch, Move, database, redis, cacheHistory
  <1>6. ASSUME NEW r \in Readers, ReadVersionAgain(r) PROVE CacheTypeOK'
    BY <1>6 DEF ReadVersionAgain, GetVersion, SetVersionToOne, Move,
       database, redis, cacheHistory
  <1>7. ASSUME NEW r \in Readers, StoreEntry(r) PROVE CacheTypeOK'
    BY <1>7 DEF StoreEntry, Move, database, cacheHistory
  <1>8. ASSUME NEW r \in Readers, EntryFails(r) PROVE CacheTypeOK'
    BY <1>8 DEF EntryFails, Move, database, redis, cacheHistory
  <1>9. ASSUME NEW r \in Readers, CheckFails(r) PROVE CacheTypeOK'
    BY <1>9 DEF CheckFails, Move, database, redis, cacheHistory
  <1>10. ASSUME NEW r \in Readers, FetchFails(r) PROVE CacheTypeOK'
    BY <1>10 DEF FetchFails, Move, database, redis, cacheHistory
  <1>11. ASSUME NEW w \in Writers, CommitWrite(w) PROVE CacheTypeOK'
    BY <1>11 DEF CommitWrite, redis, reader, cacheHistory
  <1>12. ASSUME NEW w \in Writers, CommitSilently(w) PROVE CacheTypeOK'
    BY <1>12 DEF CommitSilently, redis, reader, cacheHistory
  <1>13. ASSUME NEW w \in Writers, BeginManual(w) PROVE CacheTypeOK'
    BY <1>13 DEF BeginManual, database, redis, reader, cacheHistory
  <1>14. ASSUME NEW w \in Writers, Increment(w) PROVE CacheTypeOK'
    BY <1>14 DEF Increment, Settle, database, reader
  <1>15. ASSUME NEW w \in Writers, IncrementFails(w) PROVE CacheTypeOK'
    BY <1>15 DEF IncrementFails, database, redis, reader, cacheHistory
  <1>16. ASSUME NEW v \in Versions, Expire(v) PROVE CacheTypeOK'
    BY <1>16 DEF Expire, database, reader, cacheHistory
  <1>17. ASSUME NEW r \in Readers, VersionUnknown(r) PROVE CacheTypeOK'
    BY <1>17 DEF VersionUnknown, VersionFails, Move, database,
       redis, cacheHistory
  <1>18. CASE RedisLost
    BY <1>18 DEF RedisLost, database, reader, cacheHistory
  <1>19. CASE UNCHANGED cacheVars
    BY <1>19 DEF cacheVars, database, redis, reader, cacheHistory
  <1>20. QED
    BY <1>1, <1>2, <1>3, <1>4, <1>5, <1>6, <1>7, <1>8, <1>9, <1>10,
       <1>11, <1>12, <1>13, <1>14, <1>15, <1>16, <1>17, <1>18, <1>19
    DEF CacheNext, SteadyNext, Read, WriterStep

-----------------------------------------------------------------------------
(* What r has to show of the deletions that were committed when it began. *)
DeletedInv ==
  \A r \in Readers :
    /\ deleted[r] \subseteq committed \intersect Deletes
    /\ at[r] \in Unstored => deleted[r] \subseteq list[r].shows

DeletedSafe == DeletedInv /\ ServedNeverDeleted

LEMMA DeletedStep ==
  CacheTypeOK /\ DeletedSafe /\ [CacheNext]_cacheVars => DeletedSafe'
  <1> SUFFICES ASSUME CacheTypeOK, DeletedSafe, [CacheNext]_cacheVars PROVE DeletedSafe'
    OBVIOUS
  <1> USE DEF CacheTypeOK, DeletedSafe, DeletedInv, ServedNeverDeleted, Answered,
      Unstored, DeletedIn
  <1>1. ASSUME NEW r \in Readers, Begin(r) PROVE DeletedSafe'
    BY <1>1 DEF Begin, Move, database, redis
  <1>2. ASSUME NEW r \in Readers, ReadVersion(r) PROVE DeletedSafe'
    BY <1>2 DEF ReadVersion, GetVersion, SetVersionToOne, Move,
       database, redis, cacheHistory
  <1>3. ASSUME NEW r \in Readers, Lookup(r) PROVE DeletedSafe'
    BY <1>3 DEF Lookup, Move, database, redis, cacheHistory
  <1>4. ASSUME NEW r \in Readers, Check(r) PROVE DeletedSafe'
    BY <1>4 DEF Check, Move, database, redis, cacheHistory
  <1>5. ASSUME NEW r \in Readers, Fetch(r) PROVE DeletedSafe'
    BY <1>5 DEF Fetch, Move, database, redis, cacheHistory
  <1>6. ASSUME NEW r \in Readers, ReadVersionAgain(r) PROVE DeletedSafe'
    BY <1>6 DEF ReadVersionAgain, GetVersion, SetVersionToOne, Move,
       database, redis, cacheHistory
  <1>7. ASSUME NEW r \in Readers, StoreEntry(r) PROVE DeletedSafe'
    BY <1>7 DEF StoreEntry, Move, database, cacheHistory
  <1>8. ASSUME NEW r \in Readers, EntryFails(r) PROVE DeletedSafe'
    BY <1>8 DEF EntryFails, Move, database, redis, cacheHistory
  <1>9. ASSUME NEW r \in Readers, CheckFails(r) PROVE DeletedSafe'
    BY <1>9 DEF CheckFails, Move, database, redis, cacheHistory
  <1>10. ASSUME NEW r \in Readers, FetchFails(r) PROVE DeletedSafe'
    BY <1>10 DEF FetchFails, Move, database, redis, cacheHistory
  <1>11. ASSUME NEW w \in Writers, CommitWrite(w) PROVE DeletedSafe'
    BY <1>11 DEF CommitWrite, redis, reader, cacheHistory
  <1>12. ASSUME NEW w \in Writers, CommitSilently(w) PROVE DeletedSafe'
    BY <1>12 DEF CommitSilently, redis, reader, cacheHistory
  <1>13. ASSUME NEW w \in Writers, BeginManual(w) PROVE DeletedSafe'
    BY <1>13 DEF BeginManual, database, redis, reader, cacheHistory
  <1>14. ASSUME NEW w \in Writers, Increment(w) PROVE DeletedSafe'
    BY <1>14 DEF Increment, Settle, database, reader
  <1>15. ASSUME NEW w \in Writers, IncrementFails(w) PROVE DeletedSafe'
    BY <1>15 DEF IncrementFails, database, redis, reader, cacheHistory
  <1>16. ASSUME NEW v \in Versions, Expire(v) PROVE DeletedSafe'
    BY <1>16 DEF Expire, database, reader, cacheHistory
  <1>17. ASSUME NEW r \in Readers, VersionUnknown(r) PROVE DeletedSafe'
    BY <1>17 DEF VersionUnknown, VersionFails, Move, database,
       redis, cacheHistory
  <1>18. CASE RedisLost
    BY <1>18 DEF RedisLost, database, reader, cacheHistory
  <1>19. CASE UNCHANGED cacheVars
    BY <1>19 DEF cacheVars, database, redis, reader, cacheHistory
  <1>20. QED
    BY <1>1, <1>2, <1>3, <1>4, <1>5, <1>6, <1>7, <1>8, <1>9, <1>10,
       <1>11, <1>12, <1>13, <1>14, <1>15, <1>16, <1>17, <1>18, <1>19
    DEF CacheNext, SteadyNext, Read, WriterStep

-----------------------------------------------------------------------------
(* With the version there, nobody sets it. *)
VersionPresent ==
  /\ version # Missing
  /\ \A r \in Readers : at[r] \notin {"init", "set_init"}

(* A list l filed under v misses a write only of an increment it overlapped, or a later one. *)
Good(l, v) == \A w \in settled \ l.shows : l.by \in filling[w] \/ v < stamp[w]

StampsArePast == \A w \in settled : stamp[w] <= version

EntriesAreGood ==
  \A v \in Versions : entries[v] # NoEntry => v <= version /\ Good(entries[v], v)

(* What a reader holds is no worse than what it may store, or has read. *)
ReadersAreGood ==
  \A r \in Readers :
    /\ before[r] \subseteq settled
    /\ at[r] \in Unstored => /\ list[r].by = r
                             /\ before[r] \subseteq list[r].shows
                             /\ \A w \in settled \ list[r].shows : r \in filling[w]
    /\ at[r] = "setex" => asked[r] <= version
    /\ at[r] = "lookup" => \A w \in before[r] : stamp[w] <= asked[r]
    /\ at[r] \in {"check", "done"} =>
         \A w \in before[r] \ list[r].shows : list[r].by \in filling[w]

FreshInv == VersionPresent /\ StampsArePast /\ EntriesAreGood /\ ReadersAreGood

(* An increment settles the commits so far, stamped with a version nothing is filed under. *)
LEMMA IncrementKeepsFresh ==
  ASSUME CacheTypeOK, FreshInv, NEW x \in Writers, Increment(x)
  PROVE  FreshInv'
  <1>1. /\ version' = version + 1 /\ version \in Int
        /\ settled' = settled \union committed
        /\ UNCHANGED <<entries, at, asked, list, before>>
    BY VersionsAreIntegers DEF Increment, Settle, CacheTypeOK, reader
  <1>2. \A w \in settled : w \in Writers /\ filling'[w] = filling[w] /\ stamp'[w] = stamp[w]
    BY DEF Increment, Settle, CacheTypeOK
  <1>3. \A w \in settled' \ settled :
          filling'[w] = {r \in Readers : at[r] \in Unstored} /\ stamp'[w] = version + 1
    BY <1>1 DEF Increment, Settle, CacheTypeOK
  <1>4. \A w \in settled : stamp[w] \in Int
    BY VersionsAreIntegers DEF CacheTypeOK
  <1>5. VersionPresent'
    BY <1>1, VersionsAreIntegers DEF FreshInv, VersionPresent, CacheTypeOK, Missing,
       Versions
  <1>6. StampsArePast'
    BY <1>1, <1>2, <1>3, <1>4 DEF FreshInv, StampsArePast
  <1>7. EntriesAreGood'
    <2> SUFFICES ASSUME NEW v \in Versions, entries[v] # NoEntry
                 PROVE  v <= version' /\ Good(entries[v], v)'
      BY <1>1 DEF EntriesAreGood
    <2>1. v \in Int /\ v <= version /\ Good(entries[v], v)
      BY VersionsAreIntegers DEF FreshInv, EntriesAreGood
    <2>2. ASSUME NEW w \in settled' \ entries[v].shows
          PROVE  entries[v].by \in filling'[w] \/ v < stamp'[w]
      <3>1. CASE w \in settled
        BY <3>1, <2>1, <1>2 DEF Good
      <3>2. CASE w \notin settled
        BY <3>2, <2>1, <1>1, <1>3
      <3>3. QED
        BY <3>1, <3>2
    <2>3. QED
      BY <1>1, <2>1, <2>2 DEF Good
  <1>8. ReadersAreGood'
    <2>1. ASSUME NEW r \in Readers, at[r] \in Unstored, NEW w \in settled' \ list[r].shows
          PROVE  r \in filling'[w]
      BY <2>1, <1>2, <1>3 DEF FreshInv, ReadersAreGood
    <2>2. ASSUME NEW r \in Readers, NEW w \in before[r]
          PROVE  w \in settled
      BY <2>2 DEF FreshInv, ReadersAreGood
    <2>3. ASSUME NEW r \in Readers, at[r] = "setex"
          PROVE  asked[r] <= version'
      <3>1. asked[r] <= version
        BY <2>3 DEF FreshInv, ReadersAreGood
      <3>2. asked[r] \in Int
        BY VersionsAreIntegers DEF CacheTypeOK
      <3>3. QED
        BY <1>1, <3>1, <3>2
    <2>4. QED
      BY <1>1, <1>2, <2>1, <2>2, <2>3 DEF FreshInv, ReadersAreGood
  <1>9. QED
    BY <1>5, <1>6, <1>7, <1>8 DEF FreshInv

LEMMA FreshStep ==
  CacheTypeOK /\ FreshInv /\ [SteadyNext]_cacheVars => FreshInv'
  <1> SUFFICES ASSUME CacheTypeOK, FreshInv, [SteadyNext]_cacheVars PROVE FreshInv'
    OBVIOUS
  <1>0. \A w \in Writers : Increment(w) => FreshInv'
    BY IncrementKeepsFresh
  <1> USE VersionsAreIntegers, ListIsList
      DEF CacheTypeOK, FreshInv, VersionPresent, StampsArePast, EntriesAreGood, ReadersAreGood,
      Good, Unstored
  <1>1. ASSUME NEW r \in Readers, Begin(r) PROVE FreshInv'
    BY <1>1 DEF Begin, Move, database, redis
  <1>2. ASSUME NEW r \in Readers, ReadVersion(r) PROVE FreshInv'
    BY <1>2 DEF ReadVersion, GetVersion, SetVersionToOne, Move,
       database, redis, cacheHistory
  <1>3. ASSUME NEW r \in Readers, Lookup(r) PROVE FreshInv'
    <2>1. /\ at[r] = "lookup"
          /\ UNCHANGED <<database, redis, asked, step, cacheHistory>>
      BY <1>3 DEF Lookup, Move
    <2>2. CASE at' = [at EXCEPT ![r] = "check"] /\ list' = [list EXCEPT ![r] = entries[asked[r]]]
      <3>1. \A w \in before[r] \ entries[asked[r]].shows : entries[asked[r]].by \in filling[w]
        <4>1. SUFFICES ASSUME NEW w \in before[r], w \notin entries[asked[r]].shows
                       PROVE  entries[asked[r]].by \in filling[w]
          OBVIOUS
        <4>2. asked[r] \in Versions /\ w \in settled /\ stamp[w] <= asked[r]
          BY <2>1
        <4>3. entries[asked[r]] # NoEntry
          BY <1>3, <2>2 DEF Lookup, Move
        <4>4. entries[asked[r]].by \in filling[w] \/ asked[r] < stamp[w]
          BY <4>1, <4>2, <4>3
        <4>5. asked[r] \in Int /\ stamp[w] \in Int
          BY <4>2
        <4>6. QED
          BY <4>2, <4>4, <4>5
      <3>2. VersionPresent' /\ StampsArePast' /\ EntriesAreGood'
        BY <2>1, <2>2 DEF database, redis, cacheHistory
      <3>3. ReadersAreGood'
        BY <2>1, <2>2, <3>1 DEF database, redis, cacheHistory
      <3>4. QED
        BY <3>2, <3>3
    <2>3. CASE at' = [at EXCEPT ![r] = "fetch"] /\ UNCHANGED list
      BY <2>1, <2>3 DEF database, redis, cacheHistory
    <2>4. QED
      BY <1>3, <2>2, <2>3 DEF Lookup, Move
  <1>4. ASSUME NEW r \in Readers, Check(r) PROVE FreshInv'
    BY <1>4 DEF Check, Move, database, redis, cacheHistory
  <1>5. ASSUME NEW r \in Readers, Fetch(r) PROVE FreshInv'
    BY <1>5 DEF Fetch, Move, database, redis, cacheHistory
  <1>6. ASSUME NEW r \in Readers, ReadVersionAgain(r) PROVE FreshInv'
    BY <1>6 DEF ReadVersionAgain, GetVersion, SetVersionToOne, Move,
       database, redis, cacheHistory
  <1>7. ASSUME NEW r \in Readers, StoreEntry(r) PROVE FreshInv'
    BY <1>7 DEF StoreEntry, Move, database, cacheHistory
  <1>8. ASSUME NEW r \in Readers, EntryFails(r) PROVE FreshInv'
    BY <1>8 DEF EntryFails, Move, database, redis, cacheHistory
  <1>9. ASSUME NEW r \in Readers, CheckFails(r) PROVE FreshInv'
    BY <1>9 DEF CheckFails, Move, database, redis, cacheHistory
  <1>10. ASSUME NEW r \in Readers, FetchFails(r) PROVE FreshInv'
    BY <1>10 DEF FetchFails, Move, database, redis, cacheHistory
  <1>11. ASSUME NEW w \in Writers, CommitWrite(w) PROVE FreshInv'
    BY <1>11 DEF CommitWrite, redis, reader, cacheHistory
  <1>12. ASSUME NEW w \in Writers, CommitSilently(w) PROVE FreshInv'
    BY <1>12 DEF CommitSilently, redis, reader, cacheHistory
  <1>13. ASSUME NEW w \in Writers, BeginManual(w) PROVE FreshInv'
    BY <1>13 DEF BeginManual, database, redis, reader, cacheHistory
  <1>14. ASSUME NEW w \in Writers, Increment(w) PROVE FreshInv'
    BY <1>0, <1>14
  <1>15. ASSUME NEW w \in Writers, IncrementFails(w) PROVE FreshInv'
    BY <1>15 DEF IncrementFails, database, redis, reader, cacheHistory
  <1>16. ASSUME NEW v \in Versions, Expire(v) PROVE FreshInv'
    BY <1>16 DEF Expire, database, reader, cacheHistory
  <1>17. CASE UNCHANGED cacheVars
    BY <1>17 DEF cacheVars, database, redis, reader, cacheHistory
  <1>18. QED
    BY <1>1, <1>2, <1>3, <1>4, <1>5, <1>6, <1>7, <1>8, <1>9, <1>10,
       <1>11, <1>12, <1>13, <1>14, <1>15, <1>16, <1>17
    DEF SteadyNext, Read, WriterStep

-----------------------------------------------------------------------------
LEMMA CacheTypeIsInvariant ==
  CacheSpec => []CacheTypeOK
  BY CacheInitType, CacheTypeStep, PTL DEF CacheSpec

(* Every variable has its type, whichever calls to Redis or the database fail. *)
THEOREM CacheTypeCorrect ==
  CacheSpec => []CacheTypeOK
  BY CacheTypeIsInvariant

(***************************************************************************)
(* No answer shows an agent deleted before its request began, although the *)
(* deletion may never have reached Redis and Redis may lose its keys.      *)
(***************************************************************************)
THEOREM ServedNeverDeletedHolds ==
  CacheSpec => []ServedNeverDeleted
  <1>1. CacheInit => DeletedSafe
    BY DEF DeletedSafe, CacheInit, DeletedInv, ServedNeverDeleted, Answered, Unstored
  <1>2. CacheSpec => []CacheTypeOK
    BY CacheTypeIsInvariant
  <1>3. QED
    BY <1>1, <1>2, DeletedStep, PTL DEF CacheSpec, DeletedSafe

(***************************************************************************)
(* While the version is there, whatever else fails, an answer misses a     *)
(* write settled before its request only if the fill that built it was in  *)
(* flight at the increment.                                                *)
(***************************************************************************)
THEOREM StaleOnlyFromOverlappingFillHolds ==
  ASSUME FirstVersion # Missing
  PROVE  SteadySpec => []StaleOnlyFromOverlappingFill
  <1>1. CacheInit => CacheTypeOK /\ FreshInv
    <2>1. CacheInit => FreshInv
      BY VersionsAreIntegers
      DEF CacheInit, FreshInv, VersionPresent, StampsArePast, EntriesAreGood, ReadersAreGood,
      Unstored
    <2>2. QED
      BY <2>1, CacheInitType
  <1>2. CacheTypeOK /\ FreshInv /\ [SteadyNext]_cacheVars => (CacheTypeOK /\ FreshInv)'
    BY CacheTypeStep, FreshStep DEF CacheNext
  <1>3. FreshInv => StaleOnlyFromOverlappingFill
    BY DEF FreshInv, ReadersAreGood, StaleOnlyFromOverlappingFill, Answered
  <1>4. QED
    BY <1>1, <1>2, <1>3, PTL DEF SteadySpec
=============================================================================
