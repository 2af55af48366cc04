----------------------------- MODULE AgentAdmin -----------------------------
(***************************************************************************)
(* The administrator's agents (routes/admin_agents.py).  An agent is a row *)
(* of agents with its tags, tools and custom features in three more        *)
(* tables.  An update reads the row, writes the fields that differ from    *)
(* what it read and replaces the rest, all in one transaction at READ      *)
(* COMMITTED.  The row is locked only if a field differed.                 *)
(*                                                                         *)
(* The helpers that write tags, tools and features swallow an exception:   *)
(* they roll the transaction back, and with it whatever the handler had    *)
(* written before, and the handler goes on to commit the rest.  A tag the  *)
(* agent has already, as its type or as a category given twice, is such an *)
(* exception.                                                              *)
(*                                                                         *)
(* An agent is known by the request that created it, and what is stored by *)
(* the request that wrote it.  name and text stand for the row's fields,   *)
(* of which only the name is checked; None is what a request leaves out.   *)
(* legacy_tags, a fallback, is left out.                                   *)
(***************************************************************************)
EXTENDS Integers, FiniteSets

CONSTANTS
  Requests,   \* the administrators' requests
  Old,        \* an agent of theirs there was before them
  Theirs,     \* agents of users, which users name as they like
  Names,      \* names of agents
  Texts,      \* contents of another field
  Categories, \* what a request may give as its categories, with or without None
  Types,      \* as its type
  Tools,      \* as its tools
  Features,   \* as the custom feature it gives
  None,
  Faults      \* whether a statement of a helper may fail

ASSUME OldAssumption == Old \notin Requests \union Theirs
ASSUME TheirsAssumption == Theirs \intersect Requests = {}
ASSUME FaultsAssumption == Faults \in BOOLEAN

VARIABLES
  row,        \* row[a]: state and fields of the agent's row; by wrote its name
  parts,      \* parts[a]: its rows of agent_tags, agent_tools and agent_configuration
  pc,         \* pc[r]: the next step of r
  ask,        \* ask[r]: what r asks for
  changes,    \* changes[r]: the fields in which it differs from what r read
  holds,      \* the requests that have written the row in an open transaction
  scan,       \* scan[r]: the rows the DELETE that r is in looks at
  gone,       \* gone[r]: what the open transaction of r has deleted
  put,        \* put[r]: what it has inserted
  rolled,     \* history: whose transaction was rolled back in mid-request
  unlocked,   \* history: who has replaced something without holding the row
  stale,      \* history: who read a row that another has committed since
  passed,     \* history: passed[w]: whose name was checked and not stored when w committed
  last        \* history: last[a]: who has committed it last

tables == <<row, parts>>
local  == <<changes, holds, scan, gone, put>>
history == <<rolled, unlocked, stale, passed, last>>
vars == <<tables, pc, ask, local, history>>

Agents == Requests \union {Old} \union Theirs

Fields == {"name", "text"}
Parts  == {"category", "type", "tools", "features"}
Words  == Categories \union Types \union Tools \union Features \union {None}

Rows   == [state : {"none", "live", "deleted"}, name : Names, text : Texts, by : Agents]
Stored == [part : Parts, word : Words, by : Agents]

DeleteOf(a) == [kind |-> "delete", agent |-> a, name |-> None, text |-> None,
                category |-> None, type |-> None, tools |-> None, features |-> None]

Asks == [kind : {"create", "update"}, agent : Agents, name : Names, text : Texts,
         category : Categories, type : Types, tools : Tools, features : Features]
        \union {DeleteOf(a) : a \in Agents}

(* What q stores of itself under a part. *)
Given(q, part, r) ==
  {t \in [part : {part}, word : {q[part]}, by : {r}] : t.word # None}

Init ==
  /\ \E q \in Asks :   \* as Old was created
       /\ q.kind = "create" /\ q.agent = Old
       /\ q.category # q.type \/ q.type = None
       /\ row = [a \in Agents |-> [state |-> IF a = Old THEN "live" ELSE "none",
                                  name |-> q.name, text |-> q.text, by |-> a]]
       /\ parts = [a \in Agents |-> IF a # Old THEN {} ELSE UNION {Given(q, p, Old) : p \in Parts}]
  /\ pc = [r \in Requests |-> "idle"]
  /\ ask = [r \in Requests |-> DeleteOf(Old)]
  /\ changes = [r \in Requests |-> {}]
  /\ holds = {}
  /\ scan = [r \in Requests |-> {}]
  /\ gone = [r \in Requests |-> {}]
  /\ put = [r \in Requests |-> {}]
  /\ rolled = {}
  /\ unlocked = {}
  /\ stale = {}
  /\ passed = [r \in Requests |-> {}]
  /\ last = [a \in Agents |-> a]

On(r) == ask[r].agent
Creates(r) == ask[r].kind = "create"

Held(a, part) == {t \in parts[a] : t.part = part}

New(r, part) == Given(ask[r], part, r)

Goto(r, from, to) ==
  /\ pc[r] = from
  /\ pc' = [pc EXCEPT ![r] = to]

Skip(r, from, to) ==
  /\ Goto(r, from, to)
  /\ UNCHANGED <<tables, ask, local, history>>

(* The transaction ends, and with it what the session knew to have changed. *)
Abandon(r) ==
  /\ changes' = [changes EXCEPT ![r] = {}]
  /\ holds' = holds \ {r}
  /\ scan' = [scan EXCEPT ![r] = {}]
  /\ gone' = [gone EXCEPT ![r] = {}]
  /\ put' = [put EXCEPT ![r] = {}]

(* An answer; an open transaction leaves nothing. *)
Answer(r, from, a) ==
  /\ Goto(r, from, a)
  /\ Abandon(r)
  /\ UNCHANGED <<tables, ask, history>>

(* From the DELETE of a part to its INSERT, and on.  A create stores its tools in a *)
(* transaction of their own.                                                         *)
Insert == [category |-> "insert category", type |-> "insert type",
           tools |-> "insert tools", features |-> "insert features"]

After(r, part) ==
  CASE part = "category" -> "type"
    [] part = "type"     -> IF Creates(r) THEN "features" ELSE "tools"
    [] part = "tools"    -> IF Creates(r) THEN "commit tools" ELSE "features"
    [] part = "features" -> "commit"

-----------------------------------------------------------------------------
Receive(r) ==
  /\ pc[r] = "idle"
  /\ \E q \in Asks :
       /\ IF q.kind = "create" THEN q.agent = r ELSE row[q.agent].state # "none"
       /\ ask' = [ask EXCEPT ![r] = q]
       /\ pc' = [pc EXCEPT ![r] = IF q.kind = "create" THEN "name" ELSE "find"]
  /\ UNCHANGED <<tables, local, history>>

DifferInText(r) ==   \* faulty: a new name alone is no change
  IF ask[r].text # row[On(r)].text THEN Fields ELSE {}

Differ(r) == {f \in Fields : ask[r][f] # row[On(r)][f]}

(* An update finds deleted agents too. *)
Find(r) ==
  \/ /\ ask[r].kind = "update"
     /\ Goto(r, "find", "name")
     /\ changes' = [changes EXCEPT ![r] = Differ(r)]
     /\ UNCHANGED <<tables, ask, holds, scan, gone, put, history>>
  \/ ask[r].kind = "delete" /\ row[On(r)].state = "live" /\ Skip(r, "find", "delete")
  \/ ask[r].kind = "delete" /\ row[On(r)].state = "deleted" /\ Answer(r, "find", "error")

Namesakes(r) ==
  {a \in Agents \ {On(r)} : row[a].state # "none" /\ row[a].name = ask[r].name}

CheckNameOfLive(r) ==   \* faulty: the name of a deleted agent is free
  LET live == {a \in Namesakes(r) : row[a].state = "live"}
  IN  \/ live = {} /\ Skip(r, "name", "fields")
      \/ live # {} /\ Answer(r, "name", "error")

(* Any row counts, deleted or not; one is a refusal, several are an exception. *)
CheckName(r) ==
  \/ Namesakes(r) = {} /\ Skip(r, "name", "fields")
  \/ Namesakes(r) # {} /\ Answer(r, "name", "error")

(* The row is locked from its UPDATE to the end of the transaction. *)
Locked(a) == \E s \in holds : On(s) = a

(* INSERT of a new row; UPDATE of the fields that differ, and nothing if none does. *)
WriteFields(r) ==
  /\ Goto(r, "fields", "category")
  /\ changes' = IF Creates(r) THEN [changes EXCEPT ![r] = Fields] ELSE changes
  /\ \/ changes'[r] = {} /\ UNCHANGED holds
     \/ changes'[r] # {} /\ ~ Locked(On(r)) /\ holds' = holds \union {r}
  /\ UNCHANGED <<tables, ask, scan, gone, put, history>>

-----------------------------------------------------------------------------
(* Tags, tools and features *)

(* One tag of a word, and one feature of a name, for each agent. *)
Index(part) == IF part = "type" THEN "category" ELSE part

Clash(t, u) == t.part # "tools" /\ Index(t.part) = Index(u.part) /\ t.word = u.word

Rivals(r) == {s \in Requests \ {r} : On(s) = On(r)}

(* Another transaction has deleted a row that r is to delete. *)
DeleteWaits(r) == \E s \in Rivals(r) : gone[s] \intersect scan[r] # {}

(* It has inserted what clashes with a row of r, or deleted it; features are only *)
(* sent by the commit.                                                            *)
InsertWaits(r, rows) ==
  \E s \in Rivals(r), t \in rows :
    \E u \in gone[s] \union {v \in put[s] : v.part # "features"} : Clash(t, u)

(* What is there, or of r itself, clashes with a row of r. *)
Clashes(r, rows) ==
  \E t \in rows, u \in (parts[On(r)] \ (gone[r] \union scan[r])) \union (put[r] \ rows) : Clash(t, u)

(* The DELETE starts: it will look at the rows committed by now, and at no others. *)
Delete(r, part) ==
  /\ Goto(r, part, Insert[part])
  /\ scan' = [scan EXCEPT ![r] = Held(On(r), part)]
  /\ unlocked' = IF r \in holds THEN unlocked ELSE unlocked \union {r}
  /\ UNCHANGED <<tables, ask, changes, holds, gone, put, rolled, stale, passed, last>>

(* It ends with those of them that are still there deleted, and the INSERT follows. *)
Replace(r, part) ==
  /\ Goto(r, Insert[part], After(r, part))
  /\ ~ DeleteWaits(r)
  /\ gone' = [gone EXCEPT ![r] = @ \union (scan[r] \intersect parts[On(r)])]
  /\ scan' = [scan EXCEPT ![r] = {}]
  /\ put' = [put EXCEPT ![r] = @ \union New(r, part)]
  /\ UNCHANGED <<tables, ask, changes, holds, history>>

(* A helper swallows the exception: what was written is undone, the request goes on. *)
RolledBack(r, from, part) ==
  /\ Goto(r, from, After(r, part))
  /\ Abandon(r)
  /\ rolled' = rolled \union {r}
  /\ UNCHANGED <<tables, ask, unlocked, stale, passed, last>>

(* No categories: those there are stay.  A category that is the agent's type already, *)
(* or is given twice, clashes.                                                         *)
SetCategories(r) ==
  LET rows == New(r, "category")
  IN  \/ rows = {} /\ Skip(r, "category", After(r, "category"))
      \/ rows # {} /\ Delete(r, "category")
      \/ /\ pc[r] = "insert category" /\ ~ InsertWaits(r, rows) /\ ~ Clashes(r, rows)
         /\ Replace(r, "category")
      \/ /\ pc[r] = "insert category" /\ ~ DeleteWaits(r) /\ ~ InsertWaits(r, rows)
         /\ RolledBack(r, "insert category", "category")

(* set_agent_type does not swallow.  A created row that was rolled back is missing here. *)
SetType(r) ==
  LET rows  == New(r, "type")
      fails == Clashes(r, rows) \/ (Creates(r) /\ r \in rolled)
  IN  \/ rows = {} /\ Skip(r, "type", After(r, "type"))
      \/ rows # {} /\ Delete(r, "type")
      \/ /\ pc[r] = "insert type" /\ ~ InsertWaits(r, rows) /\ ~ fails
         /\ Replace(r, "type")
      \/ /\ pc[r] = "insert type" /\ ~ DeleteWaits(r) /\ ~ InsertWaits(r, rows) /\ fails
         /\ Answer(r, "insert type", "error")

AddTools(r) ==   \* faulty: the tools there are stay
  \/ Skip(r, "tools", "insert tools")
  \/ Replace(r, "tools")

SetTools(r) == Delete(r, "tools") \/ Replace(r, "tools")

SetFeatures(r) == Delete(r, "features") \/ Replace(r, "features")

(* The helper that fails may be the one whose first statement sends the UPDATE. *)
StatementFails(r) ==
  LET categories == New(r, "category")
      noTags == categories \union New(r, "type") = {}
  IN  /\ Faults
      /\ \/ /\ categories # {}
            /\ \/ RolledBack(r, "category", "category")
               \/ RolledBack(r, "insert category", "category")
               \/ ask[r].kind = "update" /\ RolledBack(r, "fields", "category")
         \/ RolledBack(r, "tools", "tools") \/ RolledBack(r, "insert tools", "tools")
         \/ noTags /\ ask[r].kind = "update" /\ RolledBack(r, "fields", "tools")
         \/ RolledBack(r, "features", "features") \/ RolledBack(r, "insert features", "features")

-----------------------------------------------------------------------------
Reading(s) == pc[s] \notin {"idle", "find", "delete", "ok", "error"}
Checked(s) == Reading(s) /\ pc[s] # "name"

Apply(r, from, to) ==
  LET a == On(r)
  IN  /\ Goto(r, from, to)
      /\ row' = IF changes[r] = {} THEN row ELSE
           [row EXCEPT ![a] =
             [state |-> IF Creates(r) THEN "live" ELSE @.state,
              name  |-> IF "name" \in changes[r] THEN ask[r].name ELSE @.name,
              text  |-> IF "text" \in changes[r] THEN ask[r].text ELSE @.text,
              by    |-> IF "name" \in changes[r] THEN r ELSE @.by]]
      /\ parts' = [parts EXCEPT ![a] = (@ \ gone[r]) \union put[r]]
      /\ Abandon(r)
      /\ stale' = stale \union {s \in Rivals(r) : Reading(s)}
      /\ passed' = [passed EXCEPT ![r] = @ \union {s \in Requests \ {r} : Checked(s)}]
      /\ last' = [last EXCEPT ![a] = r]
      /\ UNCHANGED <<ask, rolled, unlocked>>

(* The INSERT of the features is sent here, and may clash; and a create whose row is   *)
(* gone fails for the rows that refer to it, or when the agent is read for the answer. *)
Commit(r) ==
  LET rows  == {t \in put[r] : t.part = "features"}
      fails == Clashes(r, rows) \/ (Creates(r) /\ r \in rolled)
  IN  /\ pc[r] = "commit" /\ ~ InsertWaits(r, rows)
      /\ \/ ~ fails /\ Apply(r, "commit", IF Creates(r) THEN "tools" ELSE "ok")
         \/ fails /\ Answer(r, "commit", "error")

(* After a rollback the agent must be loaded again for the answer, and cannot be. *)
CommitTools(r) ==
  Apply(r, "commit tools", IF r \in rolled THEN "error" ELSE "ok")

DeleteByStatus(r) ==   \* faulty: a state the lists do not know
  /\ Goto(r, "delete", "ok")
  /\ ~ Locked(On(r))
  /\ row' = [row EXCEPT ![On(r)].state = "inactive"]
  /\ UNCHANGED <<parts, ask, local, history>>

(* is_deleted alone is written; a user who deletes an agent writes no more. *)
DeleteAgent(r) ==
  /\ Goto(r, "delete", "ok")
  /\ ~ Locked(On(r))
  /\ row' = [row EXCEPT ![On(r)].state = "deleted"]
  /\ UNCHANGED <<parts, ask, local, history>>

Underway(r) == pc[r] \notin {"idle", "ok", "error"}

(* An attachment that is not there, a deadlock, a lost connection, the worker's death. *)
Fail(r) == Underway(r) /\ Answer(r, pc[r], "error")

(* A user creates or updates an agent, whose name nobody checks and, if it is as it was *)
(* read, is not written; and replaces its features (azure_ad_obo.py).  The first of the *)
(* statements locks the row, and all are one step; the DELETE waits for another's.      *)
UserWrites(a) ==
  LET mine == [part : {"features"}, word : Features \ {None}, by : {a}]
  IN  /\ ~ Locked(a)
      /\ \A s \in Requests : On(s) = a => gone[s] \intersect Held(a, "features") = {}
      /\ \E n \in Names, x \in Texts :
           row' = [row EXCEPT ![a] =
             [state |-> IF @.state = "none" THEN "live" ELSE @.state,
              name  |-> n,
              text  |-> x,
              by    |-> IF @.state # "none" /\ n = @.name THEN @.by ELSE a]]
      /\ parts' = [parts EXCEPT ![a] = (@ \ Held(a, "features")) \union mine]
      /\ stale' = stale \union {s \in Requests : On(s) = a /\ Reading(s)}
      /\ last' = [last EXCEPT ![a] = a]
      /\ UNCHANGED <<pc, ask, local, rolled, unlocked, passed>>

Work(r) ==
  \/ Find(r) \/ CheckName(r) \/ WriteFields(r) \/ SetCategories(r) \/ SetType(r)
  \/ SetTools(r) \/ SetFeatures(r) \/ Commit(r) \/ CommitTools(r) \/ DeleteAgent(r)

Next ==
  \/ \E r \in Requests : Receive(r) \/ Work(r) \/ StatementFails(r) \/ Fail(r)
  \/ \E a \in Theirs : UserWrites(a)

Spec == Init /\ [][Next]_vars

-----------------------------------------------------------------------------
Steps == Parts \union {"insert category", "insert type", "insert tools", "insert features",
                       "idle", "find", "name", "fields", "commit", "commit tools", "delete",
                       "ok", "error"}

TypeOK ==
  /\ row \in [Agents -> Rows]
  /\ parts \in [Agents -> SUBSET Stored]
  /\ pc \in [Requests -> Steps]
  /\ ask \in [Requests -> Asks]
  /\ changes \in [Requests -> SUBSET Fields]
  /\ holds \subseteq Requests
  /\ scan \in [Requests -> SUBSET Stored]
  /\ gone \in [Requests -> SUBSET Stored]
  /\ put \in [Requests -> SUBSET Stored]
  /\ rolled \subseteq Requests
  /\ unlocked \subseteq Requests
  /\ stale \subseteq Requests
  /\ passed \in [Requests -> SUBSET Requests]
  /\ last \in [Agents -> Agents]

(***************************************************************************)
(* What an administrator was told is stored is stored, as a whole: of the  *)
(* last to commit an agent, all that was asked is there and nothing else,  *)
(* unless part of the request was rolled back, or another had committed    *)
(* the agent after the request read it.                                    *)
(***************************************************************************)
AsAsked(r) ==
  /\ \A f \in Fields : row[On(r)][f] = ask[r][f]
  /\ \A part \in {"tools", "features"} : Held(On(r), part) = New(r, part)
  /\ \A part \in {"category", "type"} :
       New(r, part) # {} => Held(On(r), part) = New(r, part)

FreshIsWhole ==
  \A r \in Requests \ (rolled \union stale) :
    pc[r] = "ok" /\ ask[r].kind # "delete" /\ last[On(r)] = r => AsAsked(r)

(***************************************************************************)
(* Tools or features of two writers are together in one agent, or their    *)
(* categories or their types, only if one of the two has replaced its own  *)
(* without holding the agent's row: because no field differed, because the *)
(* row's write had been rolled back, or for the tools of a create.  The    *)
(* features a user gives stand beside an administrator's tools.            *)
(***************************************************************************)
Together(t, u) ==
  t.part = u.part \/ ({t.part, u.part} = {"tools", "features"} /\ {t.by, u.by} \intersect Theirs = {})

MixedOnlyUnlocked ==
  \A a \in Agents : \A t, u \in parts[a] :
    Together(t, u) /\ t.by # u.by => t.by \in unlocked \/ u.by \in unlocked

(***************************************************************************)
(* Two agents have one name, after which it can never be checked again,    *)
(* only if the name of one was checked before the other was committed, or  *)
(* a user wrote one of them.                                               *)
(***************************************************************************)
SameNameOnlyFromOverlap ==
  \A a, b \in Agents :
    LET x == row[a].by
        y == row[b].by
    IN  a # b /\ row[a].state # "none" /\ row[b].state # "none" /\ row[a].name = row[b].name
        => \/ x \in Theirs \/ y \in Theirs
           \/ (x \in Requests /\ y \in passed[x]) \/ (y \in Requests /\ x \in passed[y])

(***************************************************************************)
(* admin_agents.py:175, "treat duplicates as non-fatal": an update that is *)
(* answered with success has stored its fields, unless another had         *)
(* committed the agent after it read it.                                   *)
(***************************************************************************)
DuplicatesAreNotFatal ==
  [][\A r \in Requests \ stale :
       pc[r] = "commit" /\ pc'[r] = "ok" => \A f \in Fields : row'[On(r)][f] = ask[r][f]]_vars
=============================================================================
