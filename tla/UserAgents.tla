----------------------------- MODULE UserAgents -----------------------------
(***************************************************************************)
(* A user's own agents (routes/azure_ad_obo.py).  The agent lives in an    *)
(* external service, AIQ; a row of the agents table copies it, and that    *)
(* row is what the chat and the list of available agents know.             *)
(*                                                                         *)
(* Each handler calls AIQ first and then repeats the change in the table.  *)
(* There is no compensation: if the second step fails, the failure is      *)
(* logged and the request answered with success.  The answer of AIQ may    *)
(* also be lost after AIQ has done what it was asked (the HTTP client      *)
(* waits five seconds), and the worker may die between the two.            *)
(*                                                                         *)
(* An agent is known by the request that created it; its fields, by the    *)
(* request that wrote them.                                                *)
(***************************************************************************)
EXTENDS Integers

CONSTANTS
  Requests,   \* the requests of the agents' owner
  Old,        \* an agent there was before them
  Admin       \* the administrator, who edits the table and not AIQ

ASSUME DistinctAssumption == Old \notin Requests /\ Admin \notin Requests \union {Old}

VARIABLES
  aiq,      \* aiq[a]: the agent in AIQ
  row,      \* row[a]: its row in the agents table
  pc,       \* pc[r]: the next step of r
  kind,     \* kind[r]: what r asks for
  target,   \* target[r]: the agent it is about
  want,     \* want[r]: the status it asks for
  answer,   \* answer[r]: the status AIQ has answered with
  seen,     \* seen[r]: what r has read of the row: its state and its status
  lost,     \* history: those that AIQ has served and that have not written the table
  met       \* history: met[r]: those between the two when AIQ served r

stores  == <<aiq, row>>
request == <<kind, target, want>>
local   == <<answer, seen>>
history == <<lost, met>>
vars == <<stores, pc, request, local, history>>

Agents == Requests \union {Old}
Kinds == {"create", "update", "status", "delete"}

NoAgent == [state |-> "none", fields |-> Old, status |-> "draft"]
Unread  == [state |-> "none", status |-> "draft"]

(* AIQ's states and those of the row: a deleted row is marked, not removed. *)
AiqAgents == [state : {"none", "live", "gone"}, fields : Agents, status : {"draft", "active"}]
Rows == [state : {"none", "live", "deleted"}, fields : Agents \union {Admin},
         status : {"draft", "active", "inactive"}]

Init ==
  /\ aiq = [a \in Agents |-> IF a = Old THEN [NoAgent EXCEPT !.state = "live"] ELSE NoAgent]
  /\ row = aiq
  /\ pc = [r \in Requests |-> "idle"]
  /\ kind = [r \in Requests |-> "create"]
  /\ target = [r \in Requests |-> r]
  /\ want = [r \in Requests |-> "draft"]
  /\ answer = [r \in Requests |-> "draft"]
  /\ seen = [r \in Requests |-> Unread]
  /\ lost = {}
  /\ met = [r \in Requests |-> {}]

Glance(a) == [state |-> row[a].state, status |-> row[a].status]

Goto(r, from, to) ==
  /\ pc[r] = from
  /\ pc' = [pc EXCEPT ![r] = to]

(* r goes no further: what it has read is forgotten. *)
Forget(r) ==
  /\ answer' = [answer EXCEPT ![r] = "draft"]
  /\ seen' = [seen EXCEPT ![r] = Unread]

Finish(r, from, a) ==
  /\ Goto(r, from, a)
  /\ Forget(r)
  /\ UNCHANGED <<stores, request, history>>

-----------------------------------------------------------------------------
Receive(r) ==
  /\ \E k \in Kinds, a \in Agents, s \in {"draft", "active"} :
       /\ IF k = "create" THEN a = r ELSE aiq[a].state # "none"
       /\ k # "status" => s = "draft"
       /\ kind' = [kind EXCEPT ![r] = k]
       /\ target' = [target EXCEPT ![r] = a]
       /\ want' = [want EXCEPT ![r] = s]
       /\ Goto(r, "idle", IF k = "delete" THEN "find" ELSE "call")
  /\ UNCHANGED <<stores, local, history>>

(* delete alone reads the row before it calls AIQ: there must be one, deleted or not. *)
Find(r) ==
  \/ /\ row[target[r]].state # "none"
     /\ Goto(r, "find", "call")
     /\ seen' = [seen EXCEPT ![r] = Glance(target[r])]
     /\ UNCHANGED <<stores, request, answer, history>>
  \/ row[target[r]].state = "none" /\ Finish(r, "find", "error")

(* No token, no answer at all, or a refusal; AIQ refuses what is about an agent it has not. *)
Refuse(r) == Finish(r, "call", "error")

Between(r) == pc[r] \in {"look", "save"}

(* AIQ does what it is asked and answers with the agent; the answer may be lost. *)
Serve(r, agent) ==
  LET a == target[r]
  IN  /\ kind[r] = "create" \/ aiq[a].state = "live"
      /\ aiq' = [aiq EXCEPT ![a] = agent]
      /\ \/ /\ Goto(r, "call", IF kind[r] = "delete" THEN "save" ELSE "look")
            /\ answer' = [answer EXCEPT ![r] = agent.status]
            /\ UNCHANGED seen
         \/ Goto(r, "call", "error") /\ Forget(r)
      /\ lost' = lost \union {r}
      /\ met' = [met EXCEPT ![r] = {s \in Requests \ {r} : Between(s) /\ target[s] = a}]
      /\ UNCHANGED <<row, request>>

CallCreate(r) ==
  /\ kind[r] = "create"
  /\ \E s \in {"draft", "active"} : Serve(r, [state |-> "live", fields |-> r, status |-> s])

CallUpdate(r) ==
  kind[r] = "update" /\ Serve(r, [aiq[target[r]] EXCEPT !.fields = r])

CallStatus(r) ==
  kind[r] = "status" /\ Serve(r, [aiq[target[r]] EXCEPT !.status = want[r]])

CallDelete(r) ==
  kind[r] = "delete" /\ Serve(r, [aiq[target[r]] EXCEPT !.state = "gone"])

-----------------------------------------------------------------------------
(* The row, by AIQ's identifier and whether or not it is deleted.  A create makes it *)
(* if there is none (or AIQ named no agent: then nothing is written); the others     *)
(* leave it at that and answer with success.                                         *)
Look(r) ==
  LET a == target[r]
  IN  \/ /\ row[a].state # "none" \/ kind[r] = "create"
         /\ Goto(r, "look", "save")
         /\ seen' = [seen EXCEPT ![r] = Glance(a)]
         /\ UNCHANGED <<stores, request, answer, history>>
      \/ row[a].state = "none" /\ Finish(r, "look", "ok")

Save(r, new) ==
  /\ Goto(r, "save", "ok")
  /\ row' = [row EXCEPT ![target[r]] = new]
  /\ lost' = lost \ {r}
  /\ Forget(r)
  /\ UNCHANGED <<aiq, request, met>>

SaveCreateAsAnswered(r) ==   \* faulty: the status as AIQ spells it
  kind[r] = "create" /\ Save(r, [state |-> "live", fields |-> r, status |-> "ACTIVE"])

SaveCreate(r) ==
  kind[r] = "create" /\ Save(r, [state |-> "live", fields |-> r, status |-> answer[r]])

SaveUpdateOfSeen(r) ==   \* faulty: writes the row it has read, the new fields forgotten
  kind[r] = "update" /\ Save(r, [row[target[r]] EXCEPT !.status = answer[r]])

(* Of a row that was read, the attributes that differ from what was read are written. *)
SaveUpdate(r) ==
  /\ kind[r] = "update"
  /\ Save(r, [row[target[r]] EXCEPT !.fields = r,
                !.status = IF answer[r] # seen[r].status THEN answer[r] ELSE @])

(* Whatever status was asked for, the row becomes active. *)
SaveStatus(r) ==
  /\ kind[r] = "status"
  /\ Save(r, [row[target[r]] EXCEPT !.status = IF seen[r].status # "active" THEN "active" ELSE @])

SaveDeleteNothing(r) ==   \* faulty: the row stays in the lists
  kind[r] = "delete" /\ Save(r, row[target[r]])

(* Of a row that was deleted already, nothing is written, and that is a success too. *)
SaveDelete(r) ==
  /\ kind[r] = "delete"
  /\ Save(r, IF seen[r].state = "deleted" THEN row[target[r]]
             ELSE [row[target[r]] EXCEPT !.state = "deleted"])

(* The failure is rolled back, logged, and answered with success. *)
SaveFails(r) == pc[r] \in {"look", "save"} /\ Finish(r, pc[r], "ok")

(* The worker dies; before the call that is the same as a refusal. *)
Crash(r) == pc[r] \in {"look", "save"} /\ Finish(r, pc[r], "error")

-----------------------------------------------------------------------------
(* routes/admin_agents.py changes the row of any agent, and does not tell AIQ. *)
AdminEdits(a) ==
  /\ row[a].state # "none"
  /\ row' = [row EXCEPT ![a].fields = Admin, ![a].status = "inactive"]
  /\ UNCHANGED <<aiq, pc, request, local, history>>

AdminDeletes(a) ==
  /\ row[a].state = "live"
  /\ row' = [row EXCEPT ![a].state = "deleted"]
  /\ UNCHANGED <<aiq, pc, request, local, history>>

Work(r) ==
  \/ Find(r) \/ Look(r)
  \/ CallCreate(r) \/ CallUpdate(r) \/ CallStatus(r) \/ CallDelete(r)
  \/ SaveCreate(r) \/ SaveUpdate(r) \/ SaveStatus(r) \/ SaveDelete(r)

Next ==
  \/ \E r \in Requests : Receive(r) \/ Refuse(r) \/ Work(r) \/ SaveFails(r) \/ Crash(r)
  \/ \E a \in Agents : AdminEdits(a) \/ AdminDeletes(a)

Spec == Init /\ [][Next]_vars

-----------------------------------------------------------------------------
Steps == {"idle", "find", "call", "look", "save", "ok", "error"}

TypeOK ==
  /\ aiq \in [Agents -> AiqAgents]
  /\ row \in [Agents -> Rows]
  /\ pc \in [Requests -> Steps]
  /\ kind \in [Requests -> Kinds]
  /\ target \in [Requests -> Agents]
  /\ want \in [Requests -> {"draft", "active"}]
  /\ answer \in [Requests -> {"draft", "active"}]
  /\ seen \in [Requests -> [state : {"none", "live", "deleted"}, status : {"draft", "active", "inactive"}]]
  /\ lost \subseteq Requests
  /\ met \in [Requests -> SUBSET Requests]

(***************************************************************************)
(* AIQ has an agent the table has not only if its creation is not, or was  *)
(* never, repeated there; the table shows one that AIQ has removed only    *)
(* for a deletion of which that is true.  Nothing else repairs either: the *)
(* deletion cannot be tried again, as AIQ refuses it.                      *)
(***************************************************************************)
ListsAgree ==
  \A a \in Agents :
    /\ aiq[a].state = "live" /\ row[a].state = "none" => a \in lost
    /\ aiq[a].state = "gone" /\ row[a].state = "live" =>
         \E r \in lost : kind[r] = "delete" /\ target[r] = a

(***************************************************************************)
(* The table shows fields that are not AIQ's only if an administrator      *)
(* wrote them, or those of AIQ were never repeated there, or they were by  *)
(* a request that AIQ served while the one that wrote last was between     *)
(* the two: the order of the calls is then not the order of the rows.      *)
(***************************************************************************)
FieldsAgree ==
  \A a \in Agents :
    LET w == aiq[a].fields
        v == row[a].fields
    IN  aiq[a].state = "live" /\ row[a].state = "live" /\ v # w
        => v = Admin \/ w \in lost \/ (w \in Requests /\ v \in met[w])

(***************************************************************************)
(* azure_ad_obo.py:3573, "Agent status: DRAFT, ACTIVE, etc.": a status     *)
(* that was asked for, alone and with success, is the status of the row.   *)
(***************************************************************************)
StatusIsTheOneAskedFor ==
  \A r \in Requests :
    (/\ pc = [s \in Requests |-> IF s = r THEN "ok" ELSE "idle"]
     /\ lost = {}
     /\ kind[r] = "status"
     /\ row[target[r]].fields # Admin)
    => row[target[r]].status = want[r]
=============================================================================
