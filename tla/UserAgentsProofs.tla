--------------------------- MODULE UserAgentsProofs ---------------------------
(***************************************************************************)
(* Theorems about UserAgents: for any number of requests, whatever AIQ and *)
(* the database refuse or lose, the table and AIQ disagree about an agent  *)
(* only for the reasons that ListsAgree and FieldsAgree name.              *)
(***************************************************************************)
EXTENDS UserAgents, TLAPS

USE DistinctAssumption

(* Where a request can be that AIQ has served. *)
Served == {"look", "save", "ok", "error"}

(* A request to create is about its own agent. *)
CreatesItsOwn == \A r \in Requests : kind[r] = "create" => target[r] = r

(* An agent is in AIQ since its request was served, *)
CreatedByRequest ==
  \A a \in Requests : aiq[a].state # "none" => kind[a] = "create" /\ pc[a] \in Served

(* and in the table since that request has ended. *)
RowByRequest ==
  /\ row[Old].state # "none"
  /\ \A a \in Requests : row[a].state # "none" => pc[a] \in {"ok", "error"}

(* No other request writes a row that is not there, *)
SavesToRow ==
  \A r \in Requests :
    /\ kind[r] # "create" /\ pc[r] = "save" => row[target[r]].state # "none"
    /\ kind[r] = "delete" /\ pc[r] = "call" => row[target[r]].state # "none"

(* and a row that was seen deleted stays so. *)
SeenDeleted ==
  \A r \in Requests :
    seen[r].state = "deleted" => pc[r] # "idle" /\ row[target[r]].state = "deleted"

(* Nothing is deleted from AIQ that is not in the table. *)
GoneHasRow == \A a \in Agents : aiq[a].state = "gone" => row[a].state # "none"

LostAreServed == \A r \in lost : pc[r] \in Served

(* The fields in AIQ are those of a request that it has served. *)
FieldsByRequest ==
  \A a \in Agents :
    LET w == aiq[a].fields
    IN  w = Old \/ (/\ w \in Requests /\ target[w] = a
                   /\ kind[w] \in {"create", "update"} /\ pc[w] \in Served)

(* Who is between AIQ and the table met all that AIQ has served since. *)
OthersCameLater ==
  \A r \in Requests :
    LET w == aiq[target[r]].fields
    IN  Between(r) /\ kind[r] \in {"create", "update"} /\ w # r => w \in Requests /\ r \in met[w]

Safe ==
  /\ CreatesItsOwn
  /\ CreatedByRequest
  /\ RowByRequest
  /\ SavesToRow
  /\ SeenDeleted
  /\ GoneHasRow
  /\ LostAreServed
  /\ FieldsByRequest
  /\ OthersCameLater
  /\ ListsAgree
  /\ FieldsAgree

Inv == TypeOK /\ Safe

-----------------------------------------------------------------------------
LEMMA InitInv == Init => Inv
  <1> SUFFICES ASSUME Init PROVE Inv
    OBVIOUS
  <1> USE DEF Init, NoAgent, Unread, Agents
  <1>1. TypeOK
    BY DEF TypeOK, AiqAgents, Rows, Kinds, Steps
  <1>2. CreatesItsOwn /\ CreatedByRequest /\ RowByRequest /\ SavesToRow
    BY DEF CreatesItsOwn, CreatedByRequest, RowByRequest, SavesToRow
  <1>3. SeenDeleted /\ GoneHasRow /\ LostAreServed /\ FieldsByRequest /\ OthersCameLater
    BY DEF SeenDeleted, GoneHasRow, LostAreServed, FieldsByRequest, OthersCameLater, Between
  <1>4. ListsAgree /\ FieldsAgree
    BY DEF ListsAgree, FieldsAgree
  <1>5. QED
    BY <1>1, <1>2, <1>3, <1>4 DEF Inv, Safe

LEMMA TypeStep == TypeOK /\ [Next]_vars => TypeOK'
  <1> SUFFICES ASSUME TypeOK, [Next]_vars PROVE TypeOK'
    OBVIOUS
  <1> USE DEF TypeOK, Steps, Agents, Goto, stores, request, local, history
  <1>1. ASSUME NEW r \in Requests, Receive(r) PROVE TypeOK'
    BY <1>1 DEF Receive, Kinds
  <1>2. ASSUME NEW r \in Requests, NEW from \in Steps, NEW a \in Steps, Finish(r, from, a)
        PROVE  TypeOK'
    BY <1>2 DEF Finish, Forget, Unread
  <1>3. ASSUME NEW r \in Requests, Refuse(r) \/ SaveFails(r) \/ Crash(r) PROVE TypeOK'
    BY <1>2, <1>3 DEF Refuse, SaveFails, Crash
  <1>4. ASSUME NEW r \in Requests PROVE Glance(target[r]) \in
          [state : {"none", "live", "deleted"}, status : {"draft", "active", "inactive"}]
    BY DEF Glance, Rows
  <1>5. ASSUME NEW r \in Requests, NEW to \in Steps,
               pc' = [pc EXCEPT ![r] = to],
               seen' = [seen EXCEPT ![r] = Glance(target[r])],
               UNCHANGED <<stores, request, answer, history>>
        PROVE  TypeOK'
    BY <1>4, <1>5
  <1>6. ASSUME NEW r \in Requests, Find(r) \/ Look(r) PROVE TypeOK'
    <2>1. CASE \E from, a \in Steps : Finish(r, from, a)
      BY <1>2, <2>1
    <2>2. CASE /\ \E to \in Steps : pc' = [pc EXCEPT ![r] = to]
               /\ seen' = [seen EXCEPT ![r] = Glance(target[r])]
               /\ UNCHANGED <<stores, request, answer, history>>
      BY <1>5, <2>2
    <2>3. QED
      BY <1>6, <2>1, <2>2, Zenon DEF Find, Look
  <1>7. ASSUME NEW r \in Requests, NEW agent \in AiqAgents, Serve(r, agent) PROVE TypeOK'
    <2>1. agent.status \in {"draft", "active"}
      BY DEF AiqAgents
    <2>2. aiq' \in [Agents -> AiqAgents] /\ lost' \subseteq Requests /\ met' \in [Requests -> SUBSET Requests]
      BY <1>7 DEF Serve
    <2>8. /\ \E to \in {"look", "save", "error"} : pc' = [pc EXCEPT ![r] = to]
          /\ \E s \in {"draft", agent.status} : answer' = [answer EXCEPT ![r] = s]
      BY <1>7 DEF Serve, Forget
    <2>3. /\ pc' \in [Requests -> Steps]
          /\ answer' \in [Requests -> {"draft", "active"}]
      BY <2>1, <2>8
    <2>6. seen' = seen \/ seen' = [seen EXCEPT ![r] = Unread]
      BY <1>7, Zenon DEF Serve, Forget
    <2>7. seen' \in [Requests -> [state : {"none", "live", "deleted"},
                                 status : {"draft", "active", "inactive"}]]
      BY <2>6 DEF Unread
    <2>4. UNCHANGED <<row, kind, target, want>>
      BY <1>7 DEF Serve
    <2>5. QED
      BY <2>2, <2>3, <2>4, <2>7
  <1>8. ASSUME NEW r \in Requests, CallCreate(r) \/ CallUpdate(r) \/ CallStatus(r) \/ CallDelete(r)
        PROVE  TypeOK'
    <2>1. target[r] \in Agents /\ aiq[target[r]] \in AiqAgents /\ want[r] \in {"draft", "active"}
      OBVIOUS
    <2>2. /\ \A s \in {"draft", "active"} :
               [state |-> "live", fields |-> r, status |-> s] \in AiqAgents
          /\ [aiq[target[r]] EXCEPT !.fields = r] \in AiqAgents
          /\ [aiq[target[r]] EXCEPT !.status = want[r]] \in AiqAgents
          /\ [aiq[target[r]] EXCEPT !.state = "gone"] \in AiqAgents
      BY <2>1 DEF AiqAgents
    <2>3. QED
      BY <1>7, <1>8, <2>2, Zenon DEF CallCreate, CallUpdate, CallStatus, CallDelete
  <1>9. ASSUME NEW r \in Requests, NEW new \in Rows, Save(r, new) PROVE TypeOK'
    BY <1>9 DEF Save, Forget, Unread
  <1>10. ASSUME NEW r \in Requests, SaveCreate(r) \/ SaveUpdate(r) \/ SaveStatus(r) \/ SaveDelete(r)
         PROVE  TypeOK'
    <2>1. target[r] \in Agents /\ row[target[r]] \in Rows /\ answer[r] \in {"draft", "active"}
      OBVIOUS
    <2>2. CASE SaveCreate(r)
      <3>1. [state |-> "live", fields |-> r, status |-> answer[r]] \in Rows
        BY <2>1 DEF Rows
      <3>2. QED
        BY <1>9, <2>2, <3>1 DEF SaveCreate
    <2>3. CASE SaveUpdate(r)
      <3>1. \A s \in {row[target[r]].status, answer[r]} :
              [row[target[r]] EXCEPT !.fields = r, !.status = s] \in Rows
        BY <2>1 DEF Rows
      <3>2. Save(r, [row[target[r]] EXCEPT !.fields = r,
                       !.status = IF answer[r] # seen[r].status THEN answer[r] ELSE @])
        BY <2>3, Zenon DEF SaveUpdate
      <3>3. \E new \in Rows : Save(r, new)
        BY <3>1, <3>2
      <3>4. QED
        BY <1>9, <3>3
    <2>4. CASE SaveStatus(r)
      <3>1. [row[target[r]] EXCEPT !.status =
               IF seen[r].status # "active" THEN "active" ELSE @] \in Rows
        BY <2>1 DEF Rows
      <3>2. QED
        BY <1>9, <2>4, <3>1, Zenon DEF SaveStatus
    <2>5. CASE SaveDelete(r)
      <3>1. (IF seen[r].state = "deleted" THEN row[target[r]]
             ELSE [row[target[r]] EXCEPT !.state = "deleted"]) \in Rows
        BY <2>1 DEF Rows
      <3>2. QED
        BY <1>9, <2>5, <3>1, Zenon DEF SaveDelete
    <2>6. QED
      BY <1>10, <2>2, <2>3, <2>4, <2>5
  <1>11. ASSUME NEW a \in Agents, AdminEdits(a) \/ AdminDeletes(a) PROVE TypeOK'
    BY <1>11 DEF AdminEdits, AdminDeletes, Rows
  <1>12. CASE UNCHANGED vars
    BY <1>12 DEF vars
  <1>13. QED
    BY <1>1, <1>3, <1>6, <1>8, <1>10, <1>11, <1>12 DEF Next, Work

(***************************************************************************)
(* A step of one request that writes neither store, and after which what   *)
(* it has seen deleted is deleted.                                         *)
(***************************************************************************)
LEMMA MovingOn ==
  ASSUME Inv, TypeOK', NEW r \in Requests, NEW to,
         pc[r] \notin {"idle", "ok", "error"},
         pc' = [pc EXCEPT ![r] = to],
         to \in {"call", "save", "ok", "error"},
         pc[r] \in Served => to \in Served,
         to = "save" => pc[r] = "look" /\ (kind[r] = "create" \/ row[target[r]].state # "none"),
         to = "call" => row[target[r]].state # "none",
         seen'[r].state = "deleted" => row[target[r]].state = "deleted",
         \A s \in Requests \ {r} : seen'[s] = seen[s],
         UNCHANGED <<stores, request, history>>
  PROVE  Inv'
  <1> USE DEF Inv, Safe, TypeOK, stores, request, history
  <1>1. CreatesItsOwn' /\ CreatedByRequest' /\ RowByRequest' /\ SavesToRow'
    BY DEF CreatesItsOwn, CreatedByRequest, RowByRequest, SavesToRow, Served
  <1>2. SeenDeleted' /\ GoneHasRow'
    BY DEF SeenDeleted, GoneHasRow
  <1>3. LostAreServed' /\ FieldsByRequest'
    BY DEF LostAreServed, FieldsByRequest, Served
  <1>4. OthersCameLater'
    BY DEF OthersCameLater, Between
  <1>5. ListsAgree' /\ FieldsAgree'
    BY DEF ListsAgree, FieldsAgree
  <1>6. QED
    BY <1>1, <1>2, <1>3, <1>4, <1>5

LEMMA ReceiveKeepsInv ==
  ASSUME Inv, TypeOK', NEW r \in Requests, Receive(r)
  PROVE  Inv'
  <1> USE DEF Inv, Safe, TypeOK
  <1>1. /\ pc[r] = "idle"
        /\ \E to \in {"find", "call"} :
             /\ pc' = [pc EXCEPT ![r] = to]
             /\ kind'[r] = "delete" => to = "find"
        /\ kind'[r] = "create" => target'[r] = r
        /\ \A s \in Requests \ {r} : kind'[s] = kind[s] /\ target'[s] = target[s]
        /\ UNCHANGED <<aiq, row, seen, lost, met>>
    <2>1. PICK k \in Kinds, b \in Agents :
            /\ IF k = "create" THEN b = r ELSE aiq[b].state # "none"
            /\ kind' = [kind EXCEPT ![r] = k]
            /\ target' = [target EXCEPT ![r] = b]
            /\ Goto(r, "idle", IF k = "delete" THEN "find" ELSE "call")
      BY Zenon DEF Receive
    <2>2. UNCHANGED <<aiq, row, seen, lost, met>>
      BY DEF Receive, stores, local, history
    <2>3. QED
      BY <2>1, <2>2 DEF Goto
  <1>2. \A s \in Requests : pc[s] \in Served => s # r /\ pc'[s] = pc[s]
    BY <1>1 DEF Served
  <1>3. CreatesItsOwn' /\ CreatedByRequest'
    BY <1>1, <1>2 DEF CreatesItsOwn, CreatedByRequest
  <1>4. RowByRequest' /\ SavesToRow'
    BY <1>1 DEF RowByRequest, SavesToRow
  <1>5. SeenDeleted' /\ GoneHasRow'
    BY <1>1 DEF SeenDeleted, GoneHasRow
  <1>6. LostAreServed' /\ FieldsByRequest'
    BY <1>1, <1>2 DEF LostAreServed, FieldsByRequest
  <1>7. OthersCameLater'
    BY <1>1 DEF OthersCameLater, Between
  <1>8. ListsAgree'
    BY <1>1, <1>2 DEF ListsAgree, LostAreServed
  <1>9. FieldsAgree'
    BY <1>1 DEF FieldsAgree
  <1>10. QED
    BY <1>3, <1>4, <1>5, <1>6, <1>7, <1>8, <1>9

(* AIQ serves r; what it makes of the agent depends on what was asked for. *)
LEMMA ServeKeepsInv ==
  ASSUME Inv, TypeOK', NEW r \in Requests, NEW agent \in AiqAgents, Serve(r, agent),
         agent.fields = IF kind[r] \in {"create", "update"} THEN r ELSE aiq[target[r]].fields,
         agent.state = IF kind[r] = "delete" THEN "gone" ELSE "live"
  PROVE  Inv'
  <1> DEFINE a == target[r]
  <1> USE DEF Inv, Safe, TypeOK
  <1>1. /\ pc[r] = "call" /\ a \in Agents
        /\ kind[r] # "create" => aiq[a].state = "live"
        /\ aiq' = [aiq EXCEPT ![a] = agent]
        /\ lost' = lost \union {r}
        /\ met' = [met EXCEPT ![r] = {s \in Requests \ {r} : Between(s) /\ target[s] = a}]
        /\ UNCHANGED <<row, kind, target>>
    BY DEF Serve, Goto, request
  <1>2. /\ \E to \in {"look", "save", "error"} :
             /\ pc' = [pc EXCEPT ![r] = to]
             /\ to = "save" => kind[r] = "delete"
        /\ \A s \in Requests : seen'[s] = seen[s] \/ seen'[s].state = "none"
    BY <1>1 DEF Serve, Goto, Forget, Unread
  <1>3. \A s \in Requests : pc[s] \in Served => s # r /\ pc'[s] = pc[s]
    BY <1>1, <1>2 DEF Served
  <1>4. pc'[r] \in Served
    BY <1>2 DEF Served
  <1>4a. \A b \in Agents : aiq[b].fields # r
    <2> SUFFICES ASSUME NEW b \in Agents, aiq[b].fields = r PROVE FALSE
      OBVIOUS
    <2>1. pc[r] \in Served
      BY DEF FieldsByRequest
    <2>2. QED
      BY <1>1, <2>1 DEF Served
  <1>5. CreatesItsOwn' /\ CreatedByRequest'
    BY <1>1, <1>3, <1>4 DEF CreatesItsOwn, CreatedByRequest
  <1>6. RowByRequest' /\ SavesToRow'
    BY <1>1, <1>2 DEF RowByRequest, SavesToRow
  <1>7. SeenDeleted'
    <2> SUFFICES ASSUME NEW s \in Requests, seen'[s].state = "deleted"
                 PROVE  pc'[s] # "idle" /\ row[target[s]].state = "deleted"
      BY <1>1 DEF SeenDeleted
    <2>1. seen'[s] = seen[s]
      BY <1>2
    <2>2. QED
      BY <1>1, <1>2, <2>1 DEF SeenDeleted
  <1>8. GoneHasRow'
    BY <1>1 DEF GoneHasRow, SavesToRow
  <1>9. LostAreServed' /\ FieldsByRequest'
    BY <1>1, <1>3, <1>4 DEF LostAreServed, FieldsByRequest
  <1>10. OthersCameLater'
    <2> SUFFICES ASSUME NEW s \in Requests, Between(s)', kind[s] \in {"create", "update"},
                        aiq'[target[s]].fields # s
                 PROVE  aiq'[target[s]].fields \in Requests /\ s \in met'[aiq'[target[s]].fields]
      BY <1>1 DEF OthersCameLater
    <2>1. CASE s = r
      BY <1>1, <2>1
    <2>2. CASE s # r /\ target[s] = a /\ kind[r] \in {"create", "update"}
      BY <1>1, <1>2, <2>2 DEF Between
    <2>3. CASE s # r /\ (target[s] # a \/ kind[r] \notin {"create", "update"})
      <3>1. target[s] \in Agents /\ aiq'[target[s]].fields = aiq[target[s]].fields
        BY <1>1, <2>3
      <3>2. aiq[target[s]].fields \in Requests /\ s \in met[aiq[target[s]].fields]
        BY <1>2, <2>3, <3>1 DEF OthersCameLater, Between
      <3>3. aiq[target[s]].fields # r
        BY <1>1, <3>1, <3>2 DEF FieldsByRequest, Served
      <3>4. QED
        BY <1>1, <3>1, <3>2, <3>3
    <2>4. QED
      BY <2>1, <2>2, <2>3
  <1>11. ListsAgree'
    BY <1>1 DEF ListsAgree, CreatesItsOwn
  <1>12. FieldsAgree'
    <2> SUFFICES ASSUME NEW b \in Agents, aiq'[b].state = "live", row[b].state = "live",
                        row[b].fields # aiq'[b].fields
                 PROVE  \/ row[b].fields = Admin \/ aiq'[b].fields \in lost'
                        \/ aiq'[b].fields \in Requests /\ row[b].fields \in met'[aiq'[b].fields]
      BY <1>1 DEF FieldsAgree
    <2>1. CASE b = a /\ kind[r] \in {"create", "update"}
      BY <1>1, <2>1
    <2>2. CASE b # a \/ kind[r] \notin {"create", "update"}
      <3>1. aiq'[b].fields = aiq[b].fields /\ aiq[b].state = "live"
        BY <1>1, <2>2
      <3>2. aiq[b].fields # r
        BY <1>4a
      <3>3. QED
        BY <1>1, <3>1, <3>2 DEF FieldsAgree
    <2>3. QED
      BY <2>1, <2>2
  <1>13. QED
    BY <1>5, <1>6, <1>7, <1>8, <1>9, <1>10, <1>11, <1>12

(* r writes the table; what it writes depends on what was asked for. *)
LEMMA SaveKeepsInv ==
  ASSUME Inv, TypeOK', NEW r \in Requests, NEW new \in Rows, Save(r, new),
         new.fields = IF kind[r] \in {"create", "update"} THEN r ELSE row[target[r]].fields,
         new.state = IF kind[r] = "create" THEN "live" ELSE
                     IF kind[r] = "delete" THEN "deleted" ELSE row[target[r]].state
  PROVE  Inv'
  <1> DEFINE a == target[r]
  <1> USE DEF Inv, Safe, TypeOK
  <1>1. /\ pc[r] = "save" /\ a \in Agents
        /\ pc' = [pc EXCEPT ![r] = "ok"]
        /\ row' = [row EXCEPT ![a] = new]
        /\ lost' = lost \ {r}
        /\ \A s \in Requests : seen'[s] = seen[s] \/ seen'[s].state = "none"
        /\ UNCHANGED <<aiq, kind, target, met>>
    BY DEF Save, Goto, Forget, Unread, request
  <1>2. \A s \in Requests : pc[s] \in Served => pc'[s] \in Served
    BY <1>1 DEF Served
  <1>3. /\ kind[r] = "create" => a = r /\ row[a].state = "none"
        /\ kind[r] # "create" => row[a].state # "none"
    BY <1>1 DEF CreatesItsOwn, RowByRequest, SavesToRow
  <1>4. \A b \in Agents : /\ row[b].state # "none" => row'[b].state # "none"
                          /\ row[b].state = "deleted" => row'[b].state = "deleted"
    BY <1>1, <1>3
  <1>5. CreatesItsOwn' /\ CreatedByRequest'
    BY <1>1, <1>2 DEF CreatesItsOwn, CreatedByRequest
  <1>6. RowByRequest'
    <2>1. row'[Old].state # "none"
      BY <1>4 DEF RowByRequest, Agents
    <2>2. ASSUME NEW b \in Requests, row'[b].state # "none" PROVE pc'[b] \in {"ok", "error"}
      BY <1>1, <1>3, <2>2 DEF RowByRequest, Agents
    <2>3. QED
      BY <2>1, <2>2 DEF RowByRequest
  <1>7. SavesToRow' /\ SeenDeleted' /\ GoneHasRow'
    BY <1>1, <1>4 DEF SavesToRow, SeenDeleted, GoneHasRow
  <1>8. LostAreServed' /\ FieldsByRequest'
    BY <1>1, <1>2 DEF LostAreServed, FieldsByRequest
  <1>9. OthersCameLater'
    BY <1>1 DEF OthersCameLater, Between
  <1>10. ListsAgree'
    <2>1. ASSUME NEW b \in Agents, aiq[b].state = "live", row'[b].state = "none" PROVE b \in lost'
      <3>1. b \in lost
        BY <1>4, <2>1 DEF ListsAgree
      <3>2. b = r => row'[b].state = "live"
        BY <1>1, <1>3, <2>1 DEF CreatedByRequest, CreatesItsOwn
      <3>3. QED
        BY <1>1, <2>1, <3>1, <3>2
    <2>2. ASSUME NEW b \in Agents, aiq[b].state = "gone", row'[b].state = "live"
          PROVE  \E d \in lost' : kind[d] = "delete" /\ target[d] = b
      <3>1. row[b].state = "live"
        BY <1>1, <1>3, <2>2 DEF GoneHasRow
      <3>2. PICK d \in lost : kind[d] = "delete" /\ target[d] = b
        BY <2>2, <3>1 DEF ListsAgree
      <3>3. d # r
        BY <1>1, <2>2, <3>2
      <3>4. QED
        BY <1>1, <3>2, <3>3
    <2>3. QED
      BY <1>1, <2>1, <2>2 DEF ListsAgree
  <1>11. FieldsAgree'
    <2> SUFFICES ASSUME NEW b \in Agents, aiq[b].state = "live", row'[b].state = "live",
                        row'[b].fields # aiq[b].fields
                 PROVE  \/ row'[b].fields = Admin \/ aiq[b].fields \in lost'
                        \/ aiq[b].fields \in Requests /\ row'[b].fields \in met[aiq[b].fields]
      BY <1>1 DEF FieldsAgree
    <2>1. CASE b = a /\ kind[r] \in {"create", "update"}
      <3>1. row'[b].fields = r
        BY <1>1, <2>1
      <3>2. QED
        BY <1>1, <2>1, <3>1 DEF OthersCameLater, Between
    <2>2. CASE b # a \/ kind[r] \notin {"create", "update"}
      <3>1. row'[b].fields = row[b].fields /\ row[b].state = "live"
        BY <1>1, <2>2
      <3>2. \/ row[b].fields = Admin \/ aiq[b].fields \in lost
            \/ aiq[b].fields \in Requests /\ row[b].fields \in met[aiq[b].fields]
        BY <3>1 DEF FieldsAgree
      <3>3. aiq[b].fields = r => target[r] = b /\ kind[r] \in {"create", "update"}
        BY <1>1 DEF FieldsByRequest
      <3>4. QED
        BY <1>1, <2>2, <3>1, <3>2, <3>3
    <2>3. QED
      BY <2>1, <2>2
  <1>12. QED
    BY <1>5, <1>6, <1>7, <1>8, <1>9, <1>10, <1>11

(* The administrator writes a row that is there. *)
LEMMA AdminKeepsInv ==
  ASSUME Inv, TypeOK', NEW a \in Agents, AdminEdits(a) \/ AdminDeletes(a)
  PROVE  Inv'
  <1> USE DEF Inv, Safe, TypeOK
  <1>1. UNCHANGED <<aiq, pc, kind, target, seen, lost, met>>
    BY DEF AdminEdits, AdminDeletes, request, local, history
  <1>2. /\ \A b \in Agents \ {a} : row'[b] = row[b]
        /\ row[a].state # "none" /\ row'[a].state \in {row[a].state, "deleted"}
        /\ row'[a].fields \in {row[a].fields, Admin}
    BY DEF AdminEdits, AdminDeletes, Rows
  <1>3. \A s \in Requests : target[s] \in Agents
    OBVIOUS
  <1>4. CreatesItsOwn' /\ CreatedByRequest' /\ LostAreServed' /\ FieldsByRequest'
    BY <1>1 DEF CreatesItsOwn, CreatedByRequest, LostAreServed, FieldsByRequest
  <1>5a. \A b \in Agents : /\ row'[b].state = "none" <=> row[b].state = "none"
                           /\ row'[b].state = "live" => row[b].state = "live"
                           /\ row[b].state = "deleted" => row'[b].state = "deleted"
    BY <1>2
  <1>5b. RowByRequest' /\ GoneHasRow'
    BY <1>1, <1>5a DEF RowByRequest, GoneHasRow, Agents
  <1>5. SavesToRow' /\ SeenDeleted'
    <2>1. SavesToRow /\ SeenDeleted /\ \A s \in Requests : target'[s] = target[s] /\ seen'[s] = seen[s]
      BY <1>1
    <2> HIDE DEF Inv, Safe, TypeOK
    <2>2. SavesToRow'
      BY <1>1, <1>3, <1>5a, <2>1 DEF SavesToRow
    <2>3. SeenDeleted'
      BY <1>1, <1>3, <1>5a, <2>1 DEF SeenDeleted
    <2>4. QED
      BY <2>2, <2>3
  <1>6. OthersCameLater'
    BY <1>1 DEF OthersCameLater, Between
  <1>7. ListsAgree'
    <2>1. ASSUME NEW b \in Agents
          PROVE  /\ aiq[b].state = "live" /\ row'[b].state = "none" => b \in lost
                 /\ aiq[b].state = "gone" /\ row'[b].state = "live" =>
                      \E r \in lost : kind[r] = "delete" /\ target[r] = b
      BY <1>5a DEF ListsAgree
    <2>2. QED
      BY <1>1, <2>1 DEF ListsAgree
  <1>8. FieldsAgree'
    BY <1>1, <1>2 DEF FieldsAgree
  <1>9. QED
    BY <1>4, <1>5, <1>5b, <1>6, <1>7, <1>8

LEMMA NextInv == Inv /\ [Next]_vars => Inv'
  <1> SUFFICES ASSUME Inv, [Next]_vars PROVE Inv'
    OBVIOUS
  <1>0. TypeOK /\ TypeOK'
    BY TypeStep DEF Inv
  <1> USE <1>0
  <1>1. ASSUME NEW r \in Requests, Receive(r) PROVE Inv'
    BY <1>1, ReceiveKeepsInv
  <1>2. ASSUME NEW r \in Requests, NEW from, NEW a \in {"ok", "error"}, Finish(r, from, a),
               from \notin {"idle", "ok", "error"}
        PROVE  Inv'
    <2>1. /\ pc[r] = from /\ pc' = [pc EXCEPT ![r] = a]
          /\ seen'[r] = Unread /\ \A s \in Requests \ {r} : seen'[s] = seen[s]
          /\ UNCHANGED <<stores, request, history>>
      BY <1>2 DEF Finish, Goto, Forget, TypeOK
    <2>2. seen'[r].state # "deleted"
      BY <2>1 DEF Unread
    <2>3. pc[r] \notin {"idle", "ok", "error"} /\ a \in Served
      BY <1>2, <2>1 DEF Served
    <2>4. QED
      BY <2>1, <2>2, <2>3, MovingOn
  <1>3. ASSUME NEW r \in Requests, Refuse(r) \/ SaveFails(r) \/ Crash(r) PROVE Inv'
    BY <1>2, <1>3 DEF Refuse, SaveFails, Crash
  <1>4. ASSUME NEW r \in Requests, NEW to, Goto(r, pc[r], to),
               seen' = [seen EXCEPT ![r] = Glance(target[r])],
               UNCHANGED <<stores, request, history>>
        PROVE  /\ pc' = [pc EXCEPT ![r] = to]
               /\ seen'[r].state = "deleted" => row[target[r]].state = "deleted"
               /\ \A s \in Requests \ {r} : seen'[s] = seen[s]
    BY <1>4 DEF Goto, Glance, TypeOK
  <1>5. ASSUME NEW r \in Requests, Find(r) PROVE Inv'
    <2>1. CASE Finish(r, "find", "error")
      BY <1>2, <2>1
    <2>2. CASE /\ row[target[r]].state # "none"
               /\ Goto(r, "find", "call")
               /\ seen' = [seen EXCEPT ![r] = Glance(target[r])]
               /\ UNCHANGED <<stores, request, answer, history>>
      <3>1. pc[r] = "find" /\ Goto(r, pc[r], "call")
        BY <2>2 DEF Goto
      <3>2. QED
        BY <1>4, <2>2, <3>1, MovingOn DEF Served
    <2>3. QED
      BY <1>5, <2>1, <2>2 DEF Find
  <1>6. ASSUME NEW r \in Requests, Look(r) PROVE Inv'
    <2>1. CASE Finish(r, "look", "ok")
      BY <1>2, <2>1
    <2>2. CASE /\ row[target[r]].state # "none" \/ kind[r] = "create"
               /\ Goto(r, "look", "save")
               /\ seen' = [seen EXCEPT ![r] = Glance(target[r])]
               /\ UNCHANGED <<stores, request, answer, history>>
      <3>1. pc[r] = "look" /\ Goto(r, pc[r], "save")
        BY <2>2 DEF Goto
      <3>2. QED
        BY <1>4, <2>2, <3>1, MovingOn DEF Served
    <2>3. QED
      BY <1>6, <2>1, <2>2 DEF Look
  <1>7. ASSUME NEW r \in Requests, CallCreate(r) \/ CallUpdate(r) \/ CallStatus(r) \/ CallDelete(r)
        PROVE  Inv'
    <2>1. target[r] \in Agents /\ aiq[target[r]] \in AiqAgents /\ want[r] \in {"draft", "active"}
      BY DEF TypeOK
    <2>2. PICK agent \in AiqAgents :
            /\ Serve(r, agent)
            /\ agent.fields = IF kind[r] \in {"create", "update"} THEN r ELSE aiq[target[r]].fields
            /\ agent.state = IF kind[r] = "delete" THEN "gone" ELSE "live"
      <3>1. CASE CallCreate(r)
        BY <3>1 DEF CallCreate, AiqAgents, Agents
      <3>2. CASE CallUpdate(r)
        <4>1. aiq[target[r]].state = "live"
          BY <3>2 DEF CallUpdate, Serve
        <4>2. [aiq[target[r]] EXCEPT !.fields = r] \in AiqAgents
          BY <2>1 DEF AiqAgents, Agents
        <4>3. Serve(r, [aiq[target[r]] EXCEPT !.fields = r]) /\ kind[r] = "update"
          BY <3>2 DEF CallUpdate
        <4>4. /\ [aiq[target[r]] EXCEPT !.fields = r].fields = r
              /\ [aiq[target[r]] EXCEPT !.fields = r].state = "live"
          BY <2>1, <4>1 DEF AiqAgents
        <4>5. QED
          BY <4>2, <4>3, <4>4
      <3>3. CASE CallStatus(r)
        <4>1. aiq[target[r]].state = "live"
          BY <3>3 DEF CallStatus, Serve
        <4>2. [aiq[target[r]] EXCEPT !.status = want[r]] \in AiqAgents
          BY <2>1 DEF AiqAgents
        <4>3. Serve(r, [aiq[target[r]] EXCEPT !.status = want[r]]) /\ kind[r] = "status"
          BY <3>3 DEF CallStatus
        <4>4. /\ [aiq[target[r]] EXCEPT !.status = want[r]].fields = aiq[target[r]].fields
              /\ [aiq[target[r]] EXCEPT !.status = want[r]].state = "live"
          BY <2>1, <4>1 DEF AiqAgents
        <4>5. QED
          BY <4>2, <4>3, <4>4
      <3>4. CASE CallDelete(r)
        <4>2. [aiq[target[r]] EXCEPT !.state = "gone"] \in AiqAgents
          BY <2>1 DEF AiqAgents
        <4>3. Serve(r, [aiq[target[r]] EXCEPT !.state = "gone"]) /\ kind[r] = "delete"
          BY <3>4 DEF CallDelete
        <4>4. /\ [aiq[target[r]] EXCEPT !.state = "gone"].fields = aiq[target[r]].fields
              /\ [aiq[target[r]] EXCEPT !.state = "gone"].state = "gone"
          BY <2>1 DEF AiqAgents
        <4>5. QED
          BY <4>2, <4>3, <4>4
      <3>5. QED
        BY <1>7, <3>1, <3>2, <3>3, <3>4
    <2>3. QED
      BY <2>2, ServeKeepsInv
  <1>8. ASSUME NEW r \in Requests, SaveCreate(r) \/ SaveUpdate(r) \/ SaveStatus(r) \/ SaveDelete(r)
        PROVE  Inv'
    <2>1. target[r] \in Agents /\ row[target[r]] \in Rows /\ answer[r] \in {"draft", "active"}
      BY DEF TypeOK
    <2>2. PICK new \in Rows :
            /\ Save(r, new)
            /\ new.fields = IF kind[r] \in {"create", "update"} THEN r ELSE row[target[r]].fields
            /\ new.state = IF kind[r] = "create" THEN "live" ELSE
                           IF kind[r] = "delete" THEN "deleted" ELSE row[target[r]].state
      <3>1. CASE SaveCreate(r)
        BY <2>1, <3>1 DEF SaveCreate, Rows, Agents
      <3>2. CASE SaveUpdate(r)
        <4> DEFINE New(s) == [row[target[r]] EXCEPT !.fields = r, !.status = s]
        <4>1. \A s \in {row[target[r]].status, answer[r]} :
                /\ New(s) \in Rows
                /\ New(s).fields = r /\ New(s).state = row[target[r]].state
          BY <2>1 DEF Rows, Agents
        <4>2. /\ kind[r] = "update"
              /\ Save(r, New(IF answer[r] # seen[r].status THEN answer[r] ELSE row[target[r]].status))
          BY <3>2, Zenon DEF SaveUpdate
        <4> HIDE DEF New
        <4>3. PICK s \in {row[target[r]].status, answer[r]} : Save(r, New(s))
          BY <4>2
        <4>4. QED
          BY <4>1, <4>2, <4>3
      <3>3. CASE SaveStatus(r)
        <4> DEFINE New(s) == [row[target[r]] EXCEPT !.status = s]
        <4>1. \A s \in {row[target[r]].status, "active"} :
                /\ New(s) \in Rows
                /\ New(s).fields = row[target[r]].fields /\ New(s).state = row[target[r]].state
          BY <2>1 DEF Rows
        <4>2. /\ kind[r] = "status"
              /\ Save(r, New(IF seen[r].status # "active" THEN "active" ELSE row[target[r]].status))
          BY <3>3, Zenon DEF SaveStatus
        <4> HIDE DEF New
        <4>3. PICK s \in {row[target[r]].status, "active"} : Save(r, New(s))
          BY <4>2
        <4>4. QED
          BY <4>1, <4>2, <4>3
      <3>4. CASE SaveDelete(r)
        <4>1. CASE seen[r].state = "deleted"
          <5>1. row[target[r]].state = "deleted"
            BY <4>1 DEF Inv, Safe, SeenDeleted
          <5>2. QED
            BY <2>1, <3>4, <4>1, <5>1 DEF SaveDelete
        <4>2. CASE seen[r].state # "deleted"
          <5> DEFINE New == [row[target[r]] EXCEPT !.state = "deleted"]
          <5>1. New \in Rows /\ New.fields = row[target[r]].fields /\ New.state = "deleted"
            BY <2>1 DEF Rows
          <5>2. kind[r] = "delete" /\ Save(r, New)
            BY <3>4, <4>2, Zenon DEF SaveDelete
          <5>3. QED
            BY <5>1, <5>2
        <4>3. QED
          BY <4>1, <4>2
      <3>5. QED
        BY <1>8, <3>1, <3>2, <3>3, <3>4
    <2>3. QED
      BY <2>2, SaveKeepsInv
  <1>9. ASSUME NEW a \in Agents, AdminEdits(a) \/ AdminDeletes(a) PROVE Inv'
    BY <1>9, AdminKeepsInv
  <1>10. CASE UNCHANGED vars
    BY <1>10 DEF vars, stores, request, local, history, Inv, Safe, CreatesItsOwn, CreatedByRequest,
       RowByRequest, SavesToRow, SeenDeleted, GoneHasRow, LostAreServed, FieldsByRequest,
       OthersCameLater, Between, ListsAgree, FieldsAgree
  <1>11. QED
    BY <1>1, <1>3, <1>5, <1>6, <1>7, <1>8, <1>9, <1>10 DEF Next, Work

LEMMA Invariance == Spec => []Inv
  BY InitInv, NextInv, PTL DEF Spec

-----------------------------------------------------------------------------
(* Every variable of the requests, of AIQ and of the table keeps its type. *)
THEOREM TypeCorrect == Spec => []TypeOK
  <1>1. Inv => TypeOK
    BY DEF Inv
  <1>2. QED
    BY Invariance, <1>1, PTL

(***************************************************************************)
(* An agent is in one of AIQ and the table only while a request that AIQ   *)
(* has served did not write the table.                                     *)
(***************************************************************************)
THEOREM ListsAgreeHolds == Spec => []ListsAgree
  <1>1. Inv => ListsAgree
    BY DEF Inv, Safe
  <1>2. QED
    BY Invariance, <1>1, PTL

(***************************************************************************)
(* The table shows other fields than AIQ only through an administrator, a  *)
(* write that never came, or two requests whose calls and writes cross.    *)
(***************************************************************************)
THEOREM FieldsAgreeHolds == Spec => []FieldsAgree
  <1>1. Inv => FieldsAgree
    BY DEF Inv, Safe
  <1>2. QED
    BY Invariance, <1>1, PTL
=============================================================================
