------------------------ MODULE MessageFeedbackProofs ------------------------
(***************************************************************************)
(* Theorems about MessageFeedback: for any number of requests and any      *)
(* limit, what the missing unique key and the missing locks allow is what  *)
(* overlapping requests do, and nothing else; and a removed reaction never *)
(* comes back.                                                             *)
(***************************************************************************)
EXTENDS MessageFeedback, FiniteSetTheorems, TLAPS

USE NobodyAssumption, LimitAssumption

(* Where a request can be that has written. *)
Written == {"refresh", "respond", "ok", "error"}

(* A request writes once: before that it has no row, and nobody was met. *)
WritesOnce ==
  \A r \in Requests :
    fb[r].state # "none" \/ looked[r] # {} \/ counted[r] # {} => pc[r] \in Written

(* The comment of a row is that of a request that has written. *)
CommentWritten == \A x \in Requests : fb[x].comment # Nobody => pc[fb[x].comment] \in Written

(* A row that was found is there, whatever became of it. *)
FoundIsRow ==
  \A r \in Requests :
    pc[r] \in {"update", "erase"} => found[r] \in Requests /\ fb[found[r]].state # "none"

KindsFit ==
  \A r \in Requests :
    /\ pc[r] = "update" => kind[r] = "submit"
    /\ pc[r] \in {"upload", "commit", "attach", "respond"} => kind[r] # "submit"

(* Who has looked and found nothing, was met by whoever has inserted since. *)
LookedSince ==
  \A r, x \in Requests :
    pc[r] \in {"count", "insert"} /\ kind[r] = "submit" /\ kind[x] = "submit" /\ fb[x].state = "live"
    => r \in looked[x]

(* What a request has counted and is still there is below the limit. *)
Known(r) == {x \in Live : r \notin counted[x]}

CountedSince == \A r \in Requests : Counted(r) => Cardinality(Known(r)) < Limit

(* The limit, of any part of the rows. *)
AnyOverLimit ==
  \A S \in SUBSET Live : Cardinality(S) > Limit => \E x, y \in S : x \in counted[y]

(* Who holds a reaction that was read and has changed since, was met by a change of it. *)
ChangedSince ==
  \A r \in Requests :
    pc[r] = "update" /\ fb[found[r]].rating # old[r]
    => \E w \in Requests : found[w] = found[r] /\ kind[w] = "submit" /\ r \in looked[w]

Safe ==
  /\ WritesOnce
  /\ CommentWritten
  /\ FoundIsRow
  /\ KindsFit
  /\ LookedSince
  /\ IsFiniteSet(Live)
  /\ CountedSince
  /\ AnyOverLimit
  /\ ChangedSince
  /\ DuplicateOnlyFromOverlap
  /\ MixedOnlyFromOverlap

Inv == TypeOK /\ Safe

-----------------------------------------------------------------------------
LEMMA InitInv == Init => Inv
  <1> SUFFICES ASSUME Init PROVE Inv
    OBVIOUS
  <1> USE DEF Init, NoRow
  <1>1. TypeOK
    BY DEF TypeOK, Rows, Reactions, Kinds, Steps
  <1>2. Live = {}
    BY DEF Live
  <1>3. IsFiniteSet(Live) /\ AnyOverLimit
    <2>1. IsFiniteSet({}) /\ Cardinality({}) = 0
      BY FS_EmptySet
    <2>2. \A S \in SUBSET {} : S = {}
      OBVIOUS
    <2>3. QED
      BY <1>2, <2>1, <2>2 DEF AnyOverLimit
  <1>4. WritesOnce /\ CommentWritten /\ FoundIsRow /\ KindsFit
    BY DEF WritesOnce, CommentWritten, FoundIsRow, KindsFit
  <1>5. LookedSince /\ CountedSince /\ ChangedSince
    BY DEF LookedSince, CountedSince, ChangedSince, Counted
  <1>6. DuplicateOnlyFromOverlap /\ MixedOnlyFromOverlap
    BY <1>2 DEF DuplicateOnlyFromOverlap, MixedOnlyFromOverlap, Reacted
  <1>7. QED
    BY <1>1, <1>3, <1>4, <1>5, <1>6 DEF Inv, Safe

LEMMA TypeStep == TypeOK /\ [Next]_vars => TypeOK'
  <1> SUFFICES ASSUME TypeOK, [Next]_vars PROVE TypeOK'
    OBVIOUS
  <1> USE DEF TypeOK, Goto, table, request, local, history
  <1>1. ASSUME NEW r \in Requests, Receive(r) PROVE TypeOK'
    <2>1. \E k \in Kinds, v \in Reactions :
            /\ kind' = [kind EXCEPT ![r] = k] /\ reaction' = [reaction EXCEPT ![r] = v]
            /\ \E to \in Steps : pc' = [pc EXCEPT ![r] = to]
      BY <1>1 DEF Receive, Steps
    <2>2. UNCHANGED <<table, local, history>>
      BY <1>1 DEF Receive
    <2>3. QED
      BY <2>1, <2>2
  <1>2. ASSUME NEW r \in Requests, NEW from \in Steps, NEW a \in Steps, Finish(r, from, a)
        PROVE  TypeOK'
    BY <1>2 DEF Finish
  <1>3. ASSUME NEW r \in Requests, NEW x \in Requests, NEW to \in Steps, Take(r, x, to)
        PROVE  TypeOK'
    BY <1>3 DEF Take, Rows
  <1>4. ASSUME NEW r \in Requests, NEW to \in Steps, pc' = [pc EXCEPT ![r] = to],
               fb' \in [Requests -> Rows], Meet(r), UNCHANGED <<blobs, request, local>>
        PROVE  TypeOK'
    <2>1. looked' \in [Requests -> SUBSET Requests] /\ counted' \in [Requests -> SUBSET Requests]
      BY <1>4 DEF Meet
    <2>2. QED
      BY <1>4, <2>1
  <1>5. ASSUME NEW r \in Requests, Refuse(r) \/ Refresh(r) \/ Count(r) \/ Flush(r) \/ UploadFails(r)
               \/ Respond(r) \/ StatementFails(r)
        PROVE  TypeOK'
    <2>1. \E from, a \in Steps : Finish(r, from, a)
      BY <1>5 DEF Refuse, Refresh, Count, Flush, UploadFails, Respond, StatementFails, Steps
    <2>2. QED
      BY <1>2, <2>1
  <1>6. ASSUME NEW r \in Requests, Lookup(r) \/ LookupToErase(r) \/ LookupById(r) PROVE TypeOK'
    <2>1. \/ \E from, a \in Steps : Finish(r, from, a)
          \/ \E x \in Requests, to \in Steps : Take(r, x, to)
      BY <1>6, Zenon DEF Lookup, LookupToErase, LookupById, Reacted, Live, Steps
    <2>2. QED
      BY <1>2, <1>3, <2>1
  <1>7. ASSUME NEW r \in Requests, Erase(r) PROVE TypeOK'
    <2>1. fb' \in [Requests -> Rows]
      <3>1. \A x \in Requests : [fb[x] EXCEPT !.state = "deleted"] \in Rows
        BY DEF Rows
      <3>2. fb' = [fb EXCEPT ![found[r]] = [fb[found[r]] EXCEPT !.state = "deleted"]]
        BY <1>7 DEF Erase
      <3>3. QED
        BY <3>1, <3>2
    <2>2. QED
      BY <1>4, <1>7, <2>1 DEF Erase, Steps
  <1>8. ASSUME NEW r \in Requests, Update(r) PROVE TypeOK'
    <2>1. fb' \in [Requests -> Rows]
      <3>1. ASSUME NEW x \in Rows PROVE Updated(r, x) \in Rows
        <4>1. reaction[r] \in Reactions
          OBVIOUS
        <4>2. QED
          BY <4>1, NobodyAssumption DEF Rows, Updated
      <3>2. fb' = [fb EXCEPT ![found[r]] = Updated(r, fb[found[r]])]
        BY <1>8 DEF Update
      <3>3. QED
        BY <3>1, <3>2
    <2>2. QED
      BY <1>4, <1>8, <2>1 DEF Update, Steps
  <1>9. ASSUME NEW r \in Requests, NEW b \in BOOLEAN PROVE NewRow(r, b) \in Rows
    BY DEF NewRow, Rows
  <1>10. ASSUME NEW r \in Requests, Insert(r) \/ Commit(r) PROVE TypeOK'
    <2>1. /\ \E b \in BOOLEAN : fb' = [fb EXCEPT ![r] = NewRow(r, b)]
          /\ \E to \in Steps : pc' = [pc EXCEPT ![r] = to]
          /\ Meet(r) /\ UNCHANGED <<blobs, request, local>>
      BY <1>10, Zenon DEF Insert, Commit, Steps
    <2>2. fb' \in [Requests -> Rows]
      BY <1>9, <2>1
    <2>3. QED
      BY <1>4, <2>1, <2>2
  <1>11. ASSUME NEW r \in Requests, Upload(r) PROVE TypeOK'
    BY <1>2, <1>11 DEF Upload, Steps
  <1>12. CASE UNCHANGED vars
    BY <1>12 DEF vars
  <1>13. QED
    BY <1>1, <1>5, <1>6, <1>7, <1>8, <1>10, <1>11, <1>12 DEF Next, Work

-----------------------------------------------------------------------------
(***************************************************************************)
(* A step of one request that writes nothing and does not take a row.      *)
(***************************************************************************)
LEMMA MovingOn ==
  ASSUME Inv, TypeOK', NEW r \in Requests, NEW to,
         pc[r] # "idle",
         pc' = [pc EXCEPT ![r] = to],
         to \notin {"idle", "update", "erase"},
         pc[r] \in Written => to \in Written,
         to \in {"count", "insert"} /\ kind[r] = "submit" =>
           pc[r] \in {"count", "insert"} \/ Reacted = {},
         to \in {"insert", "upload", "commit", "attach"} => Counted(r) \/ Cardinality(Live) < Limit,
         to \in {"upload", "commit", "attach", "respond"} => kind[r] # "submit",
         UNCHANGED <<fb, request, local, history>>
  PROVE  Inv'
  <1> USE DEF Inv, Safe, TypeOK, request, local, history
  <1>1. Live' = Live /\ \A s \in Requests : Known(s)' = Known(s)
    BY DEF Live, Known
  <1>2. WritesOnce' /\ CommentWritten' /\ FoundIsRow' /\ KindsFit'
    <2>1. WritesOnce' /\ FoundIsRow' /\ KindsFit'
      BY DEF WritesOnce, FoundIsRow, KindsFit
    <2>2. CommentWritten'
      BY DEF CommentWritten, Rows
    <2>3. QED
      BY <2>1, <2>2
  <1>3. LookedSince'
    BY DEF LookedSince, Reacted, Live
  <1>4. CountedSince'
    <2> SUFFICES ASSUME NEW s \in Requests, Counted(s)' PROVE Cardinality(Known(s)) < Limit
      BY <1>1 DEF CountedSince
    <2>1. CASE Counted(s)
      BY <2>1 DEF CountedSince
    <2>2. CASE ~ Counted(s)
      <3>1. s = r /\ Cardinality(Live) < Limit
        BY <2>2 DEF Counted
      <3>2. Known(s) \subseteq Live
        BY DEF Known
      <3>3. /\ Cardinality(Known(s)) <= Cardinality(Live)
            /\ Cardinality(Known(s)) \in Nat /\ Cardinality(Live) \in Nat
        BY <3>2, FS_Subset, FS_CardinalityType
      <3>4. QED
        BY <3>1, <3>3
    <2>3. QED
      BY <2>1, <2>2
  <1>5. IsFiniteSet(Live)' /\ AnyOverLimit'
    BY <1>1 DEF AnyOverLimit
  <1>6. ChangedSince'
    BY DEF ChangedSince
  <1>7. DuplicateOnlyFromOverlap' /\ MixedOnlyFromOverlap'
    BY DEF DuplicateOnlyFromOverlap, MixedOnlyFromOverlap, Reacted, Live
  <1>8. QED
    BY <1>2, <1>3, <1>4, <1>5, <1>6, <1>7

LEMMA ReceiveKeepsInv ==
  ASSUME Inv, TypeOK', NEW r \in Requests, Receive(r)
  PROVE  Inv'
  <1> USE DEF Inv, Safe, TypeOK
  <1>1. /\ pc[r] = "idle"
        /\ \E to \in {"lookup", "count"} :
             /\ pc' = [pc EXCEPT ![r] = to]
             /\ kind'[r] = "submit" => to = "lookup"
        /\ \A s \in Requests \ {r} : kind'[s] = kind[s] /\ reaction'[s] = reaction[s]
        /\ UNCHANGED <<fb, found, old, looked, counted>>
    <2>1. PICK k \in Kinds, v \in Reactions :
            /\ kind' = [kind EXCEPT ![r] = k]
            /\ reaction' = [reaction EXCEPT ![r] = v]
            /\ Goto(r, "idle", IF k \in {"post", "other"} THEN "count" ELSE "lookup")
      BY Zenon DEF Receive
    <2>2. UNCHANGED <<fb, found, old, looked, counted>>
      BY DEF Receive, table, local, history
    <2>3. QED
      BY <2>1, <2>2 DEF Goto
  <1>2. fb[r].state = "none" /\ looked[r] = {} /\ counted[r] = {}
    BY <1>1 DEF WritesOnce, Written
  <1>3. \A s \in Requests : pc[s] \in Written => s # r /\ pc'[s] = pc[s]
    BY <1>1 DEF Written
  <1>4. \A x \in Requests : fb[x].comment # Nobody => fb[x].comment \in Requests \ {r}
    BY <1>3 DEF CommentWritten, Rows
  <1>5. Live' = Live /\ (\A s \in Requests : Known(s)' = Known(s)) /\ Reacted' = Reacted
    BY <1>1, <1>2 DEF Live, Known, Reacted
  <1>6. WritesOnce' /\ FoundIsRow' /\ KindsFit'
    BY <1>1, <1>3 DEF WritesOnce, FoundIsRow, KindsFit
  <1>7. CommentWritten'
    BY <1>1, <1>3, <1>4 DEF CommentWritten
  <1>8. LookedSince'
    BY <1>1, <1>2 DEF LookedSince
  <1>9. CountedSince'
    BY <1>1, <1>5 DEF CountedSince, Counted
  <1>10. IsFiniteSet(Live)' /\ AnyOverLimit'
    BY <1>1, <1>5 DEF AnyOverLimit
  <1>11. ChangedSince'
    BY <1>1, <1>2 DEF ChangedSince
  <1>12. DuplicateOnlyFromOverlap'
    BY <1>1, <1>2, <1>5 DEF DuplicateOnlyFromOverlap, Reacted, Live
  <1>13. MixedOnlyFromOverlap'
    BY <1>1, <1>2, <1>4 DEF MixedOnlyFromOverlap
  <1>14. QED
    BY <1>6, <1>7, <1>8, <1>9, <1>10, <1>11, <1>12, <1>13

LEMMA TakeKeepsInv ==
  ASSUME Inv, TypeOK', NEW r \in Requests, NEW x \in Live, NEW to \in {"update", "erase"},
         to = "update" => kind[r] = "submit", Take(r, x, to)
  PROVE  Inv'
  <1> USE DEF Inv, Safe, TypeOK
  <1>1. /\ pc[r] = "lookup" /\ x \in Requests
        /\ pc' = [pc EXCEPT ![r] = to]
        /\ found' = [found EXCEPT ![r] = x]
        /\ old' = [old EXCEPT ![r] = fb[x].rating]
        /\ UNCHANGED <<fb, kind, reaction, looked, counted>>
    BY DEF Take, Goto, table, request, history, Live
  <1>2. looked[r] = {}
    BY <1>1 DEF WritesOnce, Written
  <1>3. Live' = Live /\ \A s \in Requests : Known(s)' = Known(s)
    BY <1>1 DEF Live, Known
  <1>4. WritesOnce' /\ KindsFit'
    BY <1>1 DEF WritesOnce, KindsFit, Written
  <1>5. FoundIsRow'
    BY <1>1 DEF FoundIsRow, Live
  <1>6. CommentWritten'
    BY <1>1 DEF CommentWritten, Rows, Written
  <1>7. LookedSince' /\ CountedSince'
    BY <1>1, <1>3 DEF LookedSince, CountedSince, Counted
  <1>8. IsFiniteSet(Live)' /\ AnyOverLimit'
    BY <1>1, <1>3 DEF AnyOverLimit
  <1>9. ChangedSince'
    <2> SUFFICES ASSUME NEW s \in Requests, pc'[s] = "update", fb[found'[s]].rating # old'[s]
                 PROVE  \E w \in Requests :
                          found'[w] = found'[s] /\ kind[w] = "submit" /\ s \in looked[w]
      BY <1>1 DEF ChangedSince
    <2>1. s # r
      BY <1>1
    <2>2. PICK w \in Requests : found[w] = found[s] /\ kind[w] = "submit" /\ s \in looked[w]
      BY <1>1, <2>1 DEF ChangedSince
    <2>3. QED
      BY <1>1, <1>2, <2>1, <2>2
  <1>10. DuplicateOnlyFromOverlap'
    BY <1>1, <1>3 DEF DuplicateOnlyFromOverlap, Reacted
  <1>11. MixedOnlyFromOverlap'
    BY <1>1, <1>2 DEF MixedOnlyFromOverlap
  <1>12. QED
    BY <1>4, <1>5, <1>6, <1>7, <1>8, <1>9, <1>10, <1>11

(* A row is marked deleted: it counts no longer, and nothing else of it changes. *)
LEMMA EraseKeepsInv ==
  ASSUME Inv, TypeOK', NEW r \in Requests, Erase(r)
  PROVE  Inv'
  <1> DEFINE x == found[r]
  <1> USE DEF Inv, Safe, TypeOK
  <1>1. /\ pc[r] = "erase" /\ x \in Requests /\ fb[x].state # "none"
        /\ pc' = [pc EXCEPT ![r] = "ok"]
        /\ fb' = [fb EXCEPT ![x].state = "deleted"]
        /\ UNCHANGED <<kind, reaction, found, old>>
    BY DEF Erase, Goto, FoundIsRow, request, local
  <1>2. \A s \in Requests \ {r} : looked'[s] = looked[s] /\ counted'[s] = counted[s]
    BY DEF Erase, Meet
  <1>3. fb[r].state = "none" /\ looked[r] = {} /\ x # r
    BY <1>1 DEF WritesOnce, Written
  <1>4. /\ \A y \in Requests : fb'[y].rating = fb[y].rating /\ fb'[y].comment = fb[y].comment
        /\ \A y \in Requests \ {x} : fb'[y] = fb[y]
        /\ fb'[x].state = "deleted"
    BY <1>1 DEF Rows
  <1>5. Live' \subseteq Live /\ r \notin Live
    BY <1>3, <1>4 DEF Live
  <1>6. \A s \in Requests : pc[s] \in Written => pc'[s] \in Written
    BY <1>1 DEF Written
  <1>7. WritesOnce'
    <2> SUFFICES ASSUME NEW s \in Requests,
                        fb'[s].state # "none" \/ looked'[s] # {} \/ counted'[s] # {}
                 PROVE  pc'[s] \in Written
      BY DEF WritesOnce
    <2>1. CASE s = r
      BY <1>1, <2>1 DEF Written
    <2>2. CASE s # r
      BY <1>1, <1>2, <1>4, <1>6, <2>2 DEF WritesOnce
    <2>3. QED
      BY <2>1, <2>2
  <1>8. CommentWritten'
    BY <1>4, <1>6 DEF CommentWritten, Rows
  <1>9. FoundIsRow' /\ KindsFit'
    BY <1>1, <1>4 DEF FoundIsRow, KindsFit
  <1>10. LookedSince'
    BY <1>1, <1>2, <1>3, <1>4 DEF LookedSince
  <1>11. CountedSince'
    <2> SUFFICES ASSUME NEW s \in Requests, Counted(s)' PROVE Cardinality(Known(s)') < Limit
      BY DEF CountedSince
    <2>1. s # r /\ Cardinality(Known(s)) < Limit
      BY <1>1 DEF CountedSince, Counted
    <2>2. Known(s)' \subseteq Known(s)
      BY <1>2, <1>5 DEF Known, Live
    <2>3. IsFiniteSet(Known(s))
      BY FS_Subset DEF Known
    <2>4. QED
      BY <2>1, <2>2, <2>3, FS_Subset, FS_CardinalityType
  <1>12. IsFiniteSet(Live)' /\ AnyOverLimit'
    <2>1. IsFiniteSet(Live')
      BY <1>5, FS_Subset
    <2>2. AnyOverLimit'
      <3> SUFFICES ASSUME NEW S \in SUBSET Live', Cardinality(S) > Limit
                   PROVE  \E a, b \in S : a \in counted'[b]
        BY DEF AnyOverLimit
      <3>1. PICK a \in S, b \in S : a \in counted[b]
        BY <1>5 DEF AnyOverLimit
      <3>2. b \in Requests \ {r}
        BY <1>5, <3>1 DEF Live
      <3>3. QED
        BY <1>2, <3>1, <3>2
    <2>3. QED
      BY <2>1, <2>2
  <1>13. ChangedSince'
    <2> SUFFICES ASSUME NEW s \in Requests, pc'[s] = "update", fb'[found[s]].rating # old[s]
                 PROVE  \E w \in Requests :
                          found[w] = found[s] /\ kind[w] = "submit" /\ s \in looked'[w]
      BY <1>1 DEF ChangedSince
    <2>1. pc[s] = "update" /\ found[s] \in Requests
      BY <1>1 DEF FoundIsRow
    <2>2. PICK w \in Requests : found[w] = found[s] /\ kind[w] = "submit" /\ s \in looked[w]
      BY <1>4, <2>1 DEF ChangedSince
    <2>3. QED
      BY <1>2, <1>3, <2>2
  <1>14. DuplicateOnlyFromOverlap'
    BY <1>1, <1>2, <1>5 DEF DuplicateOnlyFromOverlap, Reacted, Live
  <1>15. MixedOnlyFromOverlap'
    <2> SUFFICES ASSUME NEW y \in Requests, fb[y].comment # Nobody,
                        fb[y].rating # reaction[fb[y].comment]
                 PROVE  \E w \in Requests :
                          found[w] = y /\ kind[w] = "submit" /\ fb[y].comment \in looked'[w]
      BY <1>1, <1>4 DEF MixedOnlyFromOverlap
    <2>1. PICK w \in Requests : found[w] = y /\ kind[w] = "submit" /\ fb[y].comment \in looked[w]
      BY DEF MixedOnlyFromOverlap
    <2>2. QED
      BY <1>2, <1>3, <2>1
  <1>16. QED
    BY <1>7, <1>8, <1>9, <1>10, <1>11, <1>12, <1>13, <1>14, <1>15

(* What differs from what r had read is written; those who hold the row now are met. *)
LEMMA UpdateKeepsInv ==
  ASSUME Inv, TypeOK', NEW r \in Requests, Update(r)
  PROVE  Inv'
  <1> DEFINE x == found[r]
  <1> USE DEF Inv, Safe, TypeOK
  <1>1. /\ pc[r] = "update" /\ x \in Requests /\ fb[x].state # "none" /\ kind[r] = "submit"
        /\ pc' = [pc EXCEPT ![r] = "refresh"]
        /\ fb' = [fb EXCEPT ![x] = Updated(r, fb[x])]
        /\ UNCHANGED <<kind, reaction, found, old>>
    BY DEF Update, Goto, FoundIsRow, KindsFit, request, local
  <1>2. /\ \A s \in Requests \ {r} : looked'[s] = looked[s] /\ counted'[s] = counted[s]
        /\ looked'[r] = {s \in Requests \ {r} : Looked(s)}
    BY DEF Update, Meet
  <1>3. fb[r].state = "none" /\ looked[r] = {} /\ x # r
    BY <1>1 DEF WritesOnce, Written
  <1>4. /\ \A y \in Requests : fb'[y].state = fb[y].state
        /\ \A y \in Requests \ {x} : fb'[y] = fb[y]
        /\ fb'[x].comment = r
        /\ fb'[x].rating = IF reaction[r] # old[r] THEN reaction[r] ELSE fb[x].rating
    BY <1>1 DEF Rows, Updated
  <1>5. Live' = Live /\ r \notin Live
    BY <1>3, <1>4 DEF Live
  <1>6. (\A s \in Requests : pc[s] \in Written => pc'[s] \in Written) /\ pc'[r] \in Written
    BY <1>1 DEF Written
  <1>7. WritesOnce'
    <2> SUFFICES ASSUME NEW s \in Requests,
                        fb'[s].state # "none" \/ looked'[s] # {} \/ counted'[s] # {}
                 PROVE  pc'[s] \in Written
      BY DEF WritesOnce
    <2>1. CASE s = r
      BY <1>6, <2>1
    <2>2. CASE s # r
      BY <1>1, <1>2, <1>4, <1>6, <2>2 DEF WritesOnce
    <2>3. QED
      BY <2>1, <2>2
  <1>8. CommentWritten'
    <2> SUFFICES ASSUME NEW y \in Requests, fb'[y].comment # Nobody
                 PROVE  pc'[fb'[y].comment] \in Written
      BY DEF CommentWritten
    <2>1. CASE y = x
      BY <1>4, <1>6, <2>1
    <2>2. CASE y # x
      BY <1>4, <1>6, <2>2 DEF CommentWritten, Rows
    <2>3. QED
      BY <2>1, <2>2
  <1>9. FoundIsRow' /\ KindsFit'
    BY <1>1, <1>4 DEF FoundIsRow, KindsFit
  <1>10. LookedSince'
    BY <1>1, <1>2, <1>3, <1>4 DEF LookedSince
  <1>11. \A s \in Requests : Known(s)' = Known(s)
    BY <1>2, <1>5 DEF Known, Live
  <1>12. CountedSince'
    BY <1>1, <1>11 DEF CountedSince, Counted
  <1>13. IsFiniteSet(Live)' /\ AnyOverLimit'
    <2>1. AnyOverLimit'
      <3> SUFFICES ASSUME NEW S \in SUBSET Live, Cardinality(S) > Limit
                   PROVE  \E a, b \in S : a \in counted'[b]
        BY <1>5 DEF AnyOverLimit
      <3>1. PICK a \in S, b \in S : a \in counted[b]
        BY DEF AnyOverLimit
      <3>2. b \in Requests \ {r}
        BY <1>5, <3>1 DEF Live
      <3>3. QED
        BY <1>2, <3>1, <3>2
    <2>2. QED
      BY <1>5, <2>1
  <1>14. ChangedSince'
    <2> SUFFICES ASSUME NEW s \in Requests, pc'[s] = "update", fb'[found[s]].rating # old[s]
                 PROVE  \E w \in Requests :
                          found[w] = found[s] /\ kind[w] = "submit" /\ s \in looked'[w]
      BY <1>1 DEF ChangedSince
    <2>1. s # r /\ pc[s] = "update" /\ found[s] \in Requests
      BY <1>1 DEF FoundIsRow
    <2>2. CASE found[s] = x
      <3>1. s \in looked'[r]
        BY <1>2, <2>1 DEF Looked
      <3>2. QED
        BY <1>1, <2>2, <3>1
    <2>3. CASE found[s] # x
      <3>1. PICK w \in Requests : found[w] = found[s] /\ kind[w] = "submit" /\ s \in looked[w]
        BY <1>4, <2>1, <2>3 DEF ChangedSince
      <3>2. QED
        BY <1>2, <1>3, <3>1
    <2>4. QED
      BY <2>2, <2>3
  <1>15. DuplicateOnlyFromOverlap'
    BY <1>1, <1>2, <1>5 DEF DuplicateOnlyFromOverlap, Reacted, Live
  <1>16. MixedOnlyFromOverlap'
    <2> SUFFICES ASSUME NEW y \in Requests, fb'[y].comment # Nobody,
                        fb'[y].rating # reaction[fb'[y].comment]
                 PROVE  \E w \in Requests :
                          found[w] = y /\ kind[w] = "submit" /\ fb'[y].comment \in looked'[w]
      BY <1>1 DEF MixedOnlyFromOverlap
    <2>1. CASE y = x
      <3>1. fb[x].rating # old[r]
        BY <1>4, <2>1
      <3>2. PICK w \in Requests : found[w] = x /\ kind[w] = "submit" /\ r \in looked[w]
        BY <1>1, <3>1 DEF ChangedSince
      <3>3. QED
        BY <1>2, <1>3, <1>4, <2>1, <3>2
    <2>2. CASE y # x
      <3>1. PICK w \in Requests : found[w] = y /\ kind[w] = "submit" /\ fb[y].comment \in looked[w]
        BY <1>4, <2>2 DEF MixedOnlyFromOverlap
      <3>2. QED
        BY <1>2, <1>3, <1>4, <2>2, <3>1
    <2>3. QED
      BY <2>1, <2>2
  <1>17. QED
    BY <1>7, <1>8, <1>9, <1>10, <1>12, <1>13, <1>14, <1>15, <1>16

(* A new row: whoever looked or counted before and goes on is met. *)
LEMMA StoreKeepsInv ==
  ASSUME Inv, TypeOK', NEW r \in Requests, NEW b \in BOOLEAN, NEW to \in {"ok", "respond"},
         pc[r] \in {"insert", "commit", "attach"},
         kind[r] = "submit" => pc[r] = "insert",
         pc' = [pc EXCEPT ![r] = to],
         to = "respond" => kind[r] # "submit",
         fb' = [fb EXCEPT ![r] = NewRow(r, b)],
         Meet(r),
         UNCHANGED <<request, local>>
  PROVE  Inv'
  <1> USE DEF Inv, Safe, TypeOK
  <1>1. UNCHANGED <<kind, reaction, found, old>>
    BY DEF request, local
  <1>2. /\ \A s \in Requests \ {r} : looked'[s] = looked[s] /\ counted'[s] = counted[s]
        /\ looked'[r] = {s \in Requests \ {r} : Looked(s)}
        /\ counted'[r] = {s \in Requests \ {r} : Counted(s)}
    BY DEF Meet
  <1>3. fb[r].state = "none" /\ looked[r] = {}
    BY DEF WritesOnce, Written
  <1>4. /\ \A y \in Requests \ {r} : fb'[y] = fb[y]
        /\ fb'[r].state = "live" /\ fb'[r].comment = r /\ fb'[r].rating = reaction[r]
    BY DEF NewRow
  <1>5. Live' = Live \union {r} /\ r \notin Live
    BY <1>3, <1>4 DEF Live
  <1>6. (\A s \in Requests : pc[s] \in Written => pc'[s] \in Written) /\ pc'[r] \in Written
    BY DEF Written
  <1>7. WritesOnce'
    <2> SUFFICES ASSUME NEW s \in Requests,
                        fb'[s].state # "none" \/ looked'[s] # {} \/ counted'[s] # {}
                 PROVE  pc'[s] \in Written
      BY DEF WritesOnce
    <2>1. CASE s = r
      BY <1>6, <2>1
    <2>2. CASE s # r
      BY <1>2, <1>4, <1>6, <2>2 DEF WritesOnce
    <2>3. QED
      BY <2>1, <2>2
  <1>8. CommentWritten'
    <2> SUFFICES ASSUME NEW y \in Requests, fb'[y].comment # Nobody
                 PROVE  pc'[fb'[y].comment] \in Written
      BY DEF CommentWritten
    <2>1. CASE y = r
      BY <1>4, <1>6, <2>1
    <2>2. CASE y # r
      BY <1>4, <1>6, <2>2 DEF CommentWritten, Rows
    <2>3. QED
      BY <2>1, <2>2
  <1>9. FoundIsRow'
    BY <1>1, <1>4 DEF FoundIsRow
  <1>10. KindsFit'
    BY <1>1 DEF KindsFit
  <1>11. LookedSince'
    <2> SUFFICES ASSUME NEW s \in Requests, NEW x \in Requests, pc'[s] \in {"count", "insert"},
                        kind[s] = "submit", kind[x] = "submit", fb'[x].state = "live"
                 PROVE  s \in looked'[x]
      BY <1>1 DEF LookedSince
    <2>1. s # r /\ pc[s] \in {"count", "insert"}
      BY <1>6 DEF Written
    <2>2. CASE x = r
      BY <1>2, <2>1, <2>2 DEF Looked, Counted
    <2>3. CASE x # r
      BY <1>2, <1>4, <2>1, <2>3 DEF LookedSince
    <2>4. QED
      BY <2>2, <2>3
  <1>12. \A s \in Requests : Counted(s)' => s # r /\ Counted(s) /\ Known(s)' = Known(s)
    <2> SUFFICES ASSUME NEW s \in Requests, Counted(s)'
                 PROVE  s # r /\ Counted(s) /\ Known(s)' = Known(s)
      OBVIOUS
    <2>1. s # r /\ Counted(s)
      BY DEF Counted
    <2>2. s \in counted'[r]
      BY <1>2, <2>1
    <2>3. \A y \in Live : y # r /\ y \in Requests
      BY <1>5 DEF Live
    <2>4. Known(s)' = {y \in Live' : s \notin counted'[y]}
      BY DEF Known
    <2>5. QED
      BY <1>2, <1>5, <2>1, <2>2, <2>3, <2>4 DEF Known
  <1>13. CountedSince'
    BY <1>12 DEF CountedSince
  <1>14. IsFiniteSet(Live)'
    BY <1>5, FS_AddElement
  <1>15. AnyOverLimit'
    <2> SUFFICES ASSUME NEW S \in SUBSET Live', Cardinality(S) > Limit,
                        \A x, y \in S : x \notin counted'[y]
                 PROVE  FALSE
      BY DEF AnyOverLimit
    <2>1. CASE r \notin S
      <3>1. S \in SUBSET Live
        BY <1>5, <2>1
      <3>2. PICK x \in S, y \in S : x \in counted[y]
        BY <3>1 DEF AnyOverLimit
      <3>3. y \in Requests \ {r}
        BY <2>1, <3>1 DEF Live
      <3>4. QED
        BY <1>2, <3>2, <3>3
    <2>2. CASE r \in S
      <3>1. S \ {r} \subseteq Live
        BY <1>5
      <3>2. \A y \in S \ {r} : y \in Requests /\ r \notin counted[y]
        BY <1>2, <2>2, <3>1 DEF Live
      <3>3. S \ {r} \subseteq Known(r)
        BY <3>1, <3>2 DEF Known
      <3>4. Counted(r) /\ IsFiniteSet(Known(r))
        BY FS_Subset DEF Counted, Known
      <3>5. Cardinality(Known(r)) < Limit /\ Cardinality(Known(r)) \in Nat
        BY <3>4, FS_CardinalityType DEF CountedSince
      <3>6. /\ IsFiniteSet(S \ {r})
            /\ Cardinality(S \ {r}) <= Cardinality(Known(r))
            /\ Cardinality(S \ {r}) \in Nat
        BY <3>3, <3>4, FS_Subset, FS_CardinalityType
      <3>7. Cardinality((S \ {r}) \union {r}) = Cardinality(S \ {r}) + 1
        BY <3>6, FS_AddElement
      <3>8. (S \ {r}) \union {r} = S
        BY <2>2
      <3>9. Cardinality(S) = Cardinality(S \ {r}) + 1
        BY <3>7, <3>8
      <3>10. Limit \in Nat /\ Cardinality(S) \in Nat
        BY <3>6, <3>9, LimitAssumption
      <3>11. Cardinality(S) <= Limit
        <4> HIDE DEF Inv, Safe, TypeOK
        <4>1. \A k, n, m \in Nat : k <= n /\ n < Limit /\ m = k + 1 => m <= Limit
          BY <3>10
        <4>2. QED
          BY <3>5, <3>6, <3>9, <3>10, <4>1
      <3>12. \A k \in Nat : ~ (k > Limit /\ k <= Limit)
        BY <3>10
      <3>13. QED
        BY <3>10, <3>11, <3>12
    <2>3. QED
      BY <2>1, <2>2
  <1>16. ChangedSince'
    <2> SUFFICES ASSUME NEW s \in Requests, pc'[s] = "update", fb'[found[s]].rating # old[s]
                 PROVE  \E w \in Requests :
                          found[w] = found[s] /\ kind[w] = "submit" /\ s \in looked'[w]
      BY <1>1 DEF ChangedSince
    <2>1. pc[s] = "update" /\ found[s] \in Requests \ {r}
      BY <1>3, <1>6 DEF FoundIsRow, Written
    <2>2. PICK w \in Requests : found[w] = found[s] /\ kind[w] = "submit" /\ s \in looked[w]
      BY <1>4, <2>1 DEF ChangedSince
    <2>3. QED
      BY <1>2, <1>3, <2>2
  <1>17. DuplicateOnlyFromOverlap'
    <2> SUFFICES ASSUME NEW x \in Reacted', NEW y \in Reacted', x # y,
                        kind[x] = "submit", kind[y] = "submit"
                 PROVE  x \in looked'[y] \/ y \in looked'[x]
      BY <1>1 DEF DuplicateOnlyFromOverlap
    <2>1. \A z \in Reacted' : z = r \/ (z \in Reacted /\ z \in Requests /\ z # r)
      BY <1>1, <1>5 DEF Reacted, Live
    <2>2. \A z \in Reacted : kind[r] = "submit" /\ kind[z] = "submit" => r \in looked[z]
      BY DEF Reacted, Live, LookedSince
    <2>3. QED
      BY <1>2, <2>1, <2>2 DEF DuplicateOnlyFromOverlap
  <1>18. MixedOnlyFromOverlap'
    <2> SUFFICES ASSUME NEW y \in Requests, fb'[y].comment # Nobody,
                        fb'[y].rating # reaction[fb'[y].comment]
                 PROVE  \E w \in Requests :
                          found[w] = y /\ kind[w] = "submit" /\ fb'[y].comment \in looked'[w]
      BY <1>1 DEF MixedOnlyFromOverlap
    <2>1. y # r
      BY <1>4
    <2>2. PICK w \in Requests : found[w] = y /\ kind[w] = "submit" /\ fb[y].comment \in looked[w]
      BY <1>4, <2>1 DEF MixedOnlyFromOverlap
    <2>3. QED
      BY <1>2, <1>3, <1>4, <2>1, <2>2
  <1>19. QED
    BY <1>7, <1>8, <1>9, <1>10, <1>11, <1>13, <1>14, <1>15, <1>16, <1>17, <1>18

-----------------------------------------------------------------------------
LEMMA NextInv == Inv /\ [Next]_vars => Inv'
  <1> SUFFICES ASSUME Inv, [Next]_vars PROVE Inv'
    OBVIOUS
  <1>1. TypeOK'
    BY TypeStep DEF Inv
  <1>2. ASSUME NEW r \in Requests, NEW to, Finish(r, pc[r], to), pc[r] # "idle",
               to \in {"ok", "error", "count", "insert", "upload", "commit", "respond"},
               pc[r] \in Written => to \in Written,
               to \in {"count", "insert"} /\ kind[r] = "submit" =>
                 pc[r] \in {"count", "insert"} \/ Reacted = {},
               to \in {"insert", "upload", "commit"} =>
                 Counted(r) \/ Cardinality(Live) < Limit,
               to \in {"upload", "commit", "respond"} => kind[r] # "submit"
        PROVE  Inv'
    <2>1. pc' = [pc EXCEPT ![r] = to] /\ UNCHANGED <<fb, request, local, history>>
      BY <1>2 DEF Finish, Goto, table
    <2>2. QED
      BY <1>1, <1>2, <2>1, MovingOn
  <1>3. ASSUME NEW r \in Requests, Refuse(r) PROVE Inv'
    BY <1>2, <1>3 DEF Refuse, Finish, Goto, Written
  <1>4. ASSUME NEW r \in Requests, Lookup(r) PROVE Inv'
    <2>1. kind[r] = "submit"
      BY <1>4 DEF Lookup
    <2>2. ASSUME NEW x \in Reacted, Take(r, x, "update") PROVE Inv'
      BY <1>1, <2>1, <2>2, TakeKeepsInv DEF Reacted
    <2>3. ASSUME Reacted = {}, Finish(r, "lookup", "count") PROVE Inv'
      BY <1>2, <2>3 DEF Finish, Goto, Written
    <2>4. ASSUME Finish(r, "lookup", "error") PROVE Inv'
      BY <1>2, <2>4 DEF Finish, Goto, Written
    <2>5. QED
      BY <1>4, <2>2, <2>3, <2>4, Zenon DEF Lookup
  <1>5. ASSUME NEW r \in Requests, LookupToErase(r) \/ LookupById(r) PROVE Inv'
    <2>1. ASSUME NEW x \in Live, Take(r, x, "erase") PROVE Inv'
      BY <1>1, <2>1, TakeKeepsInv
    <2>2. ASSUME NEW a \in {"ok", "error"}, Finish(r, "lookup", a) PROVE Inv'
      BY <1>2, <2>2 DEF Finish, Goto, Written
    <2>3. \/ \E x \in Live : Take(r, x, "erase")
          \/ \E a \in {"ok", "error"} : Finish(r, "lookup", a)
      BY <1>5, Zenon DEF LookupToErase, LookupById, Reacted
    <2>4. QED
      BY <2>1, <2>2, <2>3
  <1>6. ASSUME NEW r \in Requests, Refresh(r) PROVE Inv'
    BY <1>2, <1>6 DEF Refresh, Finish, Goto, Written
  <1>7. ASSUME NEW r \in Requests, Count(r) PROVE Inv'
    <2>1. ASSUME Finish(r, "count", "error") PROVE Inv'
      BY <1>2, <2>1 DEF Finish, Goto, Written
    <2>2. ASSUME Cardinality(Live) < Limit, Finish(r, "count", "insert") PROVE Inv'
      BY <1>2, <2>2 DEF Finish, Goto, Written
    <2>3. QED
      BY <1>7, <2>1, <2>2 DEF Count
  <1>8. ASSUME NEW r \in Requests, Flush(r) PROVE Inv'
    BY <1>2, <1>8 DEF Flush, Finish, Goto, Written, Counted
  <1>9. ASSUME NEW r \in Requests, UploadFails(r) PROVE Inv'
    BY <1>2, <1>9 DEF UploadFails, Finish, Goto, Written
  <1>10. ASSUME NEW r \in Requests, Upload(r) PROVE Inv'
    <2>1. pc[r] = "upload" /\ kind[r] # "submit"
      BY <1>10 DEF Upload, Finish, Goto, Inv, Safe, KindsFit
    <2>2. \E to \in {"commit", "attach"} :
            pc' = [pc EXCEPT ![r] = to] /\ UNCHANGED <<fb, request, local, history>>
      BY <1>10 DEF Upload, Finish, Goto, table
    <2>3. QED
      BY <1>1, <2>1, <2>2, MovingOn DEF Counted, Written
  <1>11. ASSUME NEW r \in Requests, Respond(r) PROVE Inv'
    BY <1>2, <1>11 DEF Respond, Finish, Goto, Written
  <1>12. ASSUME NEW r \in Requests, StatementFails(r) PROVE Inv'
    BY <1>2, <1>12 DEF StatementFails, Underway, Finish, Goto, Written
  <1>13. ASSUME NEW r \in Requests, Insert(r) PROVE Inv'
    <2>1. /\ pc[r] = "insert" /\ pc' = [pc EXCEPT ![r] = "ok"]
          /\ fb' = [fb EXCEPT ![r] = NewRow(r, FALSE)]
          /\ Meet(r) /\ UNCHANGED <<request, local>>
      BY <1>13 DEF Insert, Goto
    <2>2. QED
      BY <1>1, <2>1, StoreKeepsInv
  <1>14. ASSUME NEW r \in Requests, Commit(r) PROVE Inv'
    <2>1. /\ pc[r] \in {"commit", "attach"} /\ pc' = [pc EXCEPT ![r] = "respond"]
          /\ \E b \in BOOLEAN : fb' = [fb EXCEPT ![r] = NewRow(r, b)]
          /\ Meet(r) /\ UNCHANGED <<request, local>>
      BY <1>14, Zenon DEF Commit, Goto
    <2>2. kind[r] # "submit"
      BY <2>1 DEF Inv, Safe, KindsFit
    <2>3. QED
      BY <1>1, <2>1, <2>2, StoreKeepsInv
  <1>15. ASSUME UNCHANGED vars PROVE Inv'
    <2>1. UNCHANGED <<fb, blobs, pc, kind, reaction, found, old, looked, counted>>
      BY <1>15 DEF vars, table, request, local, history
    <2>2. Live' = Live /\ Reacted' = Reacted
          /\ \A s \in Requests : Known(s)' = Known(s) /\ Counted(s)' = Counted(s)
      BY <2>1 DEF Live, Reacted, Known, Counted
    <2>3. QED
      BY <1>1, <2>1, <2>2
      DEF Inv, Safe, WritesOnce, CommentWritten, FoundIsRow, KindsFit, LookedSince, CountedSince,
          AnyOverLimit, ChangedSince, DuplicateOnlyFromOverlap, MixedOnlyFromOverlap
  <1>16. QED
    BY <1>3, <1>4, <1>5, <1>6, <1>7, <1>8, <1>9, <1>10, <1>11, <1>12, <1>13, <1>14, <1>15,
       ReceiveKeepsInv, EraseKeepsInv, UpdateKeepsInv, <1>1
    DEF Next, Work

LEMMA Invariance == Spec => []Inv
  <1>1. Init => Inv
    BY InitInv
  <1>2. Inv /\ [Next]_vars => Inv'
    BY NextInv
  <1>3. QED
    BY <1>1, <1>2, PTL DEF Spec

-----------------------------------------------------------------------------
(* Every variable keeps its type. *)
THEOREM TypeCorrect == Spec => []TypeOK
  <1>1. Inv => TypeOK
    BY DEF Inv
  <1>2. QED
    BY <1>1, Invariance, PTL

(***************************************************************************)
(* Two likes or dislikes of one message come only from requests that       *)
(* overlapped, however many there are.                                     *)
(***************************************************************************)
THEOREM DuplicateOnlyFromOverlapHolds == Spec => []DuplicateOnlyFromOverlap
  <1>1. Inv => DuplicateOnlyFromOverlap
    BY DEF Inv, Safe
  <1>2. QED
    BY <1>1, Invariance, PTL

(* The limit, whatever it is, is exceeded only by two that had both counted before. *)
THEOREM OverLimitOnlyFromOverlapHolds == Spec => []OverLimitOnlyFromOverlap
  <1>1. Inv => OverLimitOnlyFromOverlap
    BY DEF Inv, Safe, AnyOverLimit, OverLimitOnlyFromOverlap
  <1>2. QED
    BY <1>1, Invariance, PTL

(* A comment stands beside another's reaction only if another update came in between. *)
THEOREM MixedOnlyFromOverlapHolds == Spec => []MixedOnlyFromOverlap
  <1>1. Inv => MixedOnlyFromOverlap
    BY DEF Inv, Safe
  <1>2. QED
    BY <1>1, Invariance, PTL

(* No step of any request brings back a row that was deleted. *)
THEOREM DeletedIsFinalHolds == Spec => DeletedIsFinal
  <1>1. ASSUME Inv, [Next]_vars, NEW x \in Requests, fb[x].state = "deleted"
        PROVE  fb'[x].state = "deleted"
    <2> USE DEF Inv, Safe, TypeOK
    <2>1. pc[x] \in Written
      BY <1>1 DEF WritesOnce
    <2>2. ASSUME NEW r \in Requests, Erase(r) PROVE fb'[x].state = "deleted"
      BY <1>1, <2>2 DEF Erase, Rows
    <2>3. ASSUME NEW r \in Requests, Update(r) PROVE fb'[x].state = "deleted"
      <3>1. fb' = [fb EXCEPT ![found[r]] = Updated(r, fb[found[r]])]
        BY <2>3 DEF Update
      <3>2. \A y \in Rows : Updated(r, y).state = y.state
        BY DEF Updated, Rows
      <3>3. QED
        BY <1>1, <3>1, <3>2
    <2>4. ASSUME NEW r \in Requests, Insert(r) \/ Commit(r) PROVE fb'[x].state = "deleted"
      <3>1. pc[r] \notin Written
        BY <2>4 DEF Insert, Commit, Goto, Written
      <3>2. \E v : fb' = [fb EXCEPT ![r] = v]
        BY <2>4, Zenon DEF Insert, Commit
      <3>3. QED
        BY <1>1, <2>1, <3>1, <3>2
    <2>5. ASSUME NEW r \in Requests,
                 Receive(r) \/ Refuse(r) \/ Lookup(r) \/ LookupToErase(r) \/ LookupById(r)
                 \/ Refresh(r) \/ Count(r) \/ Flush(r) \/ Upload(r) \/ UploadFails(r)
                 \/ Respond(r) \/ StatementFails(r)
          PROVE  fb'[x].state = "deleted"
      <3>1. fb' = fb
        BY <2>5, Zenon
        DEF Receive, Refuse, Lookup, LookupToErase, LookupById, Refresh, Count, Flush, Upload,
            UploadFails, Respond, StatementFails, Take, Finish, table
      <3>2. QED
        BY <1>1, <3>1
    <2>6. CASE UNCHANGED vars
      BY <1>1, <2>6 DEF vars, table
    <2>7. QED
      BY <1>1, <2>2, <2>3, <2>4, <2>5, <2>6 DEF Next, Work
  <1>2. Inv /\ [Next]_vars =>
          [\A x \in Requests : fb[x].state = "deleted" => fb'[x].state = "deleted"]_vars
    BY <1>1
  <1>3. QED
    BY <1>2, Invariance, PTL DEF Spec, DeletedIsFinal
=============================================================================
