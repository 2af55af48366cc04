--------------------------- MODULE GroupSyncProofs ---------------------------
(***************************************************************************)
(* Theorems about GroupSync: for any number of logins, however the user's  *)
(* groups change and whatever fails, nobody finds the user without a row,  *)
(* and the row is older than a finished login only through a login that    *)
(* overlapped it.                                                          *)
(***************************************************************************)
EXTENDS GroupSync, TLAPS

USE LoginsAssumption, DirectoryAssumption

(* A login that has not fetched has no groups. *)
NothingFetched == \A r \in Logins : pc[r] \in {"idle", "fetch"} => got[r] = NoGroups

(* What a login fetched is no older than its beginning. *)
FetchedSince ==
  \A r \in Logins :
    /\ asOf[r] <= directory
    /\ pc[r] \in Fetched => got[r] = NoGroups \/ got[r] >= asOf[r]

(* A login commits once. *)
SyncedIsOver == \A r \in synced : pc[r] \notin Fetched \union {"idle", "fetch"}

(* Who fetched after r committed has groups no older than r's beginning. *)
FetchedAfter ==
  \A r \in synced, s \in Logins :
    pc[s] \in Fetched => s \in met[r] \/ got[s] = NoGroups \/ got[s] >= asOf[r]

Inv ==
  /\ TypeOK
  /\ NothingFetched
  /\ FetchedSince
  /\ SyncedIsOver
  /\ FetchedAfter
  /\ OldOnlyFromOverlap

-----------------------------------------------------------------------------
LEMMA InitInv == Init => Inv
  <1> SUFFICES ASSUME Init PROVE Inv
    OBVIOUS
  <1>1. row \in Rows /\ isAdmin \in BOOLEAN
    <2>1. row \in Rows
      <3>1. NoRow \in Rows
        BY DEF Rows
      <3>2. [by |-> Seed, groups |-> 1] \in Rows
        BY DEF Rows, Versions
      <3>3. QED
        BY <3>1, <3>2 DEF Init
    <2>2. isAdmin = IF row.groups \in AdminVersions THEN TRUE ELSE FALSE
      BY Zenon DEF Init
    <2>3. QED
      BY <2>1, <2>2
  <1>2. TypeOK
    <2>1. /\ directory = 1 /\ deleter = Nobody /\ inserter = Nobody
          /\ pc = [r \in Logins |-> "idle"] /\ got = [r \in Logins |-> NoGroups]
          /\ sees = [r \in Logins |-> Nobody]
          /\ asOf = [r \in Logins |-> 1] /\ synced = {} /\ met = [r \in Logins |-> {}]
      BY Zenon DEF Init
    <2>2. /\ loaded \in [Logins -> BOOLEAN] /\ pivot \in [Logins -> BOOLEAN]
          /\ crowded \in BOOLEAN
      BY DEF Init
    <2>3. /\ directory \in Versions /\ asOf \in [Logins -> Versions]
          /\ got \in [Logins -> Versions \union {NoGroups}]
      BY <2>1 DEF Versions, NoGroups
    <2>4. /\ deleter \in Logins \union {Nobody} /\ inserter \in Logins \union {Nobody}
          /\ sees \in [Logins -> Logins \union {Seed, Nobody}]
          /\ synced \subseteq Logins /\ met \in [Logins -> SUBSET Logins]
      BY <2>1
    <2>5. pc \in [Logins -> Sync \union Checks \union {"idle", "fetch", "done", "unchecked", "crashed"}]
      BY <2>1
    <2>6. QED
      BY <1>1, <2>2, <2>3, <2>4, <2>5, Zenon DEF TypeOK
  <1>3. NothingFetched /\ FetchedSince /\ SyncedIsOver /\ FetchedAfter /\ OldOnlyFromOverlap
    BY DEF Init, NothingFetched, FetchedSince, SyncedIsOver, FetchedAfter, OldOnlyFromOverlap, Fetched
  <1>4. QED
    BY <1>2, <1>3 DEF Inv

LEMMA TypeStep == TypeOK /\ [Next]_vars => TypeOK'
  <1> SUFFICES ASSUME TypeOK, [Next]_vars PROVE TypeOK'
    OBVIOUS
  <1> USE DEF TypeOK, Versions, NoGroups, NoRow, Rows, Sync, Checks, Fetched, Goto, Release
  <1>0. ASSUME NEW r \in Logins, Fail(r) PROVE TypeOK'
    BY <1>0 DEF Fail, local, history
  <1>1. ASSUME NEW r \in Logins, Load(r) PROVE TypeOK'
    BY <1>1 DEF Load, table, local
  <1>2. ASSUME NEW r \in Logins, Fetch(r) PROVE TypeOK'
    BY <1>2 DEF Fetch, table, history
  <1>3. ASSUME NEW r \in Logins, FetchFails(r) \/ FetchRefused(r) PROVE TypeOK'
    BY <1>3 DEF FetchFails, FetchRefused, table, local, history
  <1>4. ASSUME NEW r \in Logins, BeginDelete(r) PROVE TypeOK'
    BY <1>4 DEF BeginDelete, table, history
  <1>5. ASSUME NEW r \in Logins, EndDelete(r) PROVE TypeOK'
    BY <1>5 DEF EndDelete, local, history
  <1>6. ASSUME NEW r \in Logins, Insert(r) PROVE TypeOK'
    <2>1. CASE Fail(r)
      BY <1>0, <2>1
    <2>2. CASE /\ pc' = [pc EXCEPT ![r] = "commit"]
               /\ inserter' = r
               /\ UNCHANGED <<directory, row, deleter, isAdmin, local, history>>
      BY <2>2 DEF local, history
    <2>3. QED
      BY <1>6, <2>1, <2>2 DEF Insert
  <1>7. ASSUME NEW r \in Logins, Commit(r) PROVE TypeOK'
    BY <1>7 DEF Commit, local
  <1>8. ASSUME NEW r \in Logins, Refresh(r) PROVE TypeOK'
    <2>1. CASE Fail(r)
      BY <1>0, <2>1
    <2>2. CASE /\ pc' = [pc EXCEPT ![r] = "check"]
               /\ pivot' = [pivot EXCEPT ![r] = TRUE]
               /\ UNCHANGED <<directory, table, isAdmin, loaded, got, sees, history>>
      BY <2>2 DEF table, history
    <2>3. QED
      BY <1>8, <2>1, <2>2 DEF Refresh
  <1>9. ASSUME NEW r \in Logins, Reload(r) PROVE TypeOK'
    BY <1>9 DEF Reload, table, history
  <1>10. ASSUME NEW r \in Logins, Compare(r) PROVE TypeOK'
    <2>1. isAdmin' \in BOOLEAN
      BY <1>10 DEF Compare
    <2>2. /\ pc' = [pc EXCEPT ![r] = "done"]
          /\ UNCHANGED <<directory, table, local, history>>
      BY <1>10, Zenon DEF Compare
    <2>3. QED
      BY <2>1, <2>2 DEF table, local, history
  <1>11. ASSUME NEW r \in Logins, StatementFails(r) PROVE TypeOK'
    <2>1. CASE Fail(r)
      BY <1>0, <2>1
    <2>2. CASE CheckFails(r)
      BY <2>2 DEF CheckFails, table, local, history
    <2>3. QED
      BY <1>11, <2>1, <2>2 DEF StatementFails
  <1>12. ASSUME NEW r \in Logins, Crash(r) PROVE TypeOK'
    BY <1>12 DEF Crash, local, history
  <1>13. CASE DirectoryChanges
    BY <1>13 DEF DirectoryChanges, table, local, history
  <1>14. CASE UNCHANGED vars
    BY <1>14 DEF vars, table, local, history
  <1>15. QED
    BY <1>1, <1>2, <1>3, <1>4, <1>5, <1>6, <1>7, <1>8, <1>9, <1>10, <1>11, <1>12, <1>13, <1>14
       DEF Next, QuietNext, Work

(***************************************************************************)
(* A step that leaves the row, the groups fetched and the histories alone, *)
(* and moves one login on without making it hold uncommitted groups that   *)
(* it did not hold, keeps the invariant.                                   *)
(***************************************************************************)
LEMMA MovingOn ==
  ASSUME Inv, TypeOK', NEW r \in Logins, NEW to,
         pc' = [pc EXCEPT ![r] = to],
         to \notin {"idle", "fetch"},
         to \in Fetched => pc[r] \in Fetched,
         UNCHANGED <<directory, row, got, asOf, synced, met>>
  PROVE  Inv'
  <1> USE DEF Inv, TypeOK
  <1>1. NothingFetched'
    BY DEF NothingFetched
  <1>2. FetchedSince'
    BY DEF FetchedSince
  <1>3. SyncedIsOver'
    BY DEF SyncedIsOver
  <1>4. FetchedAfter'
    BY DEF FetchedAfter
  <1>5. OldOnlyFromOverlap'
    BY DEF OldOnlyFromOverlap
  <1>6. QED
    BY <1>1, <1>2, <1>3, <1>4, <1>5

(* The commit: the new row is as good as what its login holds. *)
LEMMA CommitKeepsInv ==
  ASSUME Inv, TypeOK', NEW r \in Logins, Commit(r)
  PROVE  Inv'
  <1> USE DEF Inv, TypeOK
  <1>1. /\ pc[r] = "commit"
        /\ pc' = [pc EXCEPT ![r] = "refresh"]
        /\ row' = [by |-> r, groups |-> got[r]]
        /\ synced' = synced \union {r}
        /\ met' = [met EXCEPT ![r] = {s \in Logins \ {r} : pc[s] \in Fetched}]
        /\ UNCHANGED <<directory, got, asOf>>
    BY DEF Commit, Goto, local
  <1>2. pc[r] \in Fetched /\ r \notin synced
    BY <1>1 DEF Fetched, SyncedIsOver
  <1>3. NothingFetched'
    BY <1>1 DEF NothingFetched
  <1>4. FetchedSince'
    BY <1>1 DEF FetchedSince, Fetched
  <1>5. SyncedIsOver'
    BY <1>1 DEF SyncedIsOver, Fetched
  <1>6. FetchedAfter'
    <2> SUFFICES ASSUME NEW a \in synced', NEW s \in Logins, pc'[s] \in Fetched
                 PROVE  s \in met'[a] \/ got[s] = NoGroups \/ got[s] >= asOf[a]
      BY <1>1 DEF FetchedAfter
    <2>1. s # r /\ pc[s] \in Fetched
      BY <1>1 DEF Fetched
    <2>2. CASE a = r
      BY <1>1, <2>1, <2>2
    <2>3. CASE a # r
      BY <1>1, <2>1, <2>3 DEF FetchedAfter
    <2>4. QED
      BY <2>2, <2>3
  <1>7. OldOnlyFromOverlap'
    <2> SUFFICES ASSUME NEW a \in synced'
                 PROVE  got[r] >= asOf[a] \/ got[r] = NoGroups \/ r \in met'[a]
      BY <1>1 DEF OldOnlyFromOverlap
    <2>1. CASE a = r
      BY <1>2, <2>1 DEF FetchedSince
    <2>2. CASE a # r
      BY <1>1, <1>2, <2>2 DEF FetchedAfter
    <2>3. QED
      BY <2>1, <2>2
  <1>8. QED
    BY <1>3, <1>4, <1>5, <1>6, <1>7

LEMMA NextInv == Inv /\ [Next]_vars => Inv'
  <1> SUFFICES ASSUME Inv, [Next]_vars PROVE Inv'
    OBVIOUS
  <1>0. TypeOK /\ TypeOK'
    BY TypeStep DEF Inv
  <1>1. ASSUME NEW r \in Logins, Load(r) PROVE Inv'
    <2> USE <1>0, <1>1 DEF Load, Goto, table, local, TypeOK, Inv, Versions
    <2>1. NothingFetched'
      BY DEF NothingFetched
    <2>2. FetchedSince'
      BY DEF FetchedSince, Fetched
    <2>3. r \notin synced
      BY DEF SyncedIsOver
    <2>4. SyncedIsOver'
      BY <2>3 DEF SyncedIsOver
    <2>5. FetchedAfter'
      BY <2>3 DEF FetchedAfter, Fetched
    <2>6. OldOnlyFromOverlap'
      BY <2>3 DEF OldOnlyFromOverlap
    <2>7. QED
      BY <2>1, <2>2, <2>4, <2>5, <2>6
  <1>2. ASSUME NEW r \in Logins, Fetch(r) \/ FetchFails(r) PROVE Inv'
    <2>1. /\ pc[r] = "fetch"
          /\ pc' = [pc EXCEPT ![r] = "delete"]
          /\ \A s \in Logins \ {r} : got'[s] = got[s]
          /\ got'[r] = directory \/ got'[r] = NoGroups
          /\ UNCHANGED <<directory, row, asOf, synced, met>>
      BY <1>0, <1>2 DEF Fetch, FetchFails, Goto, table, local, history, TypeOK, Inv, NothingFetched
    <2> USE <1>0, <2>1 DEF TypeOK, Inv, Versions, NoGroups
    <2>2. r \notin synced
      BY DEF SyncedIsOver
    <2>3. NothingFetched'
      BY DEF NothingFetched
    <2>4. FetchedSince'
      BY DEF FetchedSince, Fetched
    <2>5. SyncedIsOver'
      BY <2>2 DEF SyncedIsOver
    <2>6. FetchedAfter'
      <3> SUFFICES ASSUME NEW a \in synced, NEW s \in Logins, pc'[s] \in Fetched
                   PROVE  s \in met[a] \/ got'[s] = NoGroups \/ got'[s] >= asOf[a]
        BY DEF FetchedAfter
      <3>1. CASE s = r
        BY <3>1 DEF FetchedSince
      <3>2. CASE s # r
        BY <3>2 DEF FetchedAfter
      <3>3. QED
        BY <3>1, <3>2
    <2>7. OldOnlyFromOverlap'
      BY DEF OldOnlyFromOverlap
    <2>8. QED
      BY <2>3, <2>4, <2>5, <2>6, <2>7
  <1>3. ASSUME NEW r \in Logins, FetchRefused(r) PROVE Inv'
    BY <1>0, <1>3, MovingOn DEF FetchRefused, Goto, table, local, history, Fetched
  <1>4. ASSUME NEW r \in Logins, BeginDelete(r) PROVE Inv'
    BY <1>0, <1>4, MovingOn DEF BeginDelete, Goto, table, history, Fetched
  <1>5. ASSUME NEW r \in Logins, EndDelete(r) PROVE Inv'
    BY <1>0, <1>5, MovingOn DEF EndDelete, Goto, local, history, Fetched
  <1>6. ASSUME NEW r \in Logins, Fail(r) PROVE Inv'
    BY <1>0, <1>6, MovingOn DEF Fail, local, history, Fetched
  <1>7. ASSUME NEW r \in Logins, Insert(r) PROVE Inv'
    BY <1>0, <1>6, <1>7, MovingOn DEF Insert, Goto, local, history, Fetched
  <1>8. ASSUME NEW r \in Logins, Commit(r) PROVE Inv'
    BY <1>0, <1>8, CommitKeepsInv
  <1>9. ASSUME NEW r \in Logins, Refresh(r) PROVE Inv'
    BY <1>0, <1>6, <1>9, MovingOn DEF Refresh, Goto, table, local, history, Fetched
  <1>10. ASSUME NEW r \in Logins, Reload(r) \/ Compare(r) PROVE Inv'
    BY <1>0, <1>10, MovingOn DEF Reload, Compare, Goto, table, local, history, Fetched
  <1>11. ASSUME NEW r \in Logins, StatementFails(r) PROVE Inv'
    <2>1. CASE Fail(r)
      BY <1>6, <2>1
    <2>2. CASE CheckFails(r)
      BY <1>0, <2>2, MovingOn DEF CheckFails, table, local, history, Fetched
    <2>3. QED
      BY <1>11, <2>1, <2>2 DEF StatementFails
  <1>12. ASSUME NEW r \in Logins, Crash(r) PROVE Inv'
    BY <1>0, <1>12, MovingOn DEF Crash, local, history, Fetched
  <1>14. CASE DirectoryChanges
    <2> USE <1>0, <1>14 DEF DirectoryChanges, table, local, history, TypeOK, Inv, Versions
    <2>1. NothingFetched' /\ SyncedIsOver' /\ FetchedAfter' /\ OldOnlyFromOverlap'
      BY DEF NothingFetched, SyncedIsOver, FetchedAfter, OldOnlyFromOverlap
    <2>2. FetchedSince'
      BY DEF FetchedSince
    <2>3. QED
      BY <2>1, <2>2
  <1>15. CASE UNCHANGED vars
    BY <1>0, <1>15 DEF vars, table, local, history, Inv, NothingFetched, FetchedSince,
       SyncedIsOver, FetchedAfter, OldOnlyFromOverlap
  <1>16. QED
    BY <1>1, <1>2, <1>3, <1>4, <1>5, <1>7, <1>8, <1>9, <1>10, <1>11, <1>12, <1>14, <1>15
       DEF Next, QuietNext, Work

LEMMA Invariance == Spec => []Inv
  BY InitInv, NextInv, PTL DEF Spec

-----------------------------------------------------------------------------
(* Logins that do not overlap *)

(* A login that has not committed, or has been answered with its groups. *)
Undisturbing(s) ==
  \/ pc[s] \in Fetched \union {"idle", "fetch"}
  \/ pc[s] = "done" /\ pivot[s]

(* A login that has a user_pivot has committed and goes through the check, or has. *)
PivotIsLate ==
  \A r \in Logins : pivot[r] => pc[r] \in Checks \union {"done", "unchecked", "crashed"}

(* One login is under way; once it has committed, the row holds its groups; and as long  *)
(* as no commit waits for its check, is_admin is the row's.                              *)
Alone ==
  ~crowded =>
    /\ \A r, s \in Logins : Underway(r) /\ Underway(s) => r = s
    /\ \A r \in Logins :
         /\ pc[r] = "refresh" \/ (pc[r] \in Checks /\ pivot[r]) => row.groups = got[r]
         /\ pc[r] = "compare" => loaded[r] = isAdmin
    /\ (\A s \in Logins : Undisturbing(s)) => (isAdmin <=> row.groups \in AdminVersions)

AloneInv == TypeOK /\ PivotIsLate /\ Alone

LEMMA InitAlone == Init => AloneInv
  <1> SUFFICES ASSUME Init PROVE AloneInv
    OBVIOUS
  <1>1. TypeOK
    BY InitInv DEF Inv
  <1>2. isAdmin <=> row.groups \in AdminVersions
    <2>1. isAdmin = IF row.groups \in AdminVersions THEN TRUE ELSE FALSE
      BY Zenon DEF Init
    <2>2. QED
      BY <2>1
  <1>3. pc = [r \in Logins |-> "idle"] /\ pivot = [r \in Logins |-> FALSE]
    BY Zenon DEF Init
  <1>4. PivotIsLate /\ Alone
    BY <1>2, <1>3 DEF PivotIsLate, Alone, Underway, Sync, Fetched, Checks
  <1>5. QED
    BY <1>1, <1>4 DEF AloneInv

(* A step of a login under way, as far as Alone sees it. *)
LEMMA AloneMoves ==
  ASSUME AloneInv, TypeOK', NEW r \in Logins, NEW to,
         pc' = [pc EXCEPT ![r] = to], Underway(r), UNCHANGED crowded,
         \A s \in Logins \ {r} : got'[s] = got[s] /\ loaded'[s] = loaded[s] /\ pivot'[s] = pivot[s],
         pivot'[r] => to \in Checks \union {"done", "unchecked", "crashed"},
         ~crowded => (to = "refresh" \/ (to \in Checks /\ pivot'[r]) => row'.groups = got'[r]),
         ~crowded => (to = "compare" => loaded'[r] = isAdmin'),
         ~crowded /\ (\A s \in Logins \ {r} : Undisturbing(s)) /\ Undisturbing(r)'
         => (isAdmin' <=> row'.groups \in AdminVersions)
  PROVE  AloneInv'
  <1> USE DEF AloneInv, TypeOK
  <1>1. pc'[r] = to /\ \A s \in Logins \ {r} : pc'[s] = pc[s]
    OBVIOUS
  <1>2. PivotIsLate'
    BY <1>1 DEF PivotIsLate
  <1>3. ASSUME ~crowded PROVE \A s \in Logins \ {r} : ~Underway(s) /\ ~Underway(s)'
    BY <1>1, <1>3 DEF Alone, Underway
  <1>4. ASSUME ~crowded PROVE \A s, t \in Logins : Underway(s)' /\ Underway(t)' => s = t
    BY <1>3, <1>4
  <1>5. ASSUME ~crowded, NEW s \in Logins
        PROVE  /\ pc'[s] = "refresh" \/ (pc'[s] \in Checks /\ pivot'[s]) => row'.groups = got'[s]
               /\ pc'[s] = "compare" => loaded'[s] = isAdmin'
    <2>1. CASE s = r
      BY <1>1, <1>5, <2>1
    <2>2. CASE s # r
      BY <1>1, <1>3, <1>5, <2>2 DEF Underway, Sync, Checks
    <2>3. QED
      BY <2>1, <2>2
  <1>6. ASSUME ~crowded, \A s \in Logins : Undisturbing(s)'
        PROVE  isAdmin' <=> row'.groups \in AdminVersions
    <2>1. \A s \in Logins \ {r} : Undisturbing(s)
      BY <1>1, <1>6 DEF Undisturbing
    <2>2. QED
      BY <1>6, <2>1
  <1>7. Alone'
    BY <1>4, <1>5, <1>6 DEF Alone
  <1>8. QED
    BY <1>2, <1>7

(* A step that changes only where the login is, and leads it on before the commit or *)
(* away from being answered with its groups.                                         *)
LEMMA AloneStays ==
  ASSUME AloneInv, TypeOK', NEW r \in Logins, NEW to,
         pc' = [pc EXCEPT ![r] = to], Underway(r),
         UNCHANGED <<row, isAdmin, loaded, pivot, crowded>>,
         \A s \in Logins \ {r} : got'[s] = got[s],
         \/ to \in Fetched /\ pc[r] \in Fetched \union {"fetch"}
         \/ to = "check" /\ pc[r] \in {"fetch"} \union Sync
         \/ to \in {"unchecked", "crashed"}
  PROVE  AloneInv'
  <1> USE DEF AloneInv, TypeOK
  <1>1. pc'[r] = to
    OBVIOUS
  <1>2. pivot[r] => to \in {"unchecked", "crashed"}
    BY DEF PivotIsLate, Fetched, Sync, Checks
  <1>3. Undisturbing(r)' => Undisturbing(r)
    BY <1>1 DEF Undisturbing, Fetched, Sync
  <1>4. (\A s \in Logins \ {r} : Undisturbing(s)) /\ Undisturbing(r)'
        => \A s \in Logins : Undisturbing(s)
    BY <1>3
  <1>5. to \notin {"refresh", "compare"}
    BY DEF Fetched
  <1>6. ~crowded /\ (\A s \in Logins \ {r} : Undisturbing(s)) /\ Undisturbing(r)'
        => (isAdmin' <=> row'.groups \in AdminVersions)
    BY <1>4 DEF Alone
  <1>7. to \in Checks /\ pivot'[r] => FALSE
    BY <1>2 DEF Checks
  <1>8. QED
    BY <1>2, <1>5, <1>6, <1>7, AloneMoves

LEMMA AloneStep == AloneInv /\ [Next]_vars => AloneInv'
  <1> SUFFICES ASSUME AloneInv, [Next]_vars PROVE AloneInv'
    OBVIOUS
  <1>0. TypeOK /\ TypeOK'
    BY TypeStep DEF AloneInv
  <1>1. ASSUME NEW r \in Logins, Load(r) PROVE AloneInv'
    <2>1. /\ pc[r] = "idle" /\ pc' = [pc EXCEPT ![r] = "fetch"]
          /\ crowded' = (crowded \/ \E s \in Logins : Underway(s))
          /\ UNCHANGED <<row, isAdmin, loaded, got, pivot>>
      BY <1>1 DEF Load, Goto, table, local
    <2>2. pc'[r] = "fetch" /\ \A s \in Logins \ {r} : pc'[s] = pc[s]
      BY <1>0, <2>1 DEF TypeOK
    <2>3. PivotIsLate'
      BY <2>1, <2>2 DEF AloneInv, PivotIsLate, Checks
    <2>4. ASSUME ~crowded' PROVE ~crowded /\ \A s \in Logins : ~Underway(s)
      BY <2>1, <2>4
    <2>5. ASSUME ~crowded' PROVE \A s \in Logins \ {r} : ~Underway(s)'
      BY <2>2, <2>4, <2>5 DEF Underway
    <2>6. ASSUME ~crowded', NEW s \in Logins
          PROVE  pc'[s] \notin {"refresh"} \union Checks
      BY <2>2, <2>4, <2>6 DEF Underway, Sync, Checks
    <2>7. ASSUME \A s \in Logins : Undisturbing(s)' PROVE \A s \in Logins : Undisturbing(s)
      BY <2>1, <2>2, <2>7 DEF Undisturbing
    <2>8. Alone'
      BY <2>1, <2>4, <2>5, <2>6, <2>7 DEF AloneInv, Alone, Checks
    <2>9. QED
      BY <1>0, <2>3, <2>8 DEF AloneInv
  <1>2. ASSUME NEW r \in Logins, Fail(r), pc[r] \in Sync PROVE AloneInv'
    BY <1>0, <1>2, AloneStays DEF Fail, local, history, Underway
  <1>3. ASSUME NEW r \in Logins, Fetch(r) \/ FetchFails(r) PROVE AloneInv'
    <2>1. /\ pc[r] = "fetch" /\ pc' = [pc EXCEPT ![r] = "delete"]
          /\ \A s \in Logins \ {r} : got'[s] = got[s]
          /\ UNCHANGED <<row, isAdmin, loaded, pivot, crowded>>
      BY <1>0, <1>3 DEF Fetch, FetchFails, Goto, table, local, history, TypeOK
    <2>2. Underway(r) /\ "delete" \in Fetched
      BY <2>1 DEF Underway, Fetched
    <2>3. QED
      BY <1>0, <2>1, <2>2, AloneStays
  <1>4. ASSUME NEW r \in Logins, FetchRefused(r) PROVE AloneInv'
    BY <1>0, <1>4, AloneStays DEF FetchRefused, Goto, table, local, history, Underway
  <1>5. ASSUME NEW r \in Logins, BeginDelete(r) \/ EndDelete(r) PROVE AloneInv'
    <2>1. /\ pc[r] \in Fetched
          /\ \E to \in Fetched : pc' = [pc EXCEPT ![r] = to]
          /\ UNCHANGED <<row, isAdmin, loaded, got, pivot, crowded>>
      BY <1>5 DEF BeginDelete, EndDelete, Goto, table, local, history, Fetched
    <2>2. Underway(r)
      BY <2>1 DEF Underway, Sync
    <2>3. QED
      BY <1>0, <2>1, <2>2, AloneStays
  <1>6. ASSUME NEW r \in Logins, Insert(r) PROVE AloneInv'
    <2>1. CASE Goto(r, "insert", "commit") /\ UNCHANGED <<row, isAdmin, local, history>>
      BY <1>0, <2>1, AloneStays DEF Goto, local, history, Fetched, Sync, Underway
    <2>2. CASE pc[r] = "insert" /\ Fail(r)
      BY <1>2, <2>2 DEF Sync, Fetched
    <2>3. QED
      BY <1>6, <2>1, <2>2 DEF Insert
  <1>7. ASSUME NEW r \in Logins, Commit(r) PROVE AloneInv'
    <2>1. /\ pc[r] = "commit" /\ pc' = [pc EXCEPT ![r] = "refresh"]
          /\ row' = [by |-> r, groups |-> got[r]]
          /\ UNCHANGED <<isAdmin, loaded, got, pivot, crowded>>
      BY <1>7 DEF Commit, Goto, local
    <2>2. Underway(r) /\ ~pivot[r]
      BY <1>0, <2>1 DEF Underway, Sync, Fetched, AloneInv, PivotIsLate, Checks, TypeOK
    <2>3. ~Undisturbing(r)'
      BY <1>0, <2>1 DEF Undisturbing, Fetched, TypeOK
    <2>4. row'.groups = got'[r]
      BY <2>1
    <2>5. QED
      BY <1>0, <2>1, <2>2, <2>3, <2>4, AloneMoves
  <1>8. ASSUME NEW r \in Logins, Refresh(r) PROVE AloneInv'
    <2>1. CASE pc[r] = "refresh" /\ Fail(r)
      BY <1>2, <2>1 DEF Sync
    <2>2. CASE /\ pc[r] = "refresh" /\ pc' = [pc EXCEPT ![r] = "check"]
               /\ pivot' = [pivot EXCEPT ![r] = TRUE]
               /\ UNCHANGED <<row, isAdmin, loaded, got, crowded>>
      <3>1. Underway(r) /\ "check" \in Checks
        BY <2>2 DEF Underway, Sync, Checks
      <3>2. ~Undisturbing(r)'
        BY <1>0, <2>2 DEF Undisturbing, Fetched, TypeOK
      <3>3. ~crowded => row'.groups = got'[r]
        BY <2>2 DEF AloneInv, Alone
      <3>4. \A s \in Logins \ {r} : pivot'[s] = pivot[s]
        BY <1>0, <2>2 DEF TypeOK
      <3>5. QED
        BY <1>0, <2>2, <3>1, <3>2, <3>3, <3>4, AloneMoves
    <2>3. QED
      BY <1>8, <2>1, <2>2 DEF Refresh, Goto, table, history
  <1>9. ASSUME NEW r \in Logins, Reload(r) PROVE AloneInv'
    <2>1. /\ pc[r] = "check" /\ pc' = [pc EXCEPT ![r] = "compare"]
          /\ loaded' = [loaded EXCEPT ![r] = isAdmin]
          /\ UNCHANGED <<row, isAdmin, got, pivot, crowded>>
      BY <1>9 DEF Reload, Goto, table, history
    <2>2. Underway(r) /\ "compare" \in Checks /\ "check" \in Checks
      BY <2>1 DEF Underway, Checks
    <2>3. ~Undisturbing(r)'
      BY <1>0, <2>1 DEF Undisturbing, Fetched, TypeOK
    <2>4. loaded'[r] = isAdmin /\ \A s \in Logins \ {r} : loaded'[s] = loaded[s]
      BY <1>0, <2>1 DEF TypeOK
    <2>5. ~crowded => (pivot[r] => row.groups = got[r])
      BY <2>1, <2>2 DEF AloneInv, Alone
    <2>6. QED
      BY <1>0, <2>1, <2>2, <2>3, <2>4, <2>5, AloneMoves
  <1>10. ASSUME NEW r \in Logins, Compare(r) PROVE AloneInv'
    <2>1. /\ pc[r] = "compare" /\ pc' = [pc EXCEPT ![r] = "done"]
          /\ UNCHANGED <<row, loaded, got, pivot, crowded>>
      BY <1>10 DEF Compare, Goto, table, local, history
    <2>2. Underway(r) /\ "compare" \in Checks
      BY <2>1 DEF Underway, Checks
    <2>3. Undisturbing(r)' => pivot[r]
      BY <1>0, <2>1 DEF Undisturbing, Fetched, TypeOK
    <2>4. ~crowded /\ pivot[r] => row.groups = got[r]
      BY <2>1, <2>2 DEF AloneInv, Alone
    <2>5. ~crowded => loaded[r] = isAdmin
      BY <2>1 DEF AloneInv, Alone
    <2>6. ~crowded => (isAdmin' <=> Wanted(r))
      BY <1>10, <2>5 DEF Compare
    <2>7. ~crowded /\ Undisturbing(r)' => (isAdmin' <=> row'.groups \in AdminVersions)
      BY <2>1, <2>3, <2>4, <2>6 DEF Wanted
    <2>8. QED
      BY <1>0, <2>1, <2>2, <2>7, AloneMoves DEF Checks
  <1>11. ASSUME NEW r \in Logins, StatementFails(r) PROVE AloneInv'
    <2>1. CASE pc[r] \in Sync /\ Fail(r)
      BY <1>2, <2>1
    <2>2. CASE CheckFails(r)
      BY <1>0, <2>2, AloneStays DEF CheckFails, table, local, history, Underway
    <2>3. QED
      BY <1>11, <2>1, <2>2 DEF StatementFails
  <1>12. ASSUME NEW r \in Logins, Crash(r) PROVE AloneInv'
    BY <1>0, <1>12, AloneStays DEF Crash, local, history
  <1>13. CASE DirectoryChanges \/ UNCHANGED vars
    <2>1. UNCHANGED <<row, isAdmin, pc, loaded, got, pivot, crowded>>
      BY <1>13 DEF DirectoryChanges, vars, table, local, history
    <2>2. PivotIsLate' /\ Alone'
      BY <2>1 DEF AloneInv, PivotIsLate, Alone, Underway, Undisturbing
    <2>3. QED
      BY <1>0, <2>2 DEF AloneInv
  <1>14. QED
    BY <1>1, <1>3, <1>4, <1>5, <1>6, <1>7, <1>8, <1>9, <1>10, <1>11, <1>12, <1>13
       DEF Next, QuietNext, Work

-----------------------------------------------------------------------------
(* Every variable of a login and of the row keeps its type. *)
THEOREM TypeCorrect == Spec => []TypeOK
  <1>1. Inv => TypeOK
    BY DEF Inv
  <1>2. QED
    BY Invariance, <1>1, PTL

(***************************************************************************)
(* The row is no older than a login that has committed its groups, but for *)
(* a login that overlapped that commit, or whose fetch failed.             *)
(***************************************************************************)
THEOREM OldOnlyFromOverlapHolds == Spec => []OldOnlyFromOverlap
  <1>1. Inv => OldOnlyFromOverlap
    BY DEF Inv
  <1>2. QED
    BY Invariance, <1>1, PTL

(***************************************************************************)
(* Logins that come one after the other and get through leave is_admin as  *)
(* the row has it, whichever way the groups change in between: the check   *)
(* compares what it has just read with the groups it has just committed.   *)
(***************************************************************************)
THEOREM AloneIsConsistentHolds == Spec => []AloneIsConsistent
  <1>1. AloneInv => AloneIsConsistent
    <2> SUFFICES ASSUME AloneInv, ~crowded,
                        \A r \in Logins : pc[r] = "idle" \/ (pc[r] = "done" /\ pivot[r])
                 PROVE  isAdmin = (row.groups \in AdminVersions)
      BY DEF AloneIsConsistent
    <2>1. isAdmin <=> row.groups \in AdminVersions
      BY DEF AloneInv, Alone, Undisturbing
    <2>2. isAdmin \in BOOLEAN
      BY DEF AloneInv, TypeOK
    <2>3. QED
      BY <2>1, <2>2, Zenon
  <1>2. Spec => []AloneInv
    BY InitAlone, AloneStep, PTL DEF Spec
  <1>3. QED
    BY <1>1, <1>2, PTL

(* No step takes the user's row away without putting one in its place. *)
THEOREM RowNeverVanishesHolds == Spec => RowNeverVanishes
  <1>1. [Next]_vars => [row # NoRow => row' # NoRow]_vars
    <2> SUFFICES ASSUME Next, row # NoRow PROVE row' # NoRow
      OBVIOUS
    <2>1. ASSUME NEW r \in Logins, Commit(r) PROVE row' # NoRow
      BY <2>1 DEF Commit, NoRow
    <2>2. ASSUME NEW r \in Logins, Fail(r) PROVE row' = row
      BY <2>2 DEF Fail
    <2>3. UNCHANGED row \/ \E r \in Logins : Commit(r)
      BY <2>2 DEF Next, QuietNext, Work, DirectoryChanges, Load, Fetch, FetchFails,
         FetchRefused, BeginDelete, EndDelete, Insert, Refresh, Reload, Compare, CheckFails,
         StatementFails, Crash, table
    <2>4. QED
      BY <2>1, <2>3
  <1>2. QED
    BY <1>1, PTL DEF Spec, RowNeverVanishes
=============================================================================
