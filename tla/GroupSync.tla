------------------------------ MODULE GroupSync ------------------------------
(***************************************************************************)
(* What a login does with the user's Azure AD groups (routes/auth.py): it  *)
(* fetches them from Microsoft Graph, replaces the user's row of           *)
(* rbac_user_pivot with them (services/rbac_pivot_service.py: DELETE,      *)
(* INSERT, COMMIT) and sets users.is_admin from them.  The row decides     *)
(* which agents the user may use.                                          *)
(*                                                                         *)
(* Several logins of one user interleave; other users have other rows.     *)
(* PostgreSQL is READ COMMITTED: a DELETE sees the row that was committed  *)
(* when it started, waits for a transaction that is deleting it, and       *)
(* deletes nothing if that one committed; an INSERT waits for an open      *)
(* transaction that deletes or inserts the same email, and fails if a row  *)
(* with it remains.                                                        *)
(*                                                                         *)
(* A statement of the sync that fails is rolled back and swallowed, and    *)
(* the login goes on without groups, as it does when Graph refuses it.     *)
(* The session is closed after the user is updated, so the admin check     *)
(* reads is_admin anew.                                                    *)
(*                                                                         *)
(* The user's groups are numbered in the order Azure AD has them.          *)
(***************************************************************************)
EXTENDS Integers

CONSTANTS
  Logins,         \* requests that log the user in
  Nobody,         \* no login
  Seed,           \* the login, before the model starts, that wrote the first row
  AdminVersions,  \* versions of the groups with one of the admin groups
  MaxDirectory    \* bound: the last version of the groups

ASSUME LoginsAssumption    == Nobody \notin Logins /\ Seed \notin Logins /\ Seed # Nobody
ASSUME DirectoryAssumption == MaxDirectory \in Nat \ {0}
ASSUME AdminAssumption     == AdminVersions \subseteq 1..MaxDirectory

VARIABLES
  directory,  \* the version of the groups in Azure AD
  row,        \* the committed row: the groups, and the login that inserted it
  deleter,    \* the login whose open transaction has deleted the row
  inserter,   \* the login whose open transaction has inserted a new row
  isAdmin,    \* users.is_admin
  pc,         \* pc[r]: the next step of r
  loaded,     \* loaded[r]: is_admin as r's admin check has read it
  got,        \* got[r]: the groups r got from Graph
  sees,       \* sees[r]: the row r's DELETE found
  pivot,      \* pivot[r]: r has a user_pivot: its sync went through
  asOf,       \* history: asOf[r], the directory when r began
  synced,     \* history: the logins that have committed their groups
  met,        \* history: met[r], who had fetched and not committed when r committed
  crowded     \* history: two logins have overlapped

table   == <<row, deleter, inserter>>
local   == <<loaded, got, sees, pivot>>
history == <<asOf, synced, met, crowded>>
vars == <<directory, table, isAdmin, pc, local, history>>

Versions == 1..MaxDirectory

NoGroups == 0   \* Graph could not be reached: an empty list

NoRow == [by |-> Nobody, groups |-> NoGroups]

Rows == [by : Logins \union {Seed}, groups : Versions \union {NoGroups}] \union {NoRow}

(* Where a login holds groups it has not committed; the statements of the sync and the check. *)
Fetched == {"delete", "deleting", "insert", "commit"}
Sync    == Fetched \union {"refresh"}
Checks  == {"check", "compare"}

Underway(r) == pc[r] \in {"fetch"} \union Sync \union Checks

Init ==
  /\ directory = 1
  /\ row \in {NoRow, [by |-> Seed, groups |-> 1]}
  /\ deleter = Nobody
  /\ inserter = Nobody
  /\ isAdmin = IF row.groups \in AdminVersions THEN TRUE ELSE FALSE
  /\ pc = [r \in Logins |-> "idle"]
  /\ loaded = [r \in Logins |-> FALSE]
  /\ got = [r \in Logins |-> NoGroups]
  /\ sees = [r \in Logins |-> Nobody]
  /\ pivot = [r \in Logins |-> FALSE]
  /\ asOf = [r \in Logins |-> 1]
  /\ synced = {}
  /\ met = [r \in Logins |-> {}]
  /\ crowded = FALSE

Goto(r, from, to) ==
  /\ pc[r] = from
  /\ pc' = [pc EXCEPT ![r] = to]

(* The end of r's transaction. *)
Release(r) ==
  /\ deleter' = IF deleter = r THEN Nobody ELSE deleter
  /\ inserter' = IF inserter = r THEN Nobody ELSE inserter

FailKeepsTransaction(r) ==   \* faulty: not rolled back
  /\ pc' = [pc EXCEPT ![r] = "check"]
  /\ UNCHANGED <<directory, table, isAdmin, local, history>>

(* Rolled back, raised again, and logged by the caller. *)
Fail(r) ==
  /\ pc' = [pc EXCEPT ![r] = "check"]
  /\ Release(r)
  /\ UNCHANGED <<directory, row, isAdmin, local, history>>

-----------------------------------------------------------------------------
(* The user is loaded, updated with the token's claims and committed. *)
Load(r) ==
  /\ Goto(r, "idle", "fetch")
  /\ asOf' = [asOf EXCEPT ![r] = directory]
  /\ crowded' = (crowded \/ \E s \in Logins : Underway(s))
  /\ UNCHANGED <<directory, table, isAdmin, local, synced, met>>

FetchOfLastLogin(r) ==   \* faulty: the groups of the row there is, not those of the directory
  /\ Goto(r, "fetch", "delete")
  /\ got' = [got EXCEPT ![r] = IF row = NoRow THEN directory ELSE row.groups]
  /\ UNCHANGED <<directory, table, isAdmin, loaded, sees, pivot, history>>

(* GET /me/memberOf. *)
Fetch(r) ==
  /\ Goto(r, "fetch", "delete")
  /\ got' = [got EXCEPT ![r] = directory]
  /\ UNCHANGED <<directory, table, isAdmin, loaded, sees, pivot, history>>

FetchReturnsNone(r) ==   \* faulty: None in the place of an empty list
  /\ Goto(r, "fetch", "delete")
  /\ got' = [got EXCEPT ![r] = -1]
  /\ UNCHANGED <<directory, table, isAdmin, loaded, sees, pivot, history>>

(* A timeout or a 5xx of Graph is logged and becomes an empty list. *)
FetchFails(r) ==
  /\ Goto(r, "fetch", "delete")
  /\ UNCHANGED <<directory, table, isAdmin, local, history>>

(* A 401 or 403 of Graph is raised: no sync, and the login goes on. *)
FetchRefused(r) ==
  /\ Goto(r, "fetch", "check")
  /\ UNCHANGED <<directory, table, isAdmin, local, history>>

-----------------------------------------------------------------------------
(* sync_user_ad_groups *)

(* The DELETE starts: the row it will look at is fixed. *)
BeginDelete(r) ==
  /\ Goto(r, "delete", "deleting")
  /\ sees' = [sees EXCEPT ![r] = row.by]
  /\ UNCHANGED <<directory, table, isAdmin, loaded, got, pivot, history>>

CommitDelete(r) ==   \* faulty: the deletion is committed on its own
  /\ Goto(r, "deleting", "insert")
  /\ deleter = Nobody
  /\ row' = IF sees[r] = row.by THEN NoRow ELSE row
  /\ UNCHANGED <<directory, deleter, inserter, isAdmin, local, history>>

(* It deletes the row it saw, once nobody else is deleting it, if it is still there. *)
EndDelete(r) ==
  /\ Goto(r, "deleting", "insert")
  /\ \/ sees[r] = row.by /\ row # NoRow /\ deleter = Nobody /\ deleter' = r
     \/ (sees[r] # row.by \/ row = NoRow) /\ UNCHANGED deleter
  /\ UNCHANGED <<directory, row, inserter, isAdmin, local, history>>

(* The flush of the commit, which sends the INSERT. *)
Insert(r) ==
  /\ inserter = Nobody /\ deleter \in {Nobody, r}
  /\ \/ /\ Goto(r, "insert", "commit")
        /\ row = NoRow \/ deleter = r
        /\ inserter' = r
        /\ UNCHANGED <<directory, row, deleter, isAdmin, local, history>>
     \/ /\ pc[r] = "insert"   \* IntegrityError on email
        /\ row # NoRow /\ deleter # r
        /\ Fail(r)

Commit(r) ==
  /\ Goto(r, "commit", "refresh")
  /\ row' = [by |-> r, groups |-> got[r]]
  /\ Release(r)
  /\ synced' = synced \union {r}
  /\ met' = [met EXCEPT ![r] = {s \in Logins \ {r} : pc[s] \in Fetched}]
  /\ UNCHANGED <<directory, isAdmin, local, asOf, crowded>>

(* refresh() of the new row: an error if another login has replaced it. *)
Refresh(r) ==
  \/ /\ Goto(r, "refresh", "check")
     /\ row.by = r
     /\ pivot' = [pivot EXCEPT ![r] = TRUE]
     /\ UNCHANGED <<directory, table, isAdmin, loaded, got, sees, history>>
  \/ /\ pc[r] = "refresh"
     /\ row.by # r
     /\ Fail(r)

-----------------------------------------------------------------------------
(* The admin check *)

Reload(r) ==
  /\ Goto(r, "check", "compare")
  /\ loaded' = [loaded EXCEPT ![r] = isAdmin]
  /\ UNCHANGED <<directory, table, isAdmin, got, sees, pivot, history>>

(* Who has no groups, or none that could be synced, is no administrator. *)
Wanted(r) == pivot[r] /\ got[r] \in AdminVersions

(* is_admin is written and committed if it differs from what was read. *)
Compare(r) ==
  /\ Goto(r, "compare", "done")
  /\ \/ Wanted(r) /\ ~loaded[r] /\ isAdmin' = TRUE
     \/ ~Wanted(r) /\ loaded[r] /\ isAdmin' = FALSE
     \/ (Wanted(r) <=> loaded[r]) /\ UNCHANGED isAdmin
  /\ UNCHANGED <<directory, table, local, history>>

(* An error of the check is logged, and the login answered. *)
CheckFails(r) ==
  /\ pc[r] \in Checks
  /\ pc' = [pc EXCEPT ![r] = "unchecked"]
  /\ UNCHANGED <<directory, table, isAdmin, local, history>>

-----------------------------------------------------------------------------
(* A connection is lost, or a lock was waited for longer than command_timeout. *)
StatementFails(r) ==
  \/ pc[r] \in Sync /\ Fail(r)
  \/ CheckFails(r)

(* The worker dies, and the database rolls back. *)
Crash(r) ==
  /\ Underway(r)
  /\ pc' = [pc EXCEPT ![r] = "crashed"]
  /\ Release(r)
  /\ UNCHANGED <<directory, row, isAdmin, local, history>>

(* An administrator of Azure AD changes the user's groups. *)
DirectoryChanges ==
  /\ directory < MaxDirectory
  /\ directory' = directory + 1
  /\ UNCHANGED <<table, isAdmin, pc, local, history>>

Work(r) ==
  \/ Fetch(r) \/ BeginDelete(r) \/ EndDelete(r) \/ Insert(r) \/ Commit(r)
  \/ Refresh(r) \/ Reload(r) \/ Compare(r)

(* Graph and PostgreSQL do what they are asked. *)
QuietNext == DirectoryChanges \/ \E r \in Logins : Load(r) \/ Work(r)

QuietSpec == Init /\ [][QuietNext]_vars

Next ==
  \/ QuietNext
  \/ \E r \in Logins : FetchFails(r) \/ FetchRefused(r) \/ StatementFails(r) \/ Crash(r)

Spec == Init /\ [][Next]_vars

(* Handlers that can go on do, and the database grants a free lock. *)
FairSpec == Spec /\ \A r \in Logins : WF_vars(Work(r))

-----------------------------------------------------------------------------
TypeOK ==
  /\ directory \in Versions
  /\ row \in Rows
  /\ deleter \in Logins \union {Nobody}
  /\ inserter \in Logins \union {Nobody}
  /\ isAdmin \in BOOLEAN
  /\ pc \in [Logins -> Sync \union Checks \union {"idle", "fetch", "done", "unchecked", "crashed"}]
  /\ loaded \in [Logins -> BOOLEAN]
  /\ got \in [Logins -> Versions \union {NoGroups}]
  /\ sees \in [Logins -> Logins \union {Seed, Nobody}]
  /\ pivot \in [Logins -> BOOLEAN]
  /\ asOf \in [Logins -> Versions]
  /\ synced \subseteq Logins
  /\ met \in [Logins -> SUBSET Logins]
  /\ crowded \in BOOLEAN

(***************************************************************************)
(* While logins replace the user's row, nobody ever finds the user without *)
(* one: the deletion is not seen before the insertion, on any path.        *)
(***************************************************************************)
RowNeverVanishes == [][row # NoRow => row' # NoRow]_vars

(***************************************************************************)
(* After a login has committed its groups, the row is no older than that   *)
(* login, but for a login that had fetched before and committed after it,  *)
(* or one whose fetch failed.                                              *)
(***************************************************************************)
OldOnlyFromOverlap ==
  \A r \in synced :
    row.groups >= asOf[r] \/ row.groups = NoGroups \/ row.by \in met[r]

(***************************************************************************)
(* Logins that come one after the other and get through keep is_admin and  *)
(* the row together, whichever way the groups change in between.           *)
(***************************************************************************)
AloneIsConsistent ==
  /\ ~crowded
  /\ \A r \in Logins : pc[r] = "idle" \/ (pc[r] = "done" /\ pivot[r])
  => isAdmin = (row.groups \in AdminVersions)

(* Every login is answered unless its worker dies, whoever waits for whose row. *)
EveryLoginAnswered ==
  \A r \in Logins : pc[r] = "fetch" ~> pc[r] \in {"done", "unchecked", "crashed"}

AtRest == \A r \in Logins : ~Underway(r)

(***************************************************************************)
(* rbac_pivot_service.py:39, "This ensures the user pivot table always has *)
(* the latest AD groups": with no login under way, the row is no older     *)
(* than the last login that has committed its groups.                      *)
(***************************************************************************)
PivotIsLatest == AtRest => \A r \in synced : row.groups >= asOf[r]

(***************************************************************************)
(* auth.py:815, "This ensures that if user loses admin groups, is_admin is *)
(* set to False".                                                          *)
(***************************************************************************)
AdminLostIsRemoved ==
  AtRest /\ synced # {} => (isAdmin => row.groups \in AdminVersions)
=============================================================================
