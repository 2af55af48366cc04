------------------------- MODULE AgentAvailableCache -------------------------
(***************************************************************************)
(* The Redis cache of GET /agent/available for one user and page, with the *)
(* requests that read and fill it and the ones that change the agents.     *)
(* `services/agent_available_cache.py` files an answer under a key that    *)
(* ends in a global version; incrementing the version is meant to make     *)
(* every older entry unreachable.                                          *)
(*                                                                         *)
(* A read asks Redis for the version and the entry, checks a hit against   *)
(* the database for agents deleted since, and on a miss builds the list    *)
(* from the database, asks for the version AGAIN and stores the list under *)
(* it.  A write commits and then increments.  Every `await` between two of *)
(* these calls lets the others in, and every call to Redis may fail.       *)
(*                                                                         *)
(* A list is the set of the writes it reflects: those committed when it    *)
(* was read.                                                               *)
(***************************************************************************)
EXTENDS Integers

CONSTANTS
  Readers,      \* GET requests, each of one user and page
  Writers,      \* requests that change what the list shows
  Deletes,      \* those of them that soft-delete an agent
  Nobody,       \* no reader
  FirstVersion, \* the version in Redis at the start, Missing without one
  MaxVersion    \* bound: the last version an increment reaches

Missing == 0    \* no version key

ASSUME NobodyAssumption  == Nobody \notin Readers
ASSUME DeletesAssumption == Deletes \subseteq Writers
ASSUME VersionAssumption == MaxVersion \in Nat \ {0} /\ FirstVersion \in 0..MaxVersion

VARIABLES
  committed,  \* the writes the database has committed
  version,    \* agent_available:global_version
  entries,    \* entries[v]: the cached list of version v and the reader that stored it
  at,         \* at[r]: the next call of reader r
  asked,      \* asked[r]: the version r got
  list,       \* list[r]: the list r holds, and who built it
  step,       \* step[w]: where writer w is
  settled,    \* history: the writes an increment has followed
  filling,    \* history: filling[w], who held a list not stored yet when w settled
  stamp,      \* history: stamp[w], the version of the increment that settled w
  before,     \* history: before[r], the writes that had settled when r began
  deleted,    \* history: deleted[r], the deletions committed when r began
  unchecked   \* the readers whose check for deleted agents failed

database == <<committed>>
redis    == <<version, entries>>
reader   == <<at, asked, list, unchecked>>
cacheHistory == <<settled, filling, stamp, before, deleted>>
cacheVars == <<database, redis, reader, step, cacheHistory>>

NoEntry == [shows |-> {}, by |-> Nobody]

Lists == [shows : SUBSET Writers, by : Readers] \union {NoEntry}

Versions == 1..MaxVersion

(* A list built and not yet stored, or stored under a version already asked for. *)
Unstored == {"set_version", "set_init", "setex"}

CacheInit ==
  /\ committed = {}
  /\ version = FirstVersion
  /\ entries = [v \in Versions |-> NoEntry]
  /\ at = [r \in Readers |-> "idle"]
  /\ asked = [r \in Readers |-> 1]
  /\ list = [r \in Readers |-> NoEntry]
  /\ step = [w \in Writers |-> "idle"]
  /\ settled = {}
  /\ filling = [w \in Writers |-> {}]
  /\ stamp = [w \in Writers |-> Missing]
  /\ before = [r \in Readers |-> {}]
  /\ deleted = [r \in Readers |-> {}]
  /\ unchecked = {}

Move(r, from, to) ==
  /\ at[r] = from
  /\ at' = [at EXCEPT ![r] = to]

-----------------------------------------------------------------------------
(* get_current_version *)

AsksNextVersion(r, from, init, then) ==   \* faulty: the version is one too far
  \/ /\ version # Missing
     /\ Move(r, from, then)
     /\ asked' = [asked EXCEPT ![r] = version + 1]
     /\ UNCHANGED <<database, redis, list, unchecked, step, cacheHistory>>
  \/ /\ version = Missing
     /\ Move(r, from, init)
     /\ UNCHANGED <<database, redis, asked, list, unchecked, step, cacheHistory>>

(* GET of the key: its value, or None, after which the key is set to 1. *)
GetVersion(r, from, init, then) ==
  \/ /\ version # Missing
     /\ Move(r, from, then)
     /\ asked' = [asked EXCEPT ![r] = version]
     /\ UNCHANGED <<database, redis, list, unchecked, step, cacheHistory>>
  \/ /\ version = Missing
     /\ Move(r, from, init)
     /\ UNCHANGED <<database, redis, asked, list, unchecked, step, cacheHistory>>

SetVersionToOne(r, init, then) ==
  /\ Move(r, init, then)
  /\ version' = 1
  /\ asked' = [asked EXCEPT ![r] = 1]
  /\ UNCHANGED <<database, entries, list, unchecked, step, cacheHistory>>

(* GET or SET raises: the version is taken to be 1. *)
VersionFails(r, from, init, then) ==
  /\ Move(r, from, then) \/ Move(r, init, then)
  /\ asked' = [asked EXCEPT ![r] = 1]
  /\ UNCHANGED <<database, redis, list, unchecked, step, cacheHistory>>

-----------------------------------------------------------------------------
(* get_available_agents *)

Begin(r) ==
  /\ Move(r, "idle", "version")
  /\ before' = [before EXCEPT ![r] = settled]
  /\ deleted' = [deleted EXCEPT ![r] = committed \intersect Deletes]
  /\ UNCHANGED <<database, redis, asked, list, unchecked, step, settled, filling, stamp>>

ReadVersion(r) ==
  \/ GetVersion(r, "version", "init", "lookup")
  \/ SetVersionToOne(r, "init", "lookup")

Lookup(r) ==
  \/ /\ entries[asked[r]] # NoEntry
     /\ Move(r, "lookup", "check")
     /\ list' = [list EXCEPT ![r] = entries[asked[r]]]
     /\ UNCHANGED <<database, redis, asked, unchecked, step, cacheHistory>>
  \/ /\ entries[asked[r]] = NoEntry
     /\ Move(r, "lookup", "fetch")
     /\ UNCHANGED <<database, redis, asked, list, unchecked, step, cacheHistory>>

(* The agents of a list that have been deleted. *)
DeletedIn(l) == (committed \intersect Deletes) \ l.shows

ServeUnchecked(r) ==   \* faulty: a hit is served as it is
  /\ Move(r, "check", "done")
  /\ UNCHANGED <<database, redis, asked, list, unchecked, step, cacheHistory>>

(* A list with a deleted agent counts as a miss. *)
Check(r) ==
  /\ Move(r, "check", IF DeletedIn(list[r]) = {} THEN "done" ELSE "fetch")
  /\ UNCHANGED <<database, redis, asked, list, unchecked, step, cacheHistory>>

(* The list is built from what is committed now. *)
Fetch(r) ==
  /\ Move(r, "fetch", "set_version")
  /\ list' = [list EXCEPT ![r] = [shows |-> committed, by |-> r]]
  /\ UNCHANGED <<database, redis, asked, unchecked, step, cacheHistory>>

ReadVersionAgain(r) ==
  \/ GetVersion(r, "set_version", "set_init", "setex")
  \/ SetVersionToOne(r, "set_init", "setex")

(* SETEX, and the answer. *)
StoreEntry(r) ==
  /\ Move(r, "setex", "done")
  /\ entries' = [entries EXCEPT ![asked[r]] = list[r]]
  /\ UNCHANGED <<database, version, asked, list, unchecked, step, cacheHistory>>

(* A GET or SETEX of an entry that raises is a miss, or is skipped. *)
EntryFails(r) ==
  /\ Move(r, "lookup", "fetch") \/ Move(r, "setex", "done")
  /\ UNCHANGED <<database, redis, asked, list, unchecked, step, cacheHistory>>

(* The count of deleted agents raises: the cached list is served. *)
CheckFails(r) ==
  /\ Move(r, "check", "done")
  /\ unchecked' = unchecked \union {r}
  /\ UNCHANGED <<database, redis, asked, list, step, cacheHistory>>

(* The database fails under the fetch: 500, nothing is stored. *)
FetchFails(r) ==
  /\ Move(r, "fetch", "error")
  /\ UNCHANGED <<database, redis, asked, list, unchecked, step, cacheHistory>>

-----------------------------------------------------------------------------
(* The writers *)

(* The transaction of a request that invalidates the cache after it. *)
CommitWrite(w) ==
  /\ step[w] = "idle"
  /\ step' = [step EXCEPT ![w] = "committed"]
  /\ committed' = committed \union {w}
  /\ UNCHANGED <<redis, reader, cacheHistory>>

(* A change of roles, grants or agents on a path that never invalidates. *)
CommitSilently(w) ==
  /\ step[w] = "idle"
  /\ w \notin Deletes
  /\ step' = [step EXCEPT ![w] = "done"]
  /\ committed' = committed \union {w}
  /\ UNCHANGED <<redis, reader, cacheHistory>>

(* POST /cache/invalidate: no change of its own. *)
BeginManual(w) ==
  /\ step[w] = "idle"
  /\ w \notin Deletes
  /\ step' = [step EXCEPT ![w] = "committed"]
  /\ UNCHANGED <<database, redis, reader, cacheHistory>>

(* What an increment is meant to settle, and which fills it overlaps. *)
Settle ==
  /\ settled' = settled \union committed
  /\ filling' = [w \in Writers |->
       IF w \in committed \ settled THEN {r \in Readers : at[r] \in Unstored} ELSE filling[w]]
  /\ stamp' = [w \in Writers |-> IF w \in committed \ settled THEN version' ELSE stamp[w]]

IncrementForgotten(w) ==   \* faulty: the version stays
  /\ step[w] = "committed"
  /\ step' = [step EXCEPT ![w] = "done"]
  /\ UNCHANGED <<database, redis, reader, before, deleted>>
  /\ Settle

(* increment_version: INCR, which creates a missing key with 1. *)
Increment(w) ==
  /\ step[w] = "committed"
  /\ step' = [step EXCEPT ![w] = "done"]
  /\ version < MaxVersion
  /\ version' = version + 1
  /\ Settle
  /\ UNCHANGED <<database, entries, reader, before, deleted>>

(* INCR raises, or the worker dies before it. *)
IncrementFails(w) ==
  /\ step[w] = "committed"
  /\ step' = [step EXCEPT ![w] = "done"]
  /\ UNCHANGED <<database, redis, reader, cacheHistory>>

-----------------------------------------------------------------------------
(* The TTL of an entry runs out. *)
Expire(v) ==
  /\ entries[v] # NoEntry
  /\ entries' = [entries EXCEPT ![v] = NoEntry]
  /\ UNCHANGED <<database, version, reader, step, cacheHistory>>

(* Redis is restarted without its data, or flushed. *)
RedisLost ==
  /\ version' = Missing
  /\ entries' = [v \in Versions |-> NoEntry]
  /\ UNCHANGED <<database, reader, step, cacheHistory>>

Read(r) ==
  \/ Begin(r) \/ ReadVersion(r) \/ Lookup(r) \/ Check(r) \/ Fetch(r)
  \/ ReadVersionAgain(r) \/ StoreEntry(r)
  \/ EntryFails(r) \/ CheckFails(r) \/ FetchFails(r)

WriterStep(w) ==
  \/ CommitWrite(w) \/ CommitSilently(w) \/ BeginManual(w)
  \/ Increment(w) \/ IncrementFails(w)

(* Calls fail, but the version is there and every question for it is answered. *)
SteadyNext ==
  \/ \E r \in Readers : Read(r)
  \/ \E w \in Writers : WriterStep(w)
  \/ \E v \in Versions : Expire(v)

SteadySpec == CacheInit /\ [][SteadyNext]_cacheVars

VersionUnknown(r) ==
  \/ VersionFails(r, "version", "init", "lookup")
  \/ VersionFails(r, "set_version", "set_init", "setex")

CacheNext ==
  \/ SteadyNext
  \/ \E r \in Readers : VersionUnknown(r)
  \/ RedisLost

CacheSpec == CacheInit /\ [][CacheNext]_cacheVars

-----------------------------------------------------------------------------
CacheTypeOK ==
  /\ committed \subseteq Writers
  /\ version \in Versions \union {Missing}
  /\ entries \in [Versions -> Lists]
  /\ at \in [Readers -> Unstored \union
               {"idle", "version", "init", "lookup", "check", "fetch", "done", "error"}]
  /\ asked \in [Readers -> Versions]
  /\ list \in [Readers -> Lists]
  /\ step \in [Writers -> {"idle", "committed", "done"}]
  /\ settled \subseteq committed
  /\ filling \in [Writers -> SUBSET Readers]
  /\ stamp \in [Writers -> Versions \union {Missing}]
  /\ before \in [Readers -> SUBSET Writers]
  /\ deleted \in [Readers -> SUBSET Deletes]
  /\ unchecked \subseteq Readers

Answered(r) == at[r] = "done"

(***************************************************************************)
(* No agent that was deleted before a request began is in its answer, even *)
(* when the deletion never reached the cache, the version was lost or      *)
(* guessed, or an old list was stored late; unless the check itself failed.*)
(***************************************************************************)
ServedNeverDeleted ==
  \A r \in Readers : Answered(r) /\ r \notin unchecked => deleted[r] \subseteq list[r].shows

(***************************************************************************)
(* With the version in Redis, an answer that misses a write which was      *)
(* invalidated before the request began was built by a fill in flight at   *)
(* that invalidation.  That is what agent_available_cache.py:40 claims of  *)
(* an increment: it makes "all existing cache entries unreachable".        *)
(***************************************************************************)
StaleOnlyFromOverlappingFill ==
  \A r \in Readers : Answered(r) =>
    \A w \in before[r] \ list[r].shows : list[r].by \in filling[w]

(***************************************************************************)
(* admin_agents.py:3492, the invalidation "forces all users to fetch fresh *)
(* agent data on their next request".                                      *)
(***************************************************************************)
NextRequestIsFresh ==
  \A r \in Readers : Answered(r) => before[r] \subseteq list[r].shows
=============================================================================
