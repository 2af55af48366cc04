--------------------------- MODULE UserMemoryCache ---------------------------
(***************************************************************************)
(* The memories AIQ keeps of one user, listed through a cache in Redis     *)
(* (routes/azure_ad_obo.py, services/user_memory_cache.py).  A list is     *)
(* known by the number of changes it shows.  The key has no version: a     *)
(* change is followed by a DELETE of the key, and a list that was read     *)
(* before the change may be stored after that.                             *)
(*                                                                         *)
(* AIQ itself may change the memories, which nothing here hears of.        *)
(***************************************************************************)
EXTENDS Integers, FiniteSets

CONSTANTS
  Readers,      \* requests for the list
  Writers,      \* requests that change a memory
  MaxChanges,   \* bound: changes to the memories
  Faults        \* whether Redis, AIQ and the token may fail

ASSUME CountsAssumption == MaxChanges \in Nat /\ Faults \in BOOLEAN

VARIABLES
  truth,    \* how often the memories have changed
  entry,    \* the list in Redis; None if there is none
  at,       \* at[p]: the next await of p
  list,     \* list[r]: the list r has fetched
  answer,   \* answer[r]: the list r has answered; None if none
  asked,    \* history: asked[r]: the oldest list in circulation when r asked
  settled,  \* history: the changes that a DELETE of the key has followed
  filling   \* history: who held a list at the last of these

data    == <<truth, entry>>
held   == <<list, answer>>
cacheHistory == <<asked, settled, filling>>
cacheVars    == <<data, at, held, cacheHistory>>

None == -1
Ages == {None} \union 0 .. MaxChanges

(* Every copy that an answer may still be made of. *)
Copies == ({entry} \ {None}) \union {truth} \union {list[r] : r \in {s \in Readers : at[s] = "store"}}

(* How many changes all of them show. *)
Oldest == Cardinality({v \in 1 .. truth : \A c \in Copies : v <= c})

CacheInit ==
  /\ truth = 0
  /\ entry = None
  /\ at = [p \in Readers \union Writers |-> "idle"]
  /\ list = [r \in Readers |-> None]
  /\ answer = [r \in Readers |-> None]
  /\ asked = [r \in Readers |-> None]
  /\ settled = 0
  /\ filling = {}

Move(p, from, to) ==
  /\ at[p] = from
  /\ at' = [at EXCEPT ![p] = to]

-----------------------------------------------------------------------------
(* GET /api/memory *)

Ask(r) ==
  /\ Move(r, "idle", "get")
  /\ asked' = [asked EXCEPT ![r] = Oldest]
  /\ UNCHANGED <<data, held, settled, filling>>

Hit(r) ==
  /\ entry # None
  /\ Move(r, "get", "done")
  /\ answer' = [answer EXCEPT ![r] = entry]
  /\ UNCHANGED <<data, list, cacheHistory>>

(* No entry, or a GET that failed. *)
Miss(r) ==
  /\ entry = None \/ Faults
  /\ Move(r, "get", "fetch")
  /\ UNCHANGED <<data, held, cacheHistory>>

(* No token, or no answer from AIQ. *)
FetchFails(r) ==
  /\ Faults
  /\ Move(r, "fetch", "done")
  /\ UNCHANGED <<data, held, cacheHistory>>

Fetch(r) ==
  /\ Move(r, "fetch", "store")
  /\ list' = [list EXCEPT ![r] = truth]
  /\ UNCHANGED <<data, answer, cacheHistory>>

AnswerFetched(r) == answer' = [answer EXCEPT ![r] = list[r]]

StoreWhatWasFound(r) ==   \* faulty: a hit is written back, to live longer
  \/ /\ Move(r, "store", "done")
     /\ AnswerFetched(r)
     /\ entry' = list[r]
     /\ UNCHANGED <<truth, list, cacheHistory>>
  \/ /\ at[r] = "done" /\ answer[r] # None /\ at' = [at EXCEPT ![r] = "done"]
     /\ entry = None /\ entry' = answer[r]
     /\ UNCHANGED <<truth, held, cacheHistory>>

(* SET, with the time to live; an error of it is swallowed. *)
Store(r) ==
  /\ Move(r, "store", "done")
  /\ AnswerFetched(r)
  /\ entry' = list[r]
  /\ UNCHANGED <<truth, list, cacheHistory>>

StoreFails(r) ==
  /\ Faults
  /\ Move(r, "store", "done")
  /\ AnswerFetched(r)
  /\ UNCHANGED <<data, list, cacheHistory>>

-----------------------------------------------------------------------------
(* DELETE, PATCH and extract: AIQ changes the memories, then the key is deleted. *)

Changes ==
  /\ truth < MaxChanges
  /\ truth' = truth + 1

InvalidateFirst(w) ==   \* faulty: the key is deleted before AIQ has changed them
  /\ Move(w, "idle", "change")
  /\ entry' = None
  /\ settled' = truth + 1
  /\ filling' = {r \in Readers : at[r] = "store"}
  /\ UNCHANGED <<truth, held, asked>>

Change(w) ==
  /\ Move(w, "idle", "invalidate")
  /\ Changes
  /\ UNCHANGED <<entry, held, cacheHistory>>

(* AIQ has changed them, but its answer is lost: the key stays. *)
ChangeUnanswered(w) ==
  /\ Faults
  /\ Move(w, "idle", "done")
  /\ Changes
  /\ UNCHANGED <<entry, held, cacheHistory>>

InvalidateNothing(w) ==   \* faulty: deletes the key of another user
  /\ Move(w, "invalidate", "done")
  /\ settled' = truth
  /\ filling' = {r \in Readers : at[r] = "store"}
  /\ UNCHANGED <<data, held, asked>>

Invalidate(w) ==
  /\ Move(w, "invalidate", "done")
  /\ entry' = None
  /\ settled' = truth
  /\ filling' = {r \in Readers : at[r] = "store"}
  /\ UNCHANGED <<truth, held, asked>>

InvalidateFails(w) ==
  /\ Faults
  /\ Move(w, "invalidate", "done")
  /\ UNCHANGED <<data, held, cacheHistory>>

-----------------------------------------------------------------------------
(* AIQ extracts a memory from a conversation. *)
AiqChanges ==
  /\ Changes
  /\ UNCHANGED <<entry, at, held, cacheHistory>>

NeverExpire == entry # None /\ UNCHANGED cacheVars   \* faulty: the entry is set without a time to live

(* The time to live ends, or Redis loses the key. *)
Expire ==
  /\ entry # None
  /\ entry' = None
  /\ UNCHANGED <<truth, at, held, cacheHistory>>

Read(r) == Hit(r) \/ Miss(r) \/ Fetch(r) \/ Store(r)

CacheNext ==
  \/ \E r \in Readers : Ask(r) \/ Read(r) \/ FetchFails(r) \/ StoreFails(r)
  \/ \E w \in Writers : Change(w) \/ ChangeUnanswered(w) \/ Invalidate(w) \/ InvalidateFails(w)
  \/ AiqChanges
  \/ Expire

CacheSpec == CacheInit /\ [][CacheNext]_cacheVars

(* The event loop runs the readers, and Redis keeps its times to live. *)
FairSpec ==
  /\ CacheSpec
  /\ \A r \in Readers : WF_cacheVars(Read(r))
  /\ WF_cacheVars(Expire)

-----------------------------------------------------------------------------
CacheSteps == {"idle", "get", "fetch", "store", "invalidate", "done"}

CacheTypeOK ==
  /\ truth \in 0 .. MaxChanges
  /\ entry \in Ages
  /\ at \in [Readers \union Writers -> CacheSteps]
  /\ list \in [Readers -> Ages]
  /\ answer \in [Readers -> Ages]
  /\ asked \in [Readers -> Ages]
  /\ settled \in 0 .. MaxChanges
  /\ filling \subseteq Readers

(***************************************************************************)
(* A list that lacks a change is in Redis after the key was deleted for    *)
(* it only if a reader had fetched it by then and stored it later.         *)
(***************************************************************************)
OldOnlyFromOverlappingFill ==
  entry # None /\ entry < settled => \E r \in filling : list[r] = entry

(***************************************************************************)
(* The handlers keep the promise of StaleReads: the oldest list in         *)
(* circulation is the oldest of Redis' entry and the lists in hand.        *)
(***************************************************************************)
Promise == INSTANCE StaleReads WITH oldest <- Oldest

PromiseKept == Promise!Spec

(* Every change is shown to all who ask late enough, even if no request told *)
(* the cache of it: what is stored expires, and a list in hand is stored once. *)
ChangesAreSeen == \A v \in 1 .. MaxChanges : truth >= v ~> Oldest >= v
=============================================================================
