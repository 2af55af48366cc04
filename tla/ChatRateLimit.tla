--------------------------- MODULE ChatRateLimit ---------------------------
(***************************************************************************)
(* The chat rate limiter, `_enforce_chat_rate_limit` of routes/chat.py: a  *)
(* sliding-window log per user, kept in the memory of each server process. *)
(*                                                                         *)
(* A call pops the entries of the user's deque that are older than the     *)
(* window, answers 429 if the deque is still full, and otherwise appends   *)
(* the time of the call.  The body holds an asyncio lock and awaits        *)
(* nothing while it does, so one call is one step.  `_rate_limit_store` is *)
(* a module global: every gunicorn worker has one, and loses it when the   *)
(* worker is restarted.                                                    *)
(*                                                                         *)
(* Time is counted in ticks of a clock that does not step back.  A user    *)
(* without an entry in the dict and one with an empty deque are the same:  *)
(* the code creates the deque on the first call.                           *)
(***************************************************************************)
EXTENDS Integers, Sequences, FiniteSets

CONSTANTS
  Workers,   \* gunicorn worker processes
  Users,     \* authenticated users
  Limit,     \* RATE_LIMIT_REQUESTS_PER_MINUTE
  Window,    \* RATE_LIMIT_WINDOW_SECONDS
  Horizon    \* bound: the last tick of the clock

ASSUME LimitAssumption   == Limit \in Nat \ {0}
ASSUME WindowAssumption  == Window \in Nat
ASSUME HorizonAssumption == Horizon \in Nat

VARIABLES
  clock,     \* the time `datetime.utcnow()` returns
  store,     \* store[w][u]: the deque of user u in worker w
  admitted,  \* history: admitted[w][u], times of all calls w let through since it started
  answer     \* history: the last answer given, by whom, to whom and when

vars == <<clock, store, admitted, answer>>

Time == 0..Horizon

NoEntries == [u \in Users |-> <<>>]

NoAnswer == [status |-> "none"]

Answer == [status : {"ok", "429"}, worker : Workers, user : Users, at : Time]

Reply(w, u, s) == [status |-> s, worker |-> w, user |-> u, at |-> clock]

Init ==
  /\ clock = 0
  /\ store = [w \in Workers |-> NoEntries]
  /\ admitted = [w \in Workers |-> NoEntries]
  /\ answer = NoAnswer

(***************************************************************************)
(* The while loop pops k entries: those have left the window, and the      *)
(* entry it stops at, if there is one, has not.                            *)
(***************************************************************************)
PopsAtWindowEdge(log, k, now) ==   \* faulty: >= in the place of >
  /\ \A i \in 1..k : now - log[i] >= Window
  /\ k < Len(log) => now - log[k + 1] < Window

Pops(log, k, now) ==
  /\ \A i \in 1..k : now - log[i] > Window
  /\ k < Len(log) => now - log[k + 1] <= Window

Kept(log, k) == SubSeq(log, k + 1, Len(log))

AdmitWithExpiry(w, u) ==   \* faulty: files the end of the call's window, not its time
  \E k \in 0..Len(store[w][u]) :
    /\ Pops(store[w][u], k, clock)
    /\ Len(Kept(store[w][u], k)) < Limit
    /\ store' = [store EXCEPT ![w][u] = Append(Kept(store[w][u], k), clock + Window)]
    /\ admitted' = [admitted EXCEPT ![w][u] = Append(admitted[w][u], clock)]
    /\ answer' = Reply(w, u, "ok")
    /\ UNCHANGED clock

(***************************************************************************)
(* The two ends of one call.  The entries popped stay popped after a 429.  *)
(***************************************************************************)
Admit(w, u) ==
  \E k \in 0..Len(store[w][u]) :
    /\ Pops(store[w][u], k, clock)
    /\ Len(Kept(store[w][u], k)) < Limit
    /\ store' = [store EXCEPT ![w][u] = Append(Kept(store[w][u], k), clock)]
    /\ admitted' = [admitted EXCEPT ![w][u] = Append(admitted[w][u], clock)]
    /\ answer' = Reply(w, u, "ok")
    /\ UNCHANGED clock

RejectBeforePopping(w, u) ==   \* faulty: the length is read before the loop has run
  /\ Len(store[w][u]) >= Limit
  /\ answer' = Reply(w, u, "429")
  /\ UNCHANGED <<clock, store, admitted>>

Reject(w, u) ==
  \E k \in 0..Len(store[w][u]) :
    /\ Pops(store[w][u], k, clock)
    /\ Len(Kept(store[w][u], k)) >= Limit
    /\ store' = [store EXCEPT ![w][u] = Kept(store[w][u], k)]
    /\ answer' = Reply(w, u, "429")
    /\ UNCHANGED <<clock, admitted>>

Enforce(w, u) == Admit(w, u) \/ Reject(w, u)

(* The worker process is replaced: its memory, and so its history, is gone. *)
Restart(w) ==
  /\ store' = [store EXCEPT ![w] = NoEntries]
  /\ admitted' = [admitted EXCEPT ![w] = NoEntries]
  /\ answer' = NoAnswer
  /\ UNCHANGED clock

Tick ==
  /\ clock < Horizon
  /\ clock' = clock + 1
  /\ UNCHANGED <<store, admitted, answer>>

Next ==
  \/ Tick
  \/ \E w \in Workers : Restart(w)
  \/ \E w \in Workers, u \in Users : Enforce(w, u)

Spec == Init /\ [][Next]_vars

-----------------------------------------------------------------------------
TypeOK ==
  /\ clock \in Time
  /\ store \in [Workers -> [Users -> Seq(Time)]]
  /\ admitted \in [Workers -> [Users -> Seq(Time)]]
  /\ answer \in Answer \union {NoAnswer}

(* A log of times has no more than Limit of them in any window. *)
Sparse(log) ==
  \A i \in 1..Len(log) : i + Limit <= Len(log) => log[i + Limit] - log[i] > Window

(* The positions of a log's times that are in the window ending at t. *)
Recent(log, t) == {i \in 1..Len(log) : log[i] <= t /\ t - log[i] <= Window}

(***************************************************************************)
(* Since it started, no worker has let through more than Limit calls of a  *)
(* user in any closed interval of Window ticks, although it forgets calls: *)
(* what the loop pops can never matter again.                              *)
(***************************************************************************)
WindowBound == \A w \in Workers, u \in Users : Sparse(admitted[w][u])

(***************************************************************************)
(* A call got 429 only if the worker had let through Limit calls of this   *)
(* user in the window that ended then: an entry that outlived its window,  *)
(* or a call that was itself refused, never counts against the user.       *)
(***************************************************************************)
RefusedOnlyWhenFull ==
  answer.status = "429" =>
    Cardinality(Recent(admitted[answer.worker][answer.user], answer.at)) >= Limit

(***************************************************************************)
(* The message of the 429, "Maximum 100 requests per minute", read as the  *)
(* service's promise: a user gets at most Limit calls through per window,  *)
(* whichever worker answers.                                               *)
(***************************************************************************)
ServiceWideBound ==
  \A u \in Users, from \in Time :
    LET Through(w) == {i \in 1..Len(admitted[w][u]) :
                         admitted[w][u][i] \in from..(from + Window - 1)}
    IN  Cardinality(UNION {{w} \X Through(w) : w \in Workers}) <= Limit
=============================================================================
