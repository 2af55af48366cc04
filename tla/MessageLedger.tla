--------------------------- MODULE MessageLedger ---------------------------
(***************************************************************************)
(* What POST /chat/message promises, without the database under it: a      *)
(* message and the increment of its user's monthly question count appear   *)
(* together or not at all, a request stores at most one message, and it is *)
(* answered at most once, with an answer that does not contradict what is  *)
(* stored.  Implemented by ChatMessage.                                    *)
(***************************************************************************)
EXTENDS Naturals

CONSTANTS Requests, Trackers

VARIABLES
  stored,   \* the requests whose message is in the database
  count,    \* count[k]: question_count of tracker k, a user and a month
  answer    \* answer[r]: what the client of r was told

vars == <<stored, count, answer>>

Answers == {"ok", "client_error", "error", "peeked"}

Init ==
  /\ stored = {}
  /\ count = [k \in Trackers |-> 0]
  /\ answer = [r \in Requests |-> "none"]

(* The message of r and its increment become visible in one step. *)
Store(r) ==
  /\ r \notin stored
  /\ answer[r] = "none"
  /\ stored' = stored \union {r}
  /\ \E k \in Trackers : count' = [count EXCEPT ![k] = @ + 1]
  /\ UNCHANGED answer

(* "ok" follows the message, "client_error" excludes it, "error" may mean either. *)
Tell(r, a) ==
  /\ answer[r] = "none"
  /\ a = "ok" => r \in stored
  /\ a \in {"client_error", "peeked"} => r \notin stored
  /\ answer' = [answer EXCEPT ![r] = a]
  /\ UNCHANGED <<stored, count>>

Next == \E r \in Requests : Store(r) \/ \E a \in Answers : Tell(r, a)

Spec == Init /\ [][Next]_vars
=============================================================================
