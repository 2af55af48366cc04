----------------------------- MODULE StaleReads -----------------------------
(***************************************************************************)
(* What a cache without locks promises its readers: an answer shows the    *)
(* data as it was at some moment, no older than the oldest copy that was   *)
(* in circulation when the reader asked; and what has gone out of          *)
(* circulation never comes back.                                           *)
(***************************************************************************)
EXTENDS Integers

CONSTANT Readers

VARIABLES
  truth,   \* how often the data has changed
  oldest,  \* the age of the oldest copy that may still be served
  asked,   \* asked[r]: what was oldest when r asked
  answer   \* answer[r]: how many changes r's answer shows; -1 before it

vars == <<truth, oldest, asked, answer>>

None == -1

Init ==
  /\ truth = 0
  /\ oldest = 0
  /\ asked = [r \in Readers |-> None]
  /\ answer = [r \in Readers |-> None]

Change ==
  /\ truth' = truth + 1
  /\ oldest' \in oldest .. truth'
  /\ UNCHANGED <<asked, answer>>

(* Copies are dropped. *)
Retire ==
  /\ oldest' \in oldest .. truth
  /\ UNCHANGED <<truth, asked, answer>>

Ask(r) ==
  /\ asked[r] = None
  /\ asked' = [asked EXCEPT ![r] = oldest]
  /\ UNCHANGED <<truth, oldest, answer>>

Answer(r) ==
  /\ asked[r] # None /\ answer[r] = None
  /\ \E v \in asked[r] .. truth : answer' = [answer EXCEPT ![r] = v]
  /\ oldest' \in oldest .. truth
  /\ UNCHANGED <<truth, asked>>

Next == Change \/ Retire \/ \E r \in Readers : Ask(r) \/ Answer(r)

Spec == Init /\ [][Next]_vars
=============================================================================
