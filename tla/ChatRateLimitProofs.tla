------------------------ MODULE ChatRateLimitProofs ------------------------
(***************************************************************************)
(* Theorems about ChatRateLimit, for any workers, users, limit, window and *)
(* horizon.  The bound on the window does not follow from the deque alone: *)
(* the invariant relates the deque to everything that was admitted.        *)
(***************************************************************************)
EXTENDS ChatRateLimit, FiniteSetTheorems, TLAPS

(* The deque is the end of the history. *)
IsTail(b, h) ==
  /\ Len(b) <= Len(h)
  /\ \A i \in 1..Len(b) : b[i] = h[Len(h) - Len(b) + i]

(* What the deque has forgotten left the window before now. *)
Forgotten(b, h, now) ==
  \A i \in 1..Len(h) : i <= Len(h) - Len(b) => now - h[i] > Window

(* The history is in order of time, and in the past. *)
InOrder(h, now) ==
  /\ \A i, j \in 1..Len(h) : i <= j => h[i] <= h[j]
  /\ \A i \in 1..Len(h) : h[i] <= now

LogInv(b, h, now) ==
  /\ IsTail(b, h)
  /\ Forgotten(b, h, now)
  /\ InOrder(h, now)
  /\ Sparse(h)

Logs == \A w \in Workers, u \in Users : LogInv(store[w][u], admitted[w][u], clock)

Inv == TypeOK /\ Logs

-----------------------------------------------------------------------------
LEMMA TimesAreIntegers ==
  /\ \A t \in Time : t \in Int
  /\ \A h \in Seq(Time) : \A i \in 1..Len(h) : h[i] \in Int
  BY HorizonAssumption DEF Time

(* Popping keeps a tail, of the same history, with nothing young forgotten. *)
LEMMA PopKeepsLog ==
  ASSUME NEW b \in Seq(Time), NEW h \in Seq(Time), NEW now \in Time,
         NEW k \in 0..Len(b), LogInv(b, h, now), Pops(b, k, now)
  PROVE  /\ Kept(b, k) \in Seq(Time)
         /\ Len(Kept(b, k)) = Len(b) - k
         /\ LogInv(Kept(b, k), h, now)
  <1> DEFINE c == Kept(b, k)
  <1>1. c \in Seq(Time) /\ Len(c) = Len(b) - k /\ \A i \in 1..Len(c) : c[i] = b[k + i]
    <2>1. Len(b) \in Nat /\ k \in Nat /\ k <= Len(b) /\ c = SubSeq(b, k + 1, Len(b))
      BY DEF Kept
    <2> HIDE DEF c
    <2>2. c \in Seq(Time)
      BY <2>1
    <2>3. Len(c) = Len(b) - k
      BY <2>1
    <2>4. \A i \in 1..Len(c) : c[i] = b[k + i]
      BY <2>1, <2>3
    <2>5. QED
      BY <2>2, <2>3, <2>4
  <1> HIDE DEF c
  <1>2. IsTail(c, h)
    <2> SUFFICES ASSUME NEW i \in 1..Len(c) PROVE c[i] = h[Len(h) - Len(c) + i]
      BY <1>1 DEF LogInv, IsTail
    <2>1. k + i \in 1..Len(b) /\ Len(h) - Len(b) + (k + i) = Len(h) - Len(c) + i
      BY <1>1
    <2>2. b[k + i] = h[Len(h) - Len(b) + (k + i)]
      BY <2>1 DEF LogInv, IsTail
    <2>3. QED
      BY <1>1, <2>1, <2>2
  <1>3. Forgotten(c, h, now)
    <2> SUFFICES ASSUME NEW i \in 1..Len(h), i <= Len(h) - Len(c)
                 PROVE  now - h[i] > Window
      BY DEF Forgotten
    <2>1. CASE i <= Len(h) - Len(b)
      BY <2>1 DEF LogInv, Forgotten
    <2>2. CASE i > Len(h) - Len(b)
      <3>1. i - (Len(h) - Len(b)) \in 1..k
        BY <1>1, <2>2
      <3>2. h[i] = b[i - (Len(h) - Len(b))]
        BY <3>1, <2>2 DEF LogInv, IsTail
      <3>3. QED
        BY <3>1, <3>2 DEF Pops
    <2>3. QED
      BY <2>1, <2>2
  <1>4. QED
    BY <1>1, <1>2, <1>3 DEF LogInv, c

(* A call let through onto a deque that is not full keeps the history sparse. *)
LEMMA AppendKeepsLog ==
  ASSUME NEW c \in Seq(Time), NEW h \in Seq(Time), NEW now \in Time,
         LogInv(c, h, now), Len(c) < Limit
  PROVE  LogInv(Append(c, now), Append(h, now), now)
  <1> DEFINE d == Append(c, now)
             g == Append(h, now)
  <1>1. /\ Len(d) = Len(c) + 1 /\ \A i \in 1..Len(c) : d[i] = c[i]
        /\ d[Len(c) + 1] = now
        /\ Len(g) = Len(h) + 1 /\ \A i \in 1..Len(h) : g[i] = h[i]
        /\ g[Len(h) + 1] = now
    OBVIOUS
  <1> HIDE DEF d, g
  <1>2. IsTail(d, g)
    <2> SUFFICES ASSUME NEW i \in 1..Len(d) PROVE d[i] = g[Len(g) - Len(d) + i]
      BY <1>1 DEF LogInv, IsTail
    <2>1. CASE i = Len(d)
      BY <2>1, <1>1
    <2>2. CASE i \in 1..Len(c)
      <3>1. Len(h) - Len(c) + i \in 1..Len(h) /\ Len(g) - Len(d) + i = Len(h) - Len(c) + i
        BY <2>2, <1>1 DEF LogInv, IsTail
      <3>2. c[i] = h[Len(h) - Len(c) + i]
        BY <2>2 DEF LogInv, IsTail
      <3>3. QED
        BY <2>2, <3>1, <3>2, <1>1
    <2>3. QED
      BY <2>1, <2>2, <1>1
  <1>3. Forgotten(d, g, now)
    <2> SUFFICES ASSUME NEW i \in 1..Len(g), i <= Len(g) - Len(d)
                 PROVE  now - g[i] > Window
      BY DEF Forgotten
    <2>1. i \in 1..Len(h) /\ i <= Len(h) - Len(c)
      BY <1>1
    <2>2. QED
      BY <2>1, <1>1 DEF LogInv, Forgotten
  <1>4. InOrder(g, now)
    <2>1. ASSUME NEW i \in 1..Len(g) PROVE g[i] <= now
      <3>1. CASE i = Len(g)
        BY <3>1, <1>1, TimesAreIntegers
      <3>2. CASE i \in 1..Len(h)
        BY <3>2, <1>1 DEF LogInv, InOrder
      <3>3. QED
        BY <3>1, <3>2, <1>1
    <2>2. ASSUME NEW i \in 1..Len(g), NEW j \in 1..Len(g), i <= j
          PROVE  g[i] <= g[j]
      <3>1. CASE j = Len(g)
        BY <3>1, <2>1, <1>1
      <3>2. CASE j \in 1..Len(h)
        BY <3>2, <2>2, <1>1 DEF LogInv, InOrder
      <3>3. QED
        BY <3>1, <3>2, <1>1
    <2>3. QED
      BY <2>1, <2>2 DEF InOrder
  <1>5. Sparse(g)
    <2> SUFFICES ASSUME NEW i \in 1..Len(g), i + Limit <= Len(g)
                 PROVE  g[i + Limit] - g[i] > Window
      BY DEF Sparse
    <2>1. CASE i + Limit <= Len(h)
      BY <2>1, <1>1, LimitAssumption DEF LogInv, Sparse
    <2>2. CASE i + Limit = Len(h) + 1
      <3>1. i \in 1..Len(h) /\ i <= Len(h) - Len(c)
        BY <2>2, LimitAssumption
      <3>2. now - h[i] > Window
        BY <3>1 DEF LogInv, Forgotten
      <3>3. QED
        BY <3>1, <3>2, <2>2, <1>1
    <2>3. QED
      BY <2>1, <2>2, <1>1, LimitAssumption
  <1>6. QED
    BY <1>2, <1>3, <1>4, <1>5 DEF LogInv, d, g

(* Time alone makes no forgotten call young again. *)
LEMMA TickKeepsLog ==
  ASSUME NEW b \in Seq(Time), NEW h \in Seq(Time), NEW now \in Time,
         LogInv(b, h, now)
  PROVE  LogInv(b, h, now + 1)
  <1>1. now \in Int /\ \A i \in 1..Len(h) : h[i] \in Int
    BY TimesAreIntegers
  <1>2. Forgotten(b, h, now + 1)
    BY <1>1, WindowAssumption DEF LogInv, Forgotten
  <1>3. InOrder(h, now + 1)
    BY <1>1 DEF LogInv, InOrder
  <1>4. QED
    BY <1>2, <1>3 DEF LogInv

LEMMA EmptyLog ==
  ASSUME NEW now \in Time
  PROVE  <<>> \in Seq(Time) /\ LogInv(<<>>, <<>>, now)
  BY DEF LogInv, IsTail, Forgotten, InOrder, Sparse

-----------------------------------------------------------------------------
LEMMA InitInv == Init => Inv
  <1> SUFFICES ASSUME Init PROVE Inv
    OBVIOUS
  <1>1. 0 \in Time
    BY HorizonAssumption DEF Time
  <1>2. TypeOK
    BY <1>1, EmptyLog DEF Init, TypeOK, NoEntries
  <1>3. Logs
    BY <1>1, EmptyLog DEF Init, Logs, NoEntries
  <1>4. QED
    BY <1>2, <1>3 DEF Inv

LEMMA NextInv == Inv /\ [Next]_vars => Inv'
  <1> SUFFICES ASSUME Inv, [Next]_vars PROVE Inv'
    OBVIOUS
  <1> USE DEF Inv
  <1>1. CASE Tick
    <2>1. clock' \in Time /\ clock' = clock + 1
      BY <1>1, HorizonAssumption DEF Tick, TypeOK, Time
    <2>2. TypeOK'
      BY <1>1, <2>1 DEF Tick, TypeOK
    <2>3. Logs'
      BY <1>1, <2>1, TickKeepsLog DEF Tick, TypeOK, Logs
    <2>4. QED
      BY <2>2, <2>3
  <1>2. ASSUME NEW w \in Workers, Restart(w) PROVE Inv'
    <2>1. TypeOK'
      BY <1>2, EmptyLog DEF Restart, TypeOK, NoEntries
    <2>2. Logs'
      BY <1>2, EmptyLog DEF Restart, TypeOK, NoEntries, Logs
    <2>3. QED
      BY <2>1, <2>2
  <1>3. ASSUME NEW w \in Workers, NEW u \in Users, Admit(w, u) PROVE Inv'
    <2> DEFINE b == store[w][u]
               h == admitted[w][u]
    <2>1. PICK k \in 0..Len(b) :
            /\ Pops(b, k, clock)
            /\ Len(Kept(b, k)) < Limit
            /\ store' = [store EXCEPT ![w][u] = Append(Kept(b, k), clock)]
            /\ admitted' = [admitted EXCEPT ![w][u] = Append(h, clock)]
            /\ answer' = Reply(w, u, "ok")
            /\ UNCHANGED clock
      BY <1>3 DEF Admit
    <2>2. b \in Seq(Time) /\ h \in Seq(Time) /\ clock \in Time /\ LogInv(b, h, clock)
      BY DEF TypeOK, Logs
    <2>3. Kept(b, k) \in Seq(Time) /\ LogInv(Kept(b, k), h, clock)
      BY <2>1, <2>2, PopKeepsLog
    <2>4. LogInv(Append(Kept(b, k), clock), Append(h, clock), clock)
      BY <2>1, <2>2, <2>3, AppendKeepsLog
    <2>5. /\ Append(Kept(b, k), clock) \in Seq(Time)
          /\ Append(h, clock) \in Seq(Time)
      BY <2>2, <2>3
    <2>6. TypeOK'
      BY <2>1, <2>2, <2>5 DEF TypeOK, Reply, Answer
    <2>7. Logs'
      BY <2>1, <2>4 DEF TypeOK, Logs
    <2>8. QED
      BY <2>6, <2>7
  <1>4. ASSUME NEW w \in Workers, NEW u \in Users, Reject(w, u) PROVE Inv'
    <2> DEFINE b == store[w][u]
               h == admitted[w][u]
    <2>1. PICK k \in 0..Len(b) :
            /\ Pops(b, k, clock)
            /\ Len(Kept(b, k)) >= Limit
            /\ store' = [store EXCEPT ![w][u] = Kept(b, k)]
            /\ answer' = Reply(w, u, "429")
            /\ UNCHANGED <<clock, admitted>>
      BY <1>4 DEF Reject
    <2>2. b \in Seq(Time) /\ h \in Seq(Time) /\ clock \in Time /\ LogInv(b, h, clock)
      BY DEF TypeOK, Logs
    <2>3. Kept(b, k) \in Seq(Time) /\ LogInv(Kept(b, k), h, clock)
      BY <2>1, <2>2, PopKeepsLog
    <2>4. TypeOK'
      BY <2>1, <2>2, <2>3 DEF TypeOK, Reply, Answer
    <2>5. Logs'
      BY <2>1, <2>3 DEF TypeOK, Logs
    <2>6. QED
      BY <2>4, <2>5
  <1>5. CASE UNCHANGED vars
    BY <1>5 DEF vars, TypeOK, Logs
  <1>6. QED
    BY <1>1, <1>2, <1>3, <1>4, <1>5 DEF Next, Enforce

(* The variables keep their types. *)
THEOREM TypeCorrect == Spec => []TypeOK
  <1>1. Inv => TypeOK
    BY DEF Inv
  <1>2. QED
    BY InitInv, NextInv, <1>1, PTL DEF Spec

(***************************************************************************)
(* WindowBound: no worker lets a user through more than Limit times in any *)
(* window, for every limit and every window length.                        *)
(***************************************************************************)
THEOREM WindowBoundHolds == Spec => []WindowBound
  <1>1. Inv => WindowBound
    BY DEF Inv, Logs, LogInv, WindowBound
  <1>2. QED
    BY InitInv, NextInv, <1>1, PTL DEF Spec

-----------------------------------------------------------------------------
(* A deque that is full after popping holds Limit calls of the last window. *)
LEMMA FullMeansRecent ==
  ASSUME NEW c \in Seq(Time), NEW h \in Seq(Time), NEW now \in Time,
         LogInv(c, h, now), Len(c) >= Limit, now - c[1] <= Window
  PROVE  Cardinality(Recent(h, now)) >= Limit
  <1> DEFINE first == Len(h) - Len(c) + 1
             last  == Len(h)
  <1>1. first \in 1..last /\ last - first + 1 = Len(c) /\ h[first] = c[1]
    BY LimitAssumption DEF LogInv, IsTail
  <1>2. first..last \subseteq Recent(h, now)
    <2> SUFFICES ASSUME NEW i \in first..last PROVE i \in Recent(h, now)
      OBVIOUS
    <2>1. i \in 1..Len(h)
      BY <1>1
    <2>2. h[first] <= h[i] /\ h[i] <= now
      BY <1>1, <2>1 DEF LogInv, InOrder
    <2>3. h[first] \in Int /\ h[i] \in Int /\ now \in Int
      BY <1>1, <2>1, TimesAreIntegers
    <2>4. now - h[i] <= Window
      BY <1>1, <2>2, <2>3, WindowAssumption
    <2>5. QED
      BY <2>1, <2>2, <2>4 DEF Recent
  <1>3. IsFiniteSet(Recent(h, now))
    <2>1. IsFiniteSet(1..Len(h))
      BY FS_Interval
    <2>2. QED
      BY <2>1, FS_Subset DEF Recent
  <1>4. Cardinality(first..last) = Len(c) /\ IsFiniteSet(first..last)
    BY <1>1, FS_Interval
  <1>5. Cardinality(first..last) <= Cardinality(Recent(h, now))
    BY <1>2, <1>3, FS_Subset
  <1>6. Cardinality(Recent(h, now)) \in Nat
    BY <1>3, FS_CardinalityType
  <1>7. QED
    BY <1>4, <1>5, <1>6, LimitAssumption

(***************************************************************************)
(* RefusedOnlyWhenFull: every 429 was given to a user whom the worker had  *)
(* let through Limit times in the window that ended then.                  *)
(***************************************************************************)
THEOREM RefusedOnlyWhenFullHolds == Spec => []RefusedOnlyWhenFull
  <1>1. Init => RefusedOnlyWhenFull
    BY DEF Init, NoAnswer, RefusedOnlyWhenFull
  <1>2. Inv /\ RefusedOnlyWhenFull /\ [Next]_vars => RefusedOnlyWhenFull'
    <2> SUFFICES ASSUME Inv, RefusedOnlyWhenFull, [Next]_vars
                 PROVE  RefusedOnlyWhenFull'
      OBVIOUS
    <2>1. CASE Tick
      BY <2>1 DEF Tick, RefusedOnlyWhenFull
    <2>2. ASSUME NEW w \in Workers, Restart(w) PROVE RefusedOnlyWhenFull'
      BY <2>2 DEF Restart, NoAnswer, RefusedOnlyWhenFull
    <2>3. ASSUME NEW w \in Workers, NEW u \in Users, Admit(w, u)
          PROVE  RefusedOnlyWhenFull'
      BY <2>3 DEF Admit, Reply, RefusedOnlyWhenFull
    <2>4. ASSUME NEW w \in Workers, NEW u \in Users, Reject(w, u)
          PROVE  RefusedOnlyWhenFull'
      <3> DEFINE b == store[w][u]
                 h == admitted[w][u]
      <3>1. PICK k \in 0..Len(b) :
              /\ Pops(b, k, clock)
              /\ Len(Kept(b, k)) >= Limit
              /\ answer' = Reply(w, u, "429")
              /\ UNCHANGED admitted
        BY <2>4 DEF Reject
      <3>2. b \in Seq(Time) /\ h \in Seq(Time) /\ clock \in Time /\ LogInv(b, h, clock)
        BY DEF Inv, TypeOK, Logs
      <3>3. /\ Kept(b, k) \in Seq(Time) /\ LogInv(Kept(b, k), h, clock)
            /\ Len(Kept(b, k)) = Len(b) - k
        BY <3>1, <3>2, PopKeepsLog
      <3>4. clock - Kept(b, k)[1] <= Window
        <4>1. k < Len(b) /\ Kept(b, k)[1] = b[k + 1]
          BY <3>1, <3>2, <3>3, LimitAssumption DEF Kept
        <4>2. QED
          BY <4>1, <3>1 DEF Pops
      <3>5. Cardinality(Recent(h, clock)) >= Limit
        BY <3>1, <3>2, <3>3, <3>4, FullMeansRecent
      <3>6. QED
        BY <3>1, <3>5 DEF Reply, RefusedOnlyWhenFull
    <2>5. CASE UNCHANGED vars
      BY <2>5 DEF vars, RefusedOnlyWhenFull
    <2>6. QED
      BY <2>1, <2>2, <2>3, <2>4, <2>5 DEF Next, Enforce
  <1>3. QED
    BY InitInv, NextInv, <1>1, <1>2, PTL DEF Spec
=============================================================================
