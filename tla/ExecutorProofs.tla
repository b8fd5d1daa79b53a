--------------------------- MODULE ExecutorProofs ---------------------------
(***************************************************************************)
(* Proofs about Executor, for any number of jobs, clients, workers, failed *)
(* attempts and hanging tasks: what is merged belongs to the attempt that  *)
(* is open, and the weights are divided by the count of those in the sum.  *)
(***************************************************************************)
EXTENDS Executor, TLAPS, WellFoundedInduction, NaturalsInduction, SequenceTheorems

-----------------------------------------------------------------------------
(* The operators on queues and on the list of jobs.                        *)

(* A set of natural numbers has a least one; a bounded one a greatest.     *)
LEMMA Least ==
  ASSUME NEW T, T \subseteq Nat, T # {}
  PROVE  \E n \in T : \A m \in T : n <= m
<1>1. PICK n \in T : \A m \in T : ~ (<<m, n>> \in OpToRel(<, Nat))
  BY NatLessThanWellFounded, WFMin
<1>2. ASSUME NEW m \in T PROVE n <= m
  <2>1. ~ (m < n)
    BY <1>1, <1>2 DEF OpToRel
  <2> QED  BY <2>1
<1> QED  BY <1>2

LEMMA Greatest ==
  ASSUME NEW N \in Nat, NEW T, T \subseteq 0 .. N, T # {}
  PROVE  \E n \in T : \A m \in T : m <= n
<1> DEFINE U == {N - m : m \in T}
<1>1. U \subseteq Nat /\ U # {}
  OBVIOUS
<1>2. PICK u \in U : \A v \in U : u <= v
  <2> HIDE DEF U
  <2> QED  BY <1>1, Least
<1>3. PICK n \in T : u = N - n
  OBVIOUS
<1>4. ASSUME NEW m \in T PROVE m <= n
  <2>1. u <= N - m
    BY <1>2
  <2> QED  BY <1>3, <2>1
<1> QED  BY <1>4

(* A train task takes some of those behind it.                             *)
LEMMA BatchSize ==
  ASSUME ExecutorAssumption, NEW q \in Seq(Queued), q # <<>>
  PROVE  BatchOf(q) \in 1 .. Len(q)
<1> DEFINE same(i) == q[i].event = q[1].event /\ q[i].round = q[1].round
           sizes == {n \in 1 .. Len(q) : n <= Batch /\ \A i \in 1 .. n : same(i)}
<1>1. Len(q) \in Nat /\ 1 \in 1 .. Len(q)
  OBVIOUS
<1>2. CASE q[1].event # "train"
  BY <1>1, <1>2 DEF BatchOf
<1>3. CASE q[1].event = "train"
  <2>1. 1 <= Batch /\ Batch \in Nat
    BY DEF ExecutorAssumption
  <2>2. sizes \subseteq 0 .. Len(q) /\ sizes \subseteq 1 .. Len(q) /\ 1 \in sizes
    BY <1>1, <2>1
  <2>3. BatchOf(q) = CHOOSE n \in sizes : \A m \in sizes : m <= n
    BY <1>3 DEF BatchOf
  <2> HIDE DEF sizes
  <2>4. \E n \in sizes : \A m \in sizes : m <= n
    BY <1>1, <2>2, Greatest
  <2>5. BatchOf(q) \in sizes
    BY <2>3, <2>4
  <2> QED  BY <2>2, <2>5
<1> QED  BY <1>2, <1>3

(* A failed round takes tasks from the end of the queue.                   *)
LEMMA TrainedPrefix ==
  ASSUME NEW j \in Job, NEW r, queue[j] \in Seq(Queued)
  PROVE  \E n \in 0 .. Len(queue[j]) : Trained(j, r) = SubSeq(queue[j], 1, n)
<1> DEFINE N == Len(queue[j])
           trains(i) == queue[j][i].event = "train" /\ queue[j][i].round = r
           kept == {i \in 0 .. N : \A x \in i + 1 .. N : trains(x)}
<1>1. N \in Nat
  OBVIOUS
<1>2. kept \subseteq Nat /\ kept \subseteq 0 .. N /\ N \in kept
  BY <1>1
<1>3. Trained(j, r) = SubSeq(queue[j], 1, CHOOSE i \in kept : \A x \in kept : i <= x)
  BY DEF Trained
<1> HIDE DEF kept
<1>4. \E i \in kept : \A x \in kept : i <= x
  BY <1>2, Least
<1>5. (CHOOSE i \in kept : \A x \in kept : i <= x) \in kept
  BY <1>4
<1> QED  BY <1>2, <1>3, <1>5

(* The list of jobs, turned by k.                                          *)
LEMMA PoolTurned ==
  ASSUME pool \in Seq(Job), \A i, k \in 1 .. Len(pool) : pool[i] = pool[k] => i = k,
         NEW k \in 0 .. Len(pool) - 1
  PROVE  /\ Rotated(k) \in Seq(Job)
         /\ \A i, m \in 1 .. Len(Rotated(k)) : Rotated(k)[i] = Rotated(k)[m] => i = m
         /\ \A j \in Job : (\E i \in 1 .. Len(pool) : pool[i] = j)
                           <=> \E i \in 1 .. Len(Rotated(k)) : Rotated(k)[i] = j
<1> DEFINE n == Len(pool)
           t == Rotated(k)
<1>1. /\ t \in Seq(Job) /\ Len(t) = n /\ n \in Nat /\ k \in Nat
      /\ \A i \in 1 .. n : t[i] = IF i <= n - k THEN pool[i + k] ELSE pool[i - (n - k)]
  BY DEF Rotated
<1> HIDE DEF t
<1>2. ASSUME NEW i \in 1 .. n, NEW m \in 1 .. n, t[i] = t[m] PROVE i = m
  <2> DEFINE at(h) == IF h <= n - k THEN h + k ELSE h - (n - k)
  <2>1. \A h \in 1 .. n : at(h) \in 1 .. n /\ t[h] = pool[at(h)]
    BY <1>1
  <2>2. at(i) = at(m)
    <3> HIDE DEF at
    <3> QED  BY <1>2, <2>1
  <2> QED  BY <1>1, <2>2
<1>3. ASSUME NEW j \in Job, NEW i \in 1 .. n, pool[i] = j PROVE \E m \in 1 .. n : t[m] = j
  <2>1. CASE i > k
    <3>1. i - k \in 1 .. n /\ i - k <= n - k /\ (i - k) + k = i
      BY <1>1, <2>1
    <3>2. t[i - k] = j
      BY <1>1, <1>3, <3>1
    <3> QED  BY <3>1, <3>2
  <2>2. CASE i <= k
    <3>1. i + (n - k) \in 1 .. n /\ ~ (i + (n - k) <= n - k) /\ (i + (n - k)) - (n - k) = i
      BY <1>1, <2>2
    <3>2. t[i + (n - k)] = j
      BY <1>1, <1>3, <3>1
    <3> QED  BY <3>1, <3>2
  <2> QED  BY <1>1, <2>1, <2>2
<1>4. ASSUME NEW j \in Job, NEW i \in 1 .. n, t[i] = j PROVE \E m \in 1 .. n : pool[m] = j
  <2>1. CASE i <= n - k
    <3>1. i + k \in 1 .. n /\ pool[i + k] = j
      BY <1>1, <1>4, <2>1
    <3> QED  BY <3>1
  <2>2. CASE ~ (i <= n - k)
    <3>1. i - (n - k) \in 1 .. n /\ pool[i - (n - k)] = j
      BY <1>1, <1>4, <2>2
    <3> QED  BY <3>1
  <2> QED  BY <2>1, <2>2
<1> QED  BY <1>1, <1>2, <1>3, <1>4 DEF t

(* The list of jobs without one of them.                                   *)
LEMMA PoolShorter ==
  ASSUME pool \in Seq(Job), \A i, k \in 1 .. Len(pool) : pool[i] = pool[k] => i = k,
         NEW j \in Job
  PROVE  /\ PoolWithout(j) \in Seq(Job)
         /\ \A i, m \in 1 .. Len(PoolWithout(j)) :
              PoolWithout(j)[i] = PoolWithout(j)[m] => i = m
         /\ \A h \in Job : (\E i \in 1 .. Len(PoolWithout(j)) : PoolWithout(j)[i] = h)
                           <=> h # j /\ \E i \in 1 .. Len(pool) : pool[i] = h
<1> DEFINE n == Len(pool)
           t == PoolWithout(j)
<1>1. CASE ~ \E i \in 1 .. n : pool[i] = j
  <2>1. t = pool
    BY <1>1 DEF PoolWithout, RemoveFirst
  <2> QED  BY <1>1, <2>1
<1>2. CASE \E i \in 1 .. n : pool[i] = j
  <2> DEFINE at == {i \in 1 .. n : pool[i] = j}
  <2>1. PICK x \in 1 .. n : pool[x] = j
    BY <1>2
  <2>2. SelectInSeq(pool, LAMBDA v : v = j) = x
    <3>1. at = {x}
      BY <2>1
    <3>2. SelectInSeq(pool, LAMBDA v : v = j) = IF at # {} THEN Min(at) ELSE 0
      BY Zenon DEF SelectInSeq
    <3>3. Min({x}) = x
      BY DEF Min
    <3> HIDE DEF at
    <3> QED  BY <3>1, <3>2, <3>3
  <2>3. t = SubSeq(pool, 1, x - 1) \o SubSeq(pool, x + 1, n)
    <3>1. t = RemoveAt(pool, SelectInSeq(pool, LAMBDA v : v = j))
      BY <1>2, Zenon DEF PoolWithout, RemoveFirst
    <3> QED  BY <2>2, <3>1 DEF RemoveAt
  <2>4. /\ t \in Seq(Job) /\ n \in Nat /\ Len(t) = n - 1
        /\ \A i \in 1 .. n - 1 : t[i] = IF i < x THEN pool[i] ELSE pool[i + 1]
    <3> DEFINE a == SubSeq(pool, 1, x - 1)
               b == SubSeq(pool, x + 1, n)
    <3>1. n \in Nat /\ x \in 1 .. n
      OBVIOUS
    <3>2. a \in Seq(Job) /\ Len(a) = x - 1 /\ \A i \in 1 .. x - 1 : a[i] = pool[i]
      BY <3>1
    <3>3. b \in Seq(Job) /\ Len(b) = n - x /\ \A i \in 1 .. n - x : b[i] = pool[x + i]
      BY <3>1
    <3> HIDE DEF t, a, b, n
    <3>4. /\ a \o b \in Seq(Job) /\ Len(a \o b) = Len(a) + Len(b)
          /\ \A i \in 1 .. Len(a) + Len(b) :
               (a \o b)[i] = IF i <= Len(a) THEN a[i] ELSE b[i - Len(a)]
      BY <3>2, <3>3, ConcatProperties
    <3>5. Len(a) + Len(b) = n - 1
      BY <3>1, <3>2, <3>3
    <3>6. ASSUME NEW i \in 1 .. n - 1
          PROVE  (a \o b)[i] = IF i < x THEN pool[i] ELSE pool[i + 1]
      <4>1. CASE i < x
        <5>1. i \in 1 .. x - 1 /\ i \in 1 .. Len(a) + Len(b) /\ i <= Len(a)
          BY <3>1, <3>2, <3>5, <4>1
        <5> QED  BY <3>2, <3>4, <4>1, <5>1
      <4>2. CASE ~ (i < x)
        <5>1. /\ i - (x - 1) \in 1 .. n - x /\ i \in 1 .. Len(a) + Len(b)
              /\ ~ (i <= Len(a)) /\ x + (i - (x - 1)) = i + 1
          BY <3>1, <3>2, <3>5, <4>2
        <5> QED  BY <3>2, <3>3, <3>4, <4>2, <5>1
      <4> QED  BY <4>1, <4>2
    <3> QED  BY <2>3, <3>1, <3>4, <3>5, <3>6 DEF a, b
  <2> HIDE DEF t
  <2>5. ASSUME NEW i \in 1 .. n - 1, NEW m \in 1 .. n - 1, t[i] = t[m] PROVE i = m
    BY <2>4, <2>5
  <2>6. ASSUME NEW h \in Job, NEW i \in 1 .. n, pool[i] = h, h # j
        PROVE  \E m \in 1 .. n - 1 : t[m] = h
    <3>1. CASE i < x
      BY <2>4, <2>6, <3>1
    <3>2. CASE i > x
      <4>1. i - 1 \in 1 .. n - 1 /\ t[i - 1] = h
        BY <2>4, <2>6, <3>2
      <4> QED  BY <4>1
    <3>3. i # x
      BY <2>1, <2>6
    <3> QED  BY <3>1, <3>2, <3>3
  <2>7. ASSUME NEW i \in 1 .. n - 1
        PROVE  t[i] # j /\ \E m \in 1 .. n : pool[m] = t[i]
    BY <2>1, <2>4
  <2> QED  BY <2>4, <2>5, <2>6, <2>7 DEF t
<1> QED  BY <1>1, <1>2

-----------------------------------------------------------------------------
(* Type correctness.                                                       *)

LEMMA Events ==
  /\ Idle.event = "idle" /\ Idle.stage = "idle" /\ Idle \notin Doing
  /\ -1 \notin Nat /\ Nat \subseteq Number /\ -1 \in Number
  BY DEF Idle, Doing, Number

LEMMA TypeInit == ExInit => TypeOK
<1> SUFFICES ASSUME ExInit PROVE TypeOK
  OBVIOUS
<1>1. StreamTypeOK
  BY DEF ExInit, Init, StreamTypeOK
<1> QED  BY <1>1, ExecutorAssumption DEF ExInit, TypeOK

(* The tasks that calls put into a queue.                                  *)
LEMMA NewTask ==
  ASSUME NEW event \in {"train", "aggregate", "fail", "test", "agg_test", "finish"},
         NEW r \in Nat, NEW a \in Number, NEW c \in Client \cup {None}
  PROVE  /\ Task(event, r, a, c) \in Queued
         /\ Task(event, r, a, c).event = event
         /\ Task(event, r, a, c).round = r /\ Task(event, r, a, c).attempt = a
  BY DEF Task, Queued

LEMMA NewTests ==
  ASSUME NEW r \in Nat, NEW a \in Number
  PROVE  /\ TestOf(r, a) \in Seq(Queued) /\ Len(TestOf(r, a)) = 2
         /\ TestOf(r, a)[1] = Task("test", r, a, None)
         /\ TestOf(r, a)[2] = Task("agg_test", r, a, None)
<1>1. Task("test", r, a, None) \in Queued /\ Task("agg_test", r, a, None) \in Queued
  BY NewTask
<1> QED  BY <1>1 DEF TestOf

(* The parameter server's part of the calls.                               *)
LEMMA StreamTypes ==
  ASSUME StreamTypeOK, NEW j \in Job,
         \/ \E c \in Client : Train(j, c)
         \/ TrainLost(j) \/ Aggregate(j) \/ RoundFail(j) \/ Finish(j)
  PROVE  /\ StreamTypeOK'
         /\ \A i \in Job : round[i] <= round'[i] /\ (ended[i] => ended'[i])
         /\ \A i \in Job : i # j => round'[i] = round[i]
<1>0. /\ round \in [Job -> Nat \ {0}] /\ results \in [Job -> SUBSET Client]
      /\ count \in [Job -> Nat] /\ ended \in [Job -> BOOLEAN]
  BY DEF StreamTypeOK
<1>1. ASSUME NEW c \in Client, Train(j, c)
      PROVE  StreamTypeOK' /\ UNCHANGED <<round, ended>>
  BY <1>0, <1>1 DEF Train, StreamTypeOK
<1>2. CASE TrainLost(j)
  <2>1. StreamTypeOK' /\ UNCHANGED <<round, ended>>
    BY <1>0, <1>2 DEF TrainLost, StreamTypeOK
  <2> QED  BY <1>0, <2>1
<1>3. CASE Aggregate(j)
  <2>1. /\ round' = [round EXCEPT ![j] = @ + 1] /\ ended' = ended
        /\ results' \in [Job -> SUBSET Client] /\ count' \in [Job -> Nat]
    BY <1>0, <1>3 DEF Aggregate, NewAttempt
  <2>2. round' \in [Job -> Nat \ {0}] /\ round'[j] = round[j] + 1
    BY <1>0, <2>1
  <2> QED  BY <1>0, <2>1, <2>2 DEF StreamTypeOK
<1>4. CASE RoundFail(j)
  <2>1. StreamTypeOK' /\ UNCHANGED <<round, ended>>
    BY <1>0, <1>4 DEF RoundFail, NewAttempt, StreamTypeOK
  <2> QED  BY <1>0, <2>1
<1>5. CASE Finish(j)
  <2>1. UNCHANGED <<round, results, count>> /\ ended' = [ended EXCEPT ![j] = TRUE]
    BY <1>5 DEF Finish
  <2> QED  BY <1>0, <2>1 DEF StreamTypeOK
<1> QED  BY <1>0, <1>1, <1>2, <1>3, <1>4, <1>5

(* What the calls do to the queue of their job: they keep its beginning,   *)
(* and add some of the tasks that follow.                                  *)
Added(j, p, x) ==
  /\ p \in Seq(Queued) /\ x \in Seq(Queued) /\ queue' = [queue EXCEPT ![j] = p \o x]
  /\ Len(p) <= Len(queue[j]) /\ \A i \in 1 .. Len(p) : p[i] = queue[j][i]

LEMMA AddedTrain ==
  ASSUME TypeOK, NEW j \in Job, NEW c \in Client, RegisterTrain(j, c)
  PROVE  Added(j, queue[j], <<Task("train", round[j], attempt[j], c)>>)
<1>1. Task("train", round[j], attempt[j], c) \in Queued
  BY NewTask, Events DEF TypeOK, StreamTypeOK
<1> QED  BY <1>1 DEF RegisterTrain, Insert, Added, TypeOK

LEMMA AddedAggregate ==
  ASSUME TypeOK, NEW j \in Job, RegisterAggregate(j)
  PROVE  LET t == Task("aggregate", round[j], attempt[j], None) IN
         \/ Added(j, queue[j], <<t>> \o <<>>)
         \/ Added(j, queue[j], <<t>> \o TestOf(round[j], attempt[j]))
<1> DEFINE t == Task("aggregate", round[j], attempt[j], None)
<1>1. t \in Queued /\ TestOf(round[j], attempt[j]) \in Seq(Queued)
  BY NewTask, NewTests, Events DEF TypeOK, StreamTypeOK
<1>2. <<t>> \o <<>> \in Seq(Queued) /\ <<t>> \o TestOf(round[j], attempt[j]) \in Seq(Queued)
  <2> HIDE DEF t
  <2> QED  BY <1>1
<1>3. \/ queue' = [queue EXCEPT ![j] = queue[j] \o (<<t>> \o <<>>)]
      \/ queue' = [queue EXCEPT ![j] = queue[j] \o (<<t>> \o TestOf(round[j], attempt[j]))]
  BY DEF RegisterAggregate, Insert
<1>4. queue[j] \in Seq(Queued)
  BY DEF TypeOK
<1>5. ASSUME NEW x \in Seq(Queued), queue' = [queue EXCEPT ![j] = queue[j] \o x]
      PROVE  Added(j, queue[j], x)
  BY <1>4, <1>5 DEF Added
<1> QED  BY <1>2, <1>3, <1>5

LEMMA AddedFail ==
  ASSUME TypeOK, NEW j \in Job, RegisterFail(j)
  PROVE  \E p : Added(j, p, <<Task("fail", round[j], attempt[j], None)>>)
<1> DEFINE t == Task("fail", round[j], attempt[j], None)
<1>1. t \in Queued
  BY NewTask, Events DEF TypeOK, StreamTypeOK
<1>2. queue[j] \in Seq(Queued)
  BY DEF TypeOK
<1>3. PICK n \in 0 .. Len(queue[j]) : Trained(j, round[j]) = SubSeq(queue[j], 1, n)
  BY <1>2, TrainedPrefix
<1> DEFINE p == SubSeq(queue[j], 1, n)
<1>4. /\ p \in Seq(Queued) /\ Len(p) <= Len(queue[j])
      /\ \A i \in 1 .. Len(p) : p[i] = queue[j][i]
  BY <1>2
<1>5. queue' = [queue EXCEPT ![j] = Append(p, t)]
  BY <1>3 DEF RegisterFail
<1>6. Append(p, t) = p \o <<t>>
  <2> HIDE DEF p, t
  <2> QED  BY <1>1, <1>4
<1>7. <<t>> \in Seq(Queued)
  BY <1>1
<1> QED  BY <1>4, <1>5, <1>6, <1>7 DEF Added

LEMMA AddedFinish ==
  ASSUME TypeOK, NEW j \in Job, RegisterFinish(j)
  PROVE  \E r \in Nat :
           Added(j, queue[j], Append(TestOf(r, -1), Task("finish", r, -1, None)))
<1> DEFINE r == IF round[j] <= Rounds[j] THEN round[j] ELSE Rounds[j]
           x == Append(TestOf(r, -1), Task("finish", r, -1, None))
<1>1. r \in Nat
  BY StreamAssumption DEF TypeOK, StreamTypeOK
<1>2. TestOf(r, -1) \in Seq(Queued) /\ Task("finish", r, -1, None) \in Queued
  <2> HIDE DEF r
  <2> QED  BY <1>1, NewTask, NewTests, Events
<1>3. x \in Seq(Queued)
  BY <1>2
<1>4. queue' = [queue EXCEPT ![j] = queue[j] \o x]
  BY DEF RegisterFinish, Insert
<1> HIDE DEF x
<1>5. Added(j, queue[j], x)
  BY <1>3, <1>4 DEF Added, TypeOK
<1> QED  BY <1>1, <1>5 DEF x

LEMMA AddedType ==
  ASSUME queue \in [Job -> Seq(Queued)], NEW j \in Job, NEW p, NEW x, Added(j, p, x)
  PROVE  /\ queue' \in [Job -> Seq(Queued)]
         /\ queue'[j] = p \o x /\ \A i \in Job : i # j => queue'[i] = queue[i]
<1>1. p \o x \in Seq(Queued) /\ queue' = [queue EXCEPT ![j] = p \o x]
  BY ConcatProperties DEF Added
<1> HIDE DEF Added
<1> QED  BY <1>1

(* The calls change nothing of what the loop and the workers do.           *)
LEMMA CallFrame ==
  ASSUME NEW j \in Job, Calls(j)
  PROVE  /\ UNCHANGED <<loop, running, started, sums, hung, closed>>
         /\ Register(j) \/ (state[j] = "known" /\ UNCHANGED <<state, pool>>)
         /\ \/ UNCHANGED streamVars
            \/ \E c \in Client : Train(j, c)
            \/ TrainLost(j) \/ Aggregate(j) \/ RoundFail(j) \/ Finish(j)
         /\ \/ attempt' = attempt \/ attempt' = [attempt EXCEPT ![j] = 0]
            \/ attempt' = [attempt EXCEPT ![j] = @ + 1]
         /\ Register(j) \/ queue' = queue \/ (\E c \in Client : RegisterTrain(j, c))
            \/ RegisterAggregate(j) \/ RegisterFail(j) \/ RegisterFinish(j)
<1>1. ASSUME NEW c \in Client, RegisterTrain(j, c)
      PROVE  /\ UNCHANGED <<loop, running, started, sums, hung, closed, state, pool, attempt>>
             /\ state[j] = "known" /\ Train(j, c)
  BY <1>1 DEF RegisterTrain, Insert
<1>2. CASE Register(j)
  BY <1>2 DEF Register, stream
<1>3. CASE RegisterLost(j)
  BY <1>3 DEF RegisterLost, tasks
<1>4. CASE RegisterAggregate(j)
  BY <1>4 DEF RegisterAggregate, Insert
<1>5. CASE RegisterFail(j)
  BY <1>5 DEF RegisterFail
<1>6. CASE RegisterFinish(j)
  BY <1>6 DEF RegisterFinish, Insert
<1> QED  BY <1>1, <1>2, <1>3, <1>4, <1>5, <1>6 DEF Calls

(* A job is registered: its queue has the first test.                      *)
LEMMA RegisterIs ==
  ASSUME TypeOK, NEW j \in Job, Register(j)
  PROVE  /\ state[j] = "new" /\ state' = [state EXCEPT ![j] = "known"]
         /\ pool' \in Seq(Job) /\ Len(pool') = Len(pool) + 1 /\ pool'[Len(pool) + 1] = j
         /\ \A i \in 1 .. Len(pool) : pool'[i] = pool[i] /\ pool'[i] # j
         /\ queue' = [queue EXCEPT ![j] = TestOf(0, 0)] /\ queue' \in [Job -> Seq(Queued)]
<1>1. state[j] = "new" /\ state' = [state EXCEPT ![j] = "known"] /\ pool' = Append(pool, j)
      /\ queue' = [queue EXCEPT ![j] = TestOf(0, 0)]
  BY DEF Register
<1>2. pool \in Seq(Job) /\ queue \in [Job -> Seq(Queued)] /\ TestOf(0, 0) \in Seq(Queued)
  BY NewTests, Events DEF TypeOK
<1>3. \A i \in 1 .. Len(pool) : pool[i] # j
  BY <1>1 DEF TypeOK
<1> QED  BY <1>1, <1>2, <1>3

LEMMA CallTypes ==
  ASSUME TypeOK, NEW j \in Job, Calls(j)
  PROVE  TypeOK'
<1>0. /\ queue \in [Job -> Seq(Queued)] /\ state \in [Job -> {"new", "known", "removed"}]
      /\ attempt \in [Job -> Nat] /\ pool \in Seq(Job)
  BY DEF TypeOK
<1>1. StreamTypeOK'
  <2>1. CASE UNCHANGED streamVars
    BY <2>1 DEF TypeOK, StreamTypeOK, streamVars
  <2> QED  BY <2>1, CallFrame, StreamTypes DEF TypeOK
<1>2. attempt' \in [Job -> Nat]
  <2>1. attempt[j] + 1 \in Nat
    BY <1>0
  <2> QED  BY <1>0, <2>1, CallFrame
<1>3. UNCHANGED <<turns, doing, waits, running, started, weight, meta, tests, hung, closed>>
  BY CallFrame DEF loop, sums
<1>4. CASE Register(j)
  <2>1. /\ state[j] = "new" /\ state' = [state EXCEPT ![j] = "known"]
        /\ pool' \in Seq(Job) /\ Len(pool') = Len(pool) + 1 /\ pool'[Len(pool) + 1] = j
        /\ \A i \in 1 .. Len(pool) : pool'[i] = pool[i]
        /\ queue' = [queue EXCEPT ![j] = TestOf(0, 0)] /\ queue' \in [Job -> Seq(Queued)]
    BY <1>4, RegisterIs
  <2>2. state' \in [Job -> {"new", "known", "removed"}] /\ state'[j] = "known"
        /\ \A i \in Job : i # j => state'[i] = state[i] /\ queue'[i] = queue[i]
    BY <1>0, <2>1
  <2>3. \A i \in Job : state'[i] = "known" <=> \E m \in 1 .. Len(pool') : pool'[m] = i
    <3>1. 1 .. Len(pool') = 1 .. Len(pool) \cup {Len(pool) + 1}
      BY <1>0, <2>1
    <3>2. \A i \in Job : state[i] = "known" <=> \E m \in 1 .. Len(pool) : pool[m] = i
      BY DEF TypeOK
    <3>3. \E m \in 1 .. Len(pool') : pool'[m] = j
      BY <2>1, <3>1
    <3>4. ASSUME NEW i \in Job, i # j
          PROVE  (\E m \in 1 .. Len(pool') : pool'[m] = i)
                 <=> \E m \in 1 .. Len(pool) : pool[m] = i
      BY <2>1, <3>1, <3>4
    <3> QED  BY <2>2, <3>2, <3>3, <3>4
  <2>4. \A i \in Job : state'[i] # "known" => queue'[i] = <<>> /\ weight'[i] = {} /\ tests'[i] = {}
    BY <1>3, <2>2 DEF TypeOK
  <2> QED  BY <1>1, <1>2, <1>3, <2>1, <2>2, <2>3, <2>4 DEF TypeOK
<1>5. CASE ~ Register(j)
  <2>1. state[j] = "known" /\ state' = state /\ pool' = pool
    BY <1>5, CallFrame
  <2>2. queue' \in [Job -> Seq(Queued)] /\ \A i \in Job : i # j => queue'[i] = queue[i]
    <3>1. queue' = queue \/ \E p, x : Added(j, p, x)
      BY <1>5, CallFrame, AddedTrain, AddedAggregate, AddedFail, AddedFinish
    <3> QED  BY <1>0, <3>1, AddedType
  <2>3. \A i \in Job : state'[i] # "known" => queue'[i] = <<>> /\ weight'[i] = {} /\ tests'[i] = {}
    BY <1>3, <2>1, <2>2 DEF TypeOK
  <2>4. \A i \in Job : state'[i] = "known" <=> \E m \in 1 .. Len(pool') : pool'[m] = i
    BY <2>1 DEF TypeOK
  <2> QED  BY <1>0, <1>1, <1>2, <1>3, <2>1, <2>2, <2>3, <2>4 DEF TypeOK
<1> QED  BY <1>4, <1>5

(* What happens to the tasks that are taken from a queue.                  *)
Taken(j) == [job |-> j, event |-> queue[j][1].event, round |-> queue[j][1].round,
             attempt |-> queue[j][1].attempt, stage |-> "wait"]
RunTable == [{"train", "test"} -> [Job -> SUBSET RunOf]]

(* Job j's first n tasks are taken; all are the lists with the new run.    *)
Executed(j, n, run, all) ==
  /\ queue' = [queue EXCEPT ![j] = SubSeq(queue[j], n + 1, Len(queue[j]))]
  /\ run.event = "train" /\ run.job = j /\ run.round = queue[j][1].round
  /\ run.attempt = queue[j][1].attempt
  /\ queue[j][1].event = "train" =>
       /\ running' = running \cup {run} /\ run \in all["train"][j]
  /\ queue[j][1].event # "train" => running' = running
  /\ \A e \in {"train", "test"}, i \in Job :
       started[e][i] \subseteq all[e][i] /\ (i # j => all[e][i] = started[e][i])
  /\ \/ queue[j][1].event = "train" /\ UNCHANGED <<doing, waits>> /\ started' = all
     \/ /\ doing' = Taken(j)
        /\ waits' = all[Waiting(queue[j][1].event)][j]
        /\ started' = [all EXCEPT ![Waiting(queue[j][1].event)][j] = {}]

LEMMA Executes ==
  ASSUME TypeOK, NEW j \in Job, queue[j] # <<>>, Execute(j, queue[j])
  PROVE  \E n \in 1 .. Len(queue[j]), run \in RunOf, all \in RunTable :
           Executed(j, n, run, all)
<1> DEFINE q == queue[j]
           n == BatchOf(q)
           t == [job |-> j, event |-> q[1].event, round |-> q[1].round,
                 attempt |-> q[1].attempt, stage |-> "idle"]
           run == Run(j, "train", t.round, t.attempt, {q[i].who : i \in 1 .. n})
           all == IF t.event = "train"
                  THEN [started EXCEPT !["train"][j] = @ \cup {run}] ELSE started
<1>1. q \in Seq(Queued) /\ q # <<>> /\ started \in RunTable
  BY DEF TypeOK, RunTable
<1>2. n \in 1 .. Len(q)
  <2> HIDE DEF q
  <2> QED  BY <1>1, BatchSize, ExecutorAssumption
<1>3. \A i \in 1 .. n : q[i] \in Queued
  <2> HIDE DEF q
  <2> QED  BY <1>1, <1>2
<1>4. run \in RunOf /\ run.event = "train" /\ run.job = j /\ run.round = q[1].round
      /\ run.attempt = q[1].attempt
  <2>1. q[1] \in Queued
    BY <1>2, <1>3
  <2>2. {q[i].who : i \in 1 .. n} \subseteq Client \cup {None} \cup Part
    <3> HIDE DEF n, q
    <3> QED  BY <1>3 DEF Queued
  <2>3. q[1].round \in Nat /\ q[1].attempt \in Number
    BY <2>1 DEF Queued
  <2> HIDE DEF n, q
  <2> QED  BY <2>2, <2>3 DEF Run, RunOf
<1>5. t.event = q[1].event /\ [t EXCEPT !.stage = "wait"] = Taken(j) /\ t.job = j
  BY DEF Taken
<1>6. /\ queue' = [queue EXCEPT ![j] = SubSeq(q, n + 1, Len(q))]
      /\ running' = IF t.event = "train" THEN running \cup {run} ELSE running
      /\ \/ t.event = "train" /\ started' = all /\ UNCHANGED <<doing, waits>>
         \/ WaitFor(t, Waiting(t.event), "wait", all)
  BY DEF Execute
<1> HIDE DEF n, run, t, all
<1>7. /\ all \in RunTable
      /\ q[1].event = "train" => run \in all["train"][j]
      /\ \A e \in {"train", "test"}, i \in Job :
           started[e][i] \subseteq all[e][i] /\ (i # j => all[e][i] = started[e][i])
  <2>1. CASE t.event = "train"
    <3> DEFINE v == started["train"][j] \cup {run}
    <3>1. v \in SUBSET RunOf /\ run \in v /\ started["train"][j] \subseteq v
      BY <1>1, <1>4 DEF RunTable
    <3>2. all = [started EXCEPT !["train"][j] = v]
      BY <2>1 DEF all
    <3> HIDE DEF v
    <3> QED  BY <1>1, <3>1, <3>2 DEF RunTable
  <2>2. CASE t.event # "train"
    <3>1. all = started
      BY <2>2 DEF all
    <3> QED  BY <1>1, <1>5, <2>2, <3>1
  <2> QED  BY <2>1, <2>2
<1>8. WaitFor(t, Waiting(t.event), "wait", all) =>
        /\ doing' = Taken(j)
        /\ waits' = all[Waiting(q[1].event)][j]
        /\ started' = [all EXCEPT ![Waiting(q[1].event)][j] = {}]
  BY <1>5 DEF WaitFor
<1>9. /\ q[1].event = "train" => running' = running \cup {run}
      /\ q[1].event # "train" => running' = running
  BY <1>5, <1>6
<1>10. Executed(j, n, run, all)
  BY <1>4, <1>5, <1>6, <1>7, <1>8, <1>9 DEF Executed
<1> QED  BY <1>2, <1>4, <1>7, <1>10

LEMMA NextTypes ==
  ASSUME TypeOK, \A i, k \in 1 .. Len(pool) : pool[i] = pool[k] => i = k, NextTask
  PROVE  TypeOK'
<1>1. PICK k \in 0 .. Len(pool) - 1 :
        /\ Ready(k) /\ pool' = Rotated(k)
        /\ turns' = IF k = 0 THEN turns + 1 ELSE 1
        /\ Execute(pool[k + 1], queue[pool[k + 1]])
  BY DEF NextTask
<1> DEFINE j == pool[k + 1]
<1>2. j \in Job /\ queue[j] # <<>> /\ (k = 0 => turns < TurnLimit) /\ pool \in Seq(Job)
      /\ k + 1 \in 1 .. Len(pool)
  <2>1. pool \in Seq(Job)
    BY DEF TypeOK
  <2>2. k + 1 \in 1 .. Len(pool) /\ j \in Job
    BY <2>1
  <2> QED  BY <1>1, <2>1, <2>2 DEF Ready
<1>3. state[j] = "known"
  BY <1>2 DEF TypeOK
<1> HIDE DEF j
<1>4. PICK n \in 1 .. Len(queue[j]), run \in RunOf, all \in RunTable :
           Executed(j, n, run, all)
  <2>1. Execute(j, queue[j])
    BY <1>1 DEF j
  <2> QED  BY <1>2, <2>1, Executes
<1>4a. /\ queue' = [queue EXCEPT ![j] = SubSeq(queue[j], n + 1, Len(queue[j]))]
       /\ running' \in {running, running \cup {run}}
       /\ \/ UNCHANGED <<doing, waits>> /\ started' = all
          \/ /\ doing' = Taken(j)
             /\ waits' = all[Waiting(queue[j][1].event)][j]
             /\ started' = [all EXCEPT ![Waiting(queue[j][1].event)][j] = {}]
  BY <1>4 DEF Executed
<1>5. queue \in [Job -> Seq(Queued)] /\ queue[j] \in Seq(Queued) /\ Len(queue[j]) \in Nat
  BY <1>2 DEF TypeOK
<1>6. queue' \in [Job -> Seq(Queued)] /\ \A i \in Job : i # j => queue'[i] = queue[i]
  <2>1. SubSeq(queue[j], n + 1, Len(queue[j])) \in Seq(Queued)
    BY <1>5
  <2> QED  BY <1>4a, <1>5, <2>1
<1>7. Waiting(queue[j][1].event) \in {"train", "test"}
  BY DEF Waiting
<1>8. running' \cup waits' \subseteq RunOf /\ started' \in RunTable
  <2>1. running \cup waits \subseteq RunOf
    BY DEF TypeOK
  <2>2. \A e \in {"train", "test"} : all[e][j] \subseteq RunOf
                                     /\ [all EXCEPT ![e][j] = {}] \in RunTable
    BY <1>2 DEF RunTable
  <2> QED  BY <1>4a, <1>7, <2>1, <2>2
<1>9. doing' \in Doing \cup {Idle}
  <2>1. queue[j][1] \in Queued
    BY <1>4a, <1>5
  <2>2. Taken(j) \in Doing
    BY <1>2, <2>1 DEF Taken, Doing, Queued
  <2> QED  BY <1>4a, <2>2 DEF TypeOK
<1>10. turns' \in 0 .. TurnLimit
  BY <1>1, <1>2, ExecutorAssumption DEF TypeOK
<1>11. UNCHANGED <<stream, state, sums, hung, closed>>
  BY DEF NextTask
<1>12. /\ pool' \in Seq(Job)
       /\ \A i \in Job : state'[i] = "known" <=> \E m \in 1 .. Len(pool') : pool'[m] = i
  <2>1. pool' \in Seq(Job) /\ \A i \in Job : (\E m \in 1 .. Len(pool) : pool[m] = i)
                           <=> \E m \in 1 .. Len(pool') : pool'[m] = i
    <3>1. pool' = Rotated(k)
      BY <1>1
    <3>2. pool \in Seq(Job)
      BY <1>2
    <3>3. /\ Rotated(k) \in Seq(Job)
          /\ \A i \in Job : (\E m \in 1 .. Len(pool) : pool[m] = i)
                           <=> \E m \in 1 .. Len(Rotated(k)) : Rotated(k)[m] = i
      BY <3>2, PoolTurned, Zenon
    <3> QED  BY <3>1, <3>3, Zenon
  <2> QED  BY <1>11, <2>1 DEF TypeOK
<1>13. \A i \in Job : state'[i] # "known" => queue'[i] = <<>> /\ weight'[i] = {} /\ tests'[i] = {}
  BY <1>3, <1>6, <1>11 DEF TypeOK, sums
<1>14. /\ StreamTypeOK' /\ attempt' \in [Job -> Nat]
       /\ state' \in [Job -> {"new", "known", "removed"}]
       /\ closed' \subseteq {"train", "test"} \X Job \X Nat \X Number
       /\ {weight, meta, tests}' \subseteq [Job -> SUBSET RunOf]
  BY <1>11 DEF TypeOK, StreamTypeOK, stream, streamVars, sums
<1> QED  BY <1>6, <1>8, <1>9, <1>10, <1>12, <1>13, <1>14 DEF TypeOK, RunTable

(* What a job that is not known has: nothing.                              *)
LEMMA TypeFrame ==
  ASSUME TypeOK, UNCHANGED <<stream, tasks>>,
         turns' \in 0 .. TurnLimit, doing' \in Doing \cup {Idle},
         running' \cup waits' \subseteq RunOf, started' \in RunTable,
         weight' \in [Job -> SUBSET RunOf], meta' \in [Job -> SUBSET RunOf],
         tests' \in [Job -> SUBSET RunOf],
         closed' \subseteq {"train", "test"} \X Job \X Nat \X Number,
         \A j \in Job : state[j] # "known" => weight'[j] = {} /\ tests'[j] = {}
  PROVE  TypeOK'
  BY DEF TypeOK, RunTable, stream, tasks, streamVars, StreamTypeOK

LEMMA DoingIs ==
  ASSUME TypeOK, doing.stage # "idle"
  PROVE  /\ doing \in Doing /\ doing # Idle /\ doing.job \in Job /\ doing.round \in Nat
         /\ doing.attempt \in Number
         /\ \A s \in {"wait", "wait_test", "update", "remove"} : [doing EXCEPT !.stage = s] \in Doing
<1>1. doing \in Doing /\ doing # Idle
  BY Events DEF TypeOK
<1> QED  BY <1>1 DEF Doing

LEMMA WithoutSums ==
  ASSUME NEW f \in [Job -> SUBSET RunOf], NEW j \in Job
  PROVE  /\ [f EXCEPT ![j] = {}] \in [Job -> SUBSET RunOf]
         /\ \A i \in Job : f[i] = {} => [f EXCEPT ![j] = {}][i] = {}
  OBVIOUS

LEMMA LoopTypes ==
  ASSUME TypeOK,
         \/ NoTask \/ TrainGoes \/ TestStarts \/ TestEnds \/ AggregateStarts
         \/ AggregateEnds \/ AggregateNone \/ FailEnds \/ FinishWaits \/ RemoveEnds
  PROVE  TypeOK'
<1>0. /\ turns \in 0 .. TurnLimit /\ doing \in Doing \cup {Idle}
      /\ running \subseteq RunOf /\ waits \subseteq RunOf /\ started \in RunTable
      /\ weight \in [Job -> SUBSET RunOf] /\ meta \in [Job -> SUBSET RunOf]
      /\ tests \in [Job -> SUBSET RunOf]
      /\ closed \subseteq {"train", "test"} \X Job \X Nat \X Number
      /\ \A j \in Job : state[j] # "known" => weight[j] = {} /\ tests[j] = {}
  BY DEF TypeOK, RunTable
<1>c. ASSUME doing.stage # "idle", NEW e \in {"train", "test"}, Conclude(e, doing)
      PROVE  closed' \subseteq {"train", "test"} \X Job \X Nat \X Number
  <2>1. <<e, doing.job, doing.round, doing.attempt>> \in {"train", "test"} \X Job \X Nat \X Number
    BY <1>c, DoingIs
  <2> QED  BY <1>0, <1>c, <2>1 DEF Conclude
<1>1. CASE NoTask
  <2>1. 0 \in 0 .. TurnLimit
    BY ExecutorAssumption
  <2> QED  BY <1>0, <1>1, <2>1, TypeFrame DEF NoTask, sums
<1>2. CASE TrainGoes
  BY <1>0, <1>2, TypeFrame DEF TrainGoes, GoesIdle, sums
<1>3. CASE TestStarts
  <2> DEFINE runs == {Run(doing.job, "test", doing.round, doing.attempt, {p}) : p \in Part}
             v == started["test"][doing.job] \cup runs
  <2>1. runs \subseteq RunOf
    <3>1. doing.stage # "idle"
      BY <1>3 DEF TestStarts
    <3>2. ASSUME NEW p \in Part
          PROVE  Run(doing.job, "test", doing.round, doing.attempt, {p}) \in RunOf
      BY <3>1, DoingIs DEF Run, RunOf
    <3> QED  BY <3>2
  <2>2. started' = [started EXCEPT !["test"][doing.job] = v] /\ running' = running \cup runs
    BY <1>3 DEF TestStarts
  <2> HIDE DEF runs
  <2>3. v \subseteq RunOf /\ doing.job \in Job
    BY <1>0, <1>3, <2>1, DoingIs DEF TestStarts, RunTable
  <2> HIDE DEF v
  <2>4. started' \in RunTable
    BY <1>0, <2>2, <2>3 DEF RunTable
  <2>5. /\ UNCHANGED <<stream, tasks, turns, sums, closed>> /\ doing' = Idle /\ waits' = {}
        /\ running' \subseteq RunOf
    BY <1>0, <1>3, <2>1, <2>2 DEF TestStarts, GoesIdle
  <2> QED  BY <1>0, <2>4, <2>5, TypeFrame DEF sums
<1>4. CASE TestEnds
  <2>1. doing.stage # "idle" /\ Conclude("test", doing) /\ tests' = [tests EXCEPT ![doing.job] = {}]
        /\ UNCHANGED <<stream, tasks, turns, running, started, weight, meta>>
        /\ doing' = Idle /\ waits' = {}
    BY <1>4 DEF TestEnds, GoesIdle
  <2> QED  BY <1>0, <1>c, <2>1, DoingIs, WithoutSums, TypeFrame
<1>5. CASE AggregateStarts
  <2>1. doing.stage # "idle" /\ meta' = [meta EXCEPT ![doing.job] = {}]
        /\ UNCHANGED <<stream, tasks, turns, running, started, weight, tests, closed>>
        /\ doing' = [doing EXCEPT !.stage = "update"] /\ waits' = {}
    BY <1>5 DEF AggregateStarts
  <2> QED  BY <1>0, <2>1, DoingIs, WithoutSums, TypeFrame
<1>6. CASE AggregateEnds
  <2>1. doing.stage # "idle" /\ Conclude("train", doing) /\ weight' = [weight EXCEPT ![doing.job] = {}]
        /\ UNCHANGED <<stream, tasks, turns, running, started, meta, tests>>
        /\ doing' = Idle /\ waits' = {}
    BY <1>6 DEF AggregateEnds, GoesIdle
  <2> QED  BY <1>0, <1>c, <2>1, DoingIs, WithoutSums, TypeFrame
<1>7. CASE AggregateNone
  <2>1. doing.stage # "idle" /\ Conclude("train", doing)
        /\ UNCHANGED <<stream, tasks, turns, running, started, sums>>
        /\ doing' = Idle /\ waits' = {}
    BY <1>7 DEF AggregateNone, GoesIdle
  <2> QED  BY <1>0, <1>c, <2>1, TypeFrame DEF sums
<1>8. CASE FailEnds
  <2>1. doing.stage # "idle" /\ Conclude("train", doing)
        /\ weight' = [weight EXCEPT ![doing.job] = {}]
        /\ meta' = [meta EXCEPT ![doing.job] = {}] /\ tests' = [tests EXCEPT ![doing.job] = {}]
        /\ UNCHANGED <<stream, tasks, turns, running, started>>
        /\ doing' = Idle /\ waits' = {}
    BY <1>8 DEF FailEnds, GoesIdle, Drop
  <2> QED  BY <1>0, <1>c, <2>1, DoingIs, WithoutSums, TypeFrame
<1>9. CASE FinishWaits
  <2>1. doing.stage # "idle" /\ UNCHANGED <<stream, tasks, turns, running, sums, closed>>
        /\ doing' = [doing EXCEPT !.stage = "wait_test"] /\ waits' = started["test"][doing.job]
        /\ started' = [started EXCEPT !["test"][doing.job] = {}]
    BY <1>9 DEF FinishWaits, WaitFor
  <2>2. started' \in RunTable /\ waits' \subseteq RunOf
    BY <1>0, <2>1, DoingIs DEF RunTable
  <2> QED  BY <1>0, <2>1, <2>2, DoingIs, TypeFrame DEF sums
<1>10. CASE RemoveEnds
  <2> DEFINE without == [e \in {"train", "test"} |-> [started[e] EXCEPT ![doing.job] = {}]]
  <2>1. /\ doing.stage # "idle" /\ UNCHANGED <<stream, tasks, turns, running, sums, closed>>
        /\ doing' = Idle /\ waits' = {} /\ started' \in {started, without}
    BY <1>10 DEF RemoveEnds, GoesIdle
  <2>2. without \in RunTable
    BY <1>0, <2>1, DoingIs DEF RunTable
  <2> HIDE DEF without
  <2> QED  BY <1>0, <2>1, <2>2, TypeFrame DEF sums
<1> QED  BY <1>1, <1>2, <1>3, <1>4, <1>5, <1>6, <1>7, <1>8, <1>9, <1>10

(* A job is removed.                                                       *)
LEMMA FinishTypes ==
  ASSUME TypeOK, \A i, k \in 1 .. Len(pool) : pool[i] = pool[k] => i = k, FinishRemoves
  PROVE  TypeOK'
<1> DEFINE j == doing.job
<1>1. /\ doing.stage # "idle" /\ UNCHANGED <<stream, turns, running, started, closed>>
      /\ pool' = PoolWithout(j) /\ queue' = [queue EXCEPT ![j] = <<>>]
      /\ state' = [state EXCEPT ![j] = "removed"] /\ waits' = {}
      /\ doing' = [doing EXCEPT !.stage = "remove"]
      /\ weight' = [weight EXCEPT ![j] = {}] /\ meta' = [meta EXCEPT ![j] = {}]
      /\ tests' = [tests EXCEPT ![j] = {}]
  BY DEF FinishRemoves, Drop
<1>2. j \in Job /\ doing' \in Doing
  BY <1>1, DoingIs
<1> HIDE DEF j
<1>3. /\ queue \in [Job -> Seq(Queued)] /\ state \in [Job -> {"new", "known", "removed"}]
      /\ pool \in Seq(Job) /\ started \in RunTable
      /\ weight \in [Job -> SUBSET RunOf] /\ meta \in [Job -> SUBSET RunOf]
      /\ tests \in [Job -> SUBSET RunOf]
  BY DEF TypeOK, RunTable
<1>4. queue' \in [Job -> Seq(Queued)] /\ queue'[j] = <<>>
      /\ \A i \in Job : i # j => queue'[i] = queue[i]
  BY <1>1, <1>2, <1>3
<1>5. state' \in [Job -> {"new", "known", "removed"}] /\ state'[j] = "removed"
      /\ \A i \in Job : i # j => state'[i] = state[i]
  BY <1>1, <1>2, <1>3
<1>6. /\ weight' \in [Job -> SUBSET RunOf] /\ meta' \in [Job -> SUBSET RunOf]
      /\ tests' \in [Job -> SUBSET RunOf] /\ weight'[j] = {} /\ tests'[j] = {}
      /\ \A i \in Job : i # j => weight'[i] = weight[i] /\ tests'[i] = tests[i]
  BY <1>1, <1>2, <1>3
<1>7. started' \in RunTable
  BY <1>1, <1>2, <1>3 DEF RunTable
<1>8. /\ pool' \in Seq(Job)
      /\ \A i \in Job : state'[i] = "known" <=> \E m \in 1 .. Len(pool') : pool'[m] = i
  <2>1. /\ pool' \in Seq(Job)
        /\ \A h \in Job : (\E i \in 1 .. Len(pool') : pool'[i] = h)
                          <=> h # j /\ \E i \in 1 .. Len(pool) : pool[i] = h
    <3>1. /\ PoolWithout(j) \in Seq(Job)
          /\ \A h \in Job : (\E i \in 1 .. Len(PoolWithout(j)) : PoolWithout(j)[i] = h)
                            <=> h # j /\ \E i \in 1 .. Len(pool) : pool[i] = h
      BY <1>2, <1>3, PoolShorter
    <3> QED  BY <1>1, <3>1
  <2>2. \A i \in Job : state[i] = "known" <=> \E m \in 1 .. Len(pool) : pool[m] = i
    BY DEF TypeOK
  <2> QED  BY <1>5, <2>1, <2>2
<1>9. \A i \in Job : state'[i] # "known" => queue'[i] = <<>> /\ weight'[i] = {} /\ tests'[i] = {}
  BY <1>4, <1>5, <1>6 DEF TypeOK
<1>10. /\ StreamTypeOK' /\ attempt' \in [Job -> Nat] /\ turns' \in 0 .. TurnLimit
       /\ closed' \subseteq {"train", "test"} \X Job \X Nat \X Number
       /\ doing' \in Doing \cup {Idle} /\ running' \cup waits' \subseteq RunOf
  <2>1. /\ UNCHANGED <<round, results, count, ended, attempt, turns, running, closed>>
        /\ waits' = {} /\ doing' \in Doing
    BY <1>1, <1>2 DEF stream, streamVars
  <2> QED  BY <2>1 DEF TypeOK, StreamTypeOK
<1>11. {weight, meta, tests}' \subseteq [Job -> SUBSET RunOf]
  BY <1>6
<1>12. /\ queue' \in [Job -> Seq(Queued)] /\ state' \in [Job -> {"new", "known", "removed"}]
       /\ started' \in [{"train", "test"} -> [Job -> SUBSET RunOf]]
  BY <1>4, <1>5, <1>7 DEF RunTable
<1> QED  BY <1>8, <1>9, <1>10, <1>11, <1>12 DEF TypeOK

(* A result is merged, or there will be none.                              *)
LEMMA MergeTypes ==
  ASSUME TypeOK, NEW t \in running, Merge(t) \/ GiveUp(t)
  PROVE  TypeOK'
<1>0. /\ turns \in 0 .. TurnLimit /\ doing \in Doing \cup {Idle}
      /\ running \subseteq RunOf /\ waits \subseteq RunOf /\ started \in RunTable
      /\ weight \in [Job -> SUBSET RunOf] /\ meta \in [Job -> SUBSET RunOf]
      /\ tests \in [Job -> SUBSET RunOf] /\ t \in RunOf
      /\ closed \subseteq {"train", "test"} \X Job \X Nat \X Number
      /\ \A j \in Job : state[j] # "known" => weight[j] = {} /\ tests[j] = {}
  BY DEF TypeOK, RunTable
<1>1. CASE GiveUp(t)
  BY <1>0, <1>1, TypeFrame DEF GiveUp, loop, sums
<1>2. CASE Merge(t)
  <2>1. UNCHANGED <<stream, tasks, turns, doing, waits, started, closed>> /\ running' = running \ {t}
    BY <1>2 DEF Merge, loop
  <2>2. t.job \in Job
    BY <1>0 DEF RunOf
  <2>3. CASE state[t.job] # "known"
    BY <1>0, <1>2, <2>1, <2>3, TypeFrame DEF Merge, Merged, sums
  <2>4. CASE state[t.job] = "known"
    <3>1. ASSUME NEW f \in [Job -> SUBSET RunOf]
          PROVE  /\ [f EXCEPT ![t.job] = @ \cup {t}] \in [Job -> SUBSET RunOf]
                 /\ \A i \in Job : i # t.job => [f EXCEPT ![t.job] = @ \cup {t}][i] = f[i]
      <4> DEFINE v == f[t.job] \cup {t}
      <4>1. v \subseteq RunOf
        BY <1>0, <2>2
      <4> HIDE DEF v
      <4>2. /\ [f EXCEPT ![t.job] = v] \in [Job -> SUBSET RunOf]
            /\ \A i \in Job : i # t.job => [f EXCEPT ![t.job] = v][i] = f[i]
        BY <4>1
      <4> QED  BY <4>2 DEF v
    <3>2. CASE t.event = "train"
      <4>1. weight' = [weight EXCEPT ![t.job] = @ \cup {t}]
            /\ meta' = [meta EXCEPT ![t.job] = @ \cup {t}] /\ tests' = tests
        BY <1>2, <2>4, <3>2 DEF Merge, Merged
      <4>2. /\ weight' \in [Job -> SUBSET RunOf] /\ meta' \in [Job -> SUBSET RunOf]
            /\ \A i \in Job : i # t.job => weight'[i] = weight[i]
        BY <1>0, <3>1, <4>1
      <4> QED  BY <1>0, <2>1, <2>4, <4>1, <4>2, TypeFrame
    <3>3. CASE t.event # "train"
      <4>1. tests' = [tests EXCEPT ![t.job] = @ \cup {t}] /\ weight' = weight /\ meta' = meta
        BY <1>2, <2>4, <3>3 DEF Merge, Merged
      <4>2. /\ tests' \in [Job -> SUBSET RunOf]
            /\ \A i \in Job : i # t.job => tests'[i] = tests[i]
        BY <1>0, <3>1, <4>1
      <4> QED  BY <1>0, <2>1, <2>4, <4>1, <4>2, TypeFrame
    <3> QED  BY <3>2, <3>3
  <2> QED  BY <2>3, <2>4
<1> QED  BY <1>1, <1>2

LEMMA TypeStep == ExInv /\ [ExNext]_vars => TypeOK'
<1> SUFFICES ASSUME ExInv, [ExNext]_vars PROVE TypeOK'
  OBVIOUS
<1>1. TypeOK /\ \A i, k \in 1 .. Len(pool) : pool[i] = pool[k] => i = k
  BY DEF ExInv, QueueInv
<1>2. ASSUME NEW j \in Job, Calls(j) PROVE TypeOK'
  BY <1>1, <1>2, CallTypes
<1>3. ASSUME NEW t \in running, Merge(t) \/ GiveUp(t) PROVE TypeOK'
  BY <1>1, <1>3, MergeTypes
<1>4. ASSUME NEW t \in running, Hang(t) PROVE TypeOK'
  BY <1>1, <1>4 DEF Hang, TypeOK, stream, streamVars, StreamTypeOK, tasks, loop, sums
<1>5. CASE Loop \/ Answered
  BY <1>1, <1>5, NextTypes, LoopTypes, FinishTypes DEF Loop, Answered
<1>6. CASE UNCHANGED vars
  BY <1>1, <1>6 DEF vars, TypeOK, stream, streamVars, StreamTypeOK, tasks, loop, sums
<1> QED  BY <1>2, <1>3, <1>4, <1>5, <1>6 DEF ExNext

-----------------------------------------------------------------------------
(* QueueInv.                                                               *)

LEMMA InSeq ==
  ASSUME NEW q \in Seq(Queued)
  PROVE  \A t : t \in ToSet(q) <=> \E i \in 1 .. Len(q) : q[i] = t
  BY DEF ToSet

(* Tasks that are added may follow those that are there.                   *)
LEMMA LongerChain ==
  ASSUME NEW q \in Seq(Queued), NEW p \in Seq(Queued), NEW x \in Seq(Queued),
         Len(p) <= Len(q), \A i \in 1 .. Len(p) : p[i] = q[i], Chain(q), Chain(x),
         \A t \in ToSet(q), u \in ToSet(x) : Follows(t, u)
  PROVE  Chain(p \o x) /\ ToSet(p \o x) \subseteq ToSet(q) \cup ToSet(x)
<1>1. /\ p \o x \in Seq(Queued) /\ Len(p \o x) = Len(p) + Len(x)
      /\ Len(p) \in Nat /\ Len(x) \in Nat /\ Len(q) \in Nat
      /\ \A i \in 1 .. Len(p) + Len(x) :
           (p \o x)[i] = IF i <= Len(p) THEN p[i] ELSE x[i - Len(p)]
  BY ConcatProperties
<1> DEFINE z == p \o x
<1> HIDE DEF z
<1>2. ASSUME NEW i \in 1 .. Len(z), i <= Len(p)
      PROVE  i \in 1 .. Len(q) /\ z[i] = q[i] /\ z[i] \in ToSet(q)
  <2>1. i \in 1 .. Len(q) /\ i \in 1 .. Len(p) /\ z[i] = q[i]
    BY <1>1, <1>2 DEF z
  <2> QED  BY <2>1, InSeq
<1>3. ASSUME NEW i \in 1 .. Len(z), ~ (i <= Len(p))
      PROVE  i - Len(p) \in 1 .. Len(x) /\ z[i] = x[i - Len(p)] /\ z[i] \in ToSet(x)
  <2>1. i - Len(p) \in 1 .. Len(x) /\ z[i] = x[i - Len(p)]
    BY <1>1, <1>3 DEF z
  <2> QED  BY <2>1, InSeq
<1>4. ASSUME NEW k \in 1 .. Len(z), NEW i \in 1 .. k - 1 PROVE Follows(z[i], z[k])
  <2>1. i \in 1 .. Len(z) /\ k \in Nat /\ i \in Nat /\ i < k
    BY <1>1 DEF z
  <2>2. CASE k <= Len(p)
    <3>1. i <= Len(p)
      BY <1>1, <2>1, <2>2
    <3>2. z[i] = q[i] /\ z[k] = q[k] /\ k \in 1 .. Len(q)
      BY <1>2, <2>1, <2>2, <3>1
    <3>3. Follows(q[i], q[k])
      BY <3>2 DEF Chain
    <3> QED  BY <3>2, <3>3
  <2>3. CASE ~ (k <= Len(p)) /\ i <= Len(p)
    BY <1>2, <1>3, <2>1, <2>3
  <2>4. CASE ~ (k <= Len(p)) /\ ~ (i <= Len(p))
    <3>1. /\ z[i] = x[i - Len(p)] /\ z[k] = x[k - Len(p)] /\ k - Len(p) \in 1 .. Len(x)
          /\ i - Len(p) \in 1 .. Len(x)
      BY <1>3, <2>1, <2>4
    <3>2. i - Len(p) \in 1 .. (k - Len(p)) - 1
      BY <1>1, <2>1, <3>1
    <3>3. Follows(x[i - Len(p)], x[k - Len(p)])
      BY <3>1, <3>2 DEF Chain
    <3> QED  BY <3>1, <3>3
  <2> QED  BY <2>2, <2>3, <2>4
<1>5. ASSUME NEW t \in ToSet(z) PROVE t \in ToSet(q) \cup ToSet(x)
  <2>1. PICK i \in 1 .. Len(z) : z[i] = t
    <3>1. z \in Seq(Queued)
      BY <1>1 DEF z
    <3> QED  BY <3>1, InSeq
  <2> QED  BY <1>2, <1>3, <2>1
<1>6. Chain(z)
  BY <1>4 DEF Chain
<1> QED  BY <1>5, <1>6 DEF z

(* Tasks are taken from the beginning.                                     *)
LEMMA ShorterChain ==
  ASSUME NEW q \in Seq(Queued), NEW n \in 1 .. Len(q), Chain(q)
  PROVE  LET s == SubSeq(q, n + 1, Len(q)) IN
         /\ Chain(s) /\ ToSet(s) \subseteq ToSet(q)
         /\ \A t \in ToSet(s) : Follows(q[1], t)
<1> DEFINE s == SubSeq(q, n + 1, Len(q))
<1>1. /\ s \in Seq(Queued) /\ Len(q) \in Nat /\ Len(s) = Len(q) - n
      /\ \A i \in 1 .. Len(q) - n : s[i] = q[n + i]
  OBVIOUS
<1> HIDE DEF s
<1>2. ASSUME NEW k \in 1 .. Len(s), NEW i \in 1 .. k - 1 PROVE Follows(s[i], s[k])
  <2>1. n + k \in 1 .. Len(q) /\ n + i \in 1 .. (n + k) - 1 /\ s[i] = q[n + i] /\ s[k] = q[n + k]
    BY <1>1
  <2>2. Follows(q[n + i], q[n + k])
    BY <2>1 DEF Chain
  <2> QED  BY <2>1, <2>2
<1>3. ASSUME NEW t \in ToSet(s) PROVE t \in ToSet(q) /\ Follows(q[1], t)
  <2>1. PICK i \in 1 .. Len(s) : s[i] = t
    BY <1>1, InSeq
  <2>2. n + i \in 1 .. Len(q) /\ 1 \in 1 .. (n + i) - 1 /\ q[n + i] = t
    BY <1>1, <2>1
  <2>3. Follows(q[1], q[n + i])
    BY <2>2 DEF Chain
  <2> QED  BY <2>2, <2>3, InSeq
<1>4. Chain(s)
  BY <1>2 DEF Chain
<1> QED  BY <1>3, <1>4 DEF s

(* What is over stays over, for all that the parameter servers do.         *)
LEMMA CallMonotone ==
  ASSUME TypeOK, NEW j \in Job, Calls(j), NEW i \in Job, NEW r \in Nat, NEW a \in Number
  PROVE  (Over(i, r, a) => Over(i, r, a)') /\ (Ordered(i, r, a) => Ordered(i, r, a)')
<1>1. /\ round \in [Job -> Nat \ {0}] /\ ended \in [Job -> BOOLEAN] /\ attempt \in [Job -> Nat]
      /\ a \in Int
  BY DEF TypeOK, StreamTypeOK, Number
<1>2. \/ UNCHANGED <<round, ended, attempt>>
      \/ round' = [round EXCEPT ![j] = @ + 1] /\ ended' = ended
         /\ attempt' = [attempt EXCEPT ![j] = 0]
      \/ UNCHANGED <<round, ended>> /\ attempt' = [attempt EXCEPT ![j] = @ + 1]
      \/ UNCHANGED <<round, attempt>> /\ ended' = [ended EXCEPT ![j] = TRUE]
  <2>1. ASSUME NEW c \in Client, RegisterTrain(j, c) PROVE UNCHANGED <<round, ended, attempt>>
    BY <2>1 DEF RegisterTrain, Train
  <2>2. Register(j) => UNCHANGED <<round, ended, attempt>>
    BY DEF Register, stream, streamVars
  <2>3. RegisterLost(j) => UNCHANGED <<round, ended, attempt>>
    BY DEF RegisterLost, TrainLost
  <2>4. RegisterAggregate(j) => round' = [round EXCEPT ![j] = @ + 1] /\ ended' = ended
                                /\ attempt' = [attempt EXCEPT ![j] = 0]
    BY DEF RegisterAggregate, Aggregate, NewAttempt
  <2>5. RegisterFail(j) => UNCHANGED <<round, ended>> /\ attempt' = [attempt EXCEPT ![j] = @ + 1]
    BY DEF RegisterFail, RoundFail, NewAttempt
  <2>6. RegisterFinish(j) => UNCHANGED <<round, attempt>> /\ ended' = [ended EXCEPT ![j] = TRUE]
    BY DEF RegisterFinish, Finish
  <2> QED  BY <2>1, <2>2, <2>3, <2>4, <2>5, <2>6 DEF Calls
<1>3. CASE UNCHANGED <<round, ended, attempt>>
  BY <1>3 DEF Over, Ordered
<1>4. CASE round' = [round EXCEPT ![j] = @ + 1] /\ ended' = ended
           /\ attempt' = [attempt EXCEPT ![j] = 0]
  <2>1. CASE i = j
    <3>1. round'[i] = round[i] + 1 /\ round[i] \in Nat /\ ended' = ended
      BY <1>1, <1>4, <2>1
    <3> QED  BY <1>1, <3>1 DEF Over, Ordered
  <2>2. CASE i # j
    <3>1. round'[i] = round[i] /\ ended'[i] = ended[i] /\ attempt'[i] = attempt[i]
      BY <1>1, <1>4, <2>2
    <3> QED  BY <3>1 DEF Over, Ordered
  <2> QED  BY <2>1, <2>2
<1>5. CASE UNCHANGED <<round, ended>> /\ attempt' = [attempt EXCEPT ![j] = @ + 1]
  <2>1. attempt'[i] >= attempt[i] /\ attempt[i] \in Nat /\ attempt'[i] \in Nat
    BY <1>1, <1>5
  <2> QED  BY <1>1, <1>5, <2>1 DEF Over, Ordered
<1>6. CASE UNCHANGED <<round, attempt>> /\ ended' = [ended EXCEPT ![j] = TRUE]
  <2>1. ended[i] => ended'[i]
    BY <1>1, <1>6
  <2> QED  BY <1>6, <2>1 DEF Over, Ordered
<1> QED  BY <1>2, <1>3, <1>4, <1>5, <1>6

LEMMA CallPending ==
  ASSUME TypeOK, NEW j \in Job, Calls(j), NEW i \in Job, NEW t \in Queued \cup Doing, Pending(i, t)
  PROVE  Pending(i, t)'
<1>1. t.round \in Nat /\ t.attempt \in Number
  BY DEF Queued, Doing
<1>2. /\ Over(i, t.round, t.attempt) => Over(i, t.round, t.attempt)'
      /\ Ordered(i, t.round, t.attempt) => Ordered(i, t.round, t.attempt)'
  BY <1>1, CallMonotone
<1>3. closed' = closed
  BY CallFrame
<1> QED  BY <1>2, <1>3 DEF Pending

(* The tasks of a call are of an attempt that is open, or of a test that   *)
(* is ordered with them.                                                   *)
Comes(j, u) ==
  \A t \in Queued \cup Doing : (t.event # "train" => Pending(j, t)) => Follows(t, u)

AddsFresh(j) == \E p, x :
  /\ Added(j, p, x) /\ Chain(x)
  /\ \A u \in ToSet(x) : Comes(j, u) /\ Pending(j, u)'

ClosedInv == \A x \in closed :
  /\ state[x[2]] # "new"
  /\ x[1] = "train" => Over(x[2], x[3], x[4])
  /\ x[1] = "test" => Ordered(x[2], x[3], x[4])

LEMMA NothingClosed ==
  ASSUME TypeOK, ClosedInv, NEW j \in Job
  PROVE  /\ ~ Over(j, round[j], attempt[j]) /\ <<"train", j, round[j], attempt[j]>> \notin closed
         /\ ~ Ordered(j, round[j], attempt[j]) /\ <<"test", j, round[j], attempt[j]>> \notin closed
         /\ ~ ended[j] => \A r : ~ Ordered(j, r, -1) /\ <<"test", j, r, -1>> \notin closed
<1>1. round[j] \in Nat /\ attempt[j] \in Nat
  BY DEF TypeOK, StreamTypeOK
<1>2. /\ ~ Over(j, round[j], attempt[j]) /\ ~ Ordered(j, round[j], attempt[j])
      /\ ~ ended[j] => \A r : ~ Ordered(j, r, -1)
  BY <1>1 DEF Over, Ordered
<1>3. \A e, r, a : <<e, j, r, a>> \in closed =>
                     (e = "train" => Over(j, r, a)) /\ (e = "test" => Ordered(j, r, a))
  BY DEF ClosedInv
<1> QED  BY <1>2, <1>3

LEMMA FreshTrain ==
  ASSUME TypeOK, ClosedInv, NEW j \in Job, NEW c \in Client, RegisterTrain(j, c)
  PROVE  AddsFresh(j)
<1> DEFINE t == Task("train", round[j], attempt[j], c)
           x == <<t>>
<1>1. Added(j, queue[j], x)
  BY AddedTrain
<1>2. /\ t.event = "train" /\ t.round = round[j] /\ t.attempt = attempt[j]
      /\ x \in Seq(Queued) /\ Len(x) = 1 /\ x[1] = t
  <2>1. round[j] \in Nat /\ attempt[j] \in Number /\ c \in Client \cup {None}
    BY Events DEF TypeOK, StreamTypeOK
  <2>2. t \in Queued /\ t.event = "train" /\ t.round = round[j] /\ t.attempt = attempt[j]
    BY <2>1, NewTask
  <2> HIDE DEF t
  <2> QED  BY <2>2
<1> HIDE DEF t, x
<1>3. ASSUME NEW u \in ToSet(x) PROVE Comes(j, u) /\ Pending(j, u)'
  <2>1. u.event = "train" /\ u.round = round[j] /\ u.attempt = attempt[j]
    <3>1. u = t
      BY <1>2, InSeq
    <3> QED  BY <1>2, <3>1
  <2>2. closed' = closed
    BY DEF RegisterTrain, Insert
  <2>3. ASSUME NEW d \in Queued \cup Doing, d.event # "train" => Pending(j, d)
        PROVE  Follows(d, u)
    <3>1. d.event \in Concluding => Over(j, d.round, d.attempt)
      BY <2>3 DEF Pending, Concluding
    <3> QED  BY <2>1, <3>1, NothingClosed DEF Follows, SameKey, Testing
  <2>4. Pending(j, u)'
    BY <2>1, <2>2, NothingClosed DEF Pending, Concluding, Testing
  <2> QED  BY <2>3, <2>4 DEF Comes
<1>4. Chain(x)
  BY <1>2 DEF Chain
<1> QED  BY <1>1, <1>3, <1>4 DEF AddsFresh

LEMMA FreshFail ==
  ASSUME TypeOK, ClosedInv, NEW j \in Job, RegisterFail(j)
  PROVE  AddsFresh(j)
<1> DEFINE t == Task("fail", round[j], attempt[j], None)
           x == <<t>>
<1>1. PICK p : Added(j, p, x)
  BY AddedFail
<1>2. /\ t.event = "fail" /\ t.round = round[j] /\ t.attempt = attempt[j]
      /\ x \in Seq(Queued) /\ Len(x) = 1 /\ x[1] = t
  BY NewTask, Events DEF TypeOK, StreamTypeOK
<1> HIDE DEF t, x
<1>3. ASSUME NEW u \in ToSet(x) PROVE Comes(j, u) /\ Pending(j, u)'
  <2>1. u.event = "fail" /\ u.round = round[j] /\ u.attempt = attempt[j]
    <3>1. u = t
      BY <1>2, InSeq
    <3> QED  BY <1>2, <3>1
  <2>2. round' = round /\ attempt'[j] = attempt[j] + 1 /\ attempt[j] \in Nat
    BY DEF RegisterFail, RoundFail, TypeOK
  <2>3. Comes(j, u)
    BY <2>1 DEF Comes, Follows, Testing
  <2>4. Pending(j, u)'
    BY <2>1, <2>2 DEF Pending, Testing, Over
  <2> QED  BY <2>3, <2>4
<1>4. Chain(x)
  BY <1>2 DEF Chain
<1> QED  BY <1>1, <1>3, <1>4 DEF AddsFresh

LEMMA FreshAggregate ==
  ASSUME TypeOK, ClosedInv, NEW j \in Job, RegisterAggregate(j)
  PROVE  AddsFresh(j)
<1> DEFINE t == Task("aggregate", round[j], attempt[j], None)
           v == TestOf(round[j], attempt[j])
           Right(u) == /\ u.event \in {"aggregate", "test", "agg_test"}
                       /\ u.round = round[j] /\ u.attempt = attempt[j]
<1>0. /\ round[j] \in Nat /\ attempt[j] \in Nat /\ attempt[j] \in Number
      /\ round'[j] = round[j] + 1 /\ ended' = ended /\ closed' = closed
  BY Events DEF RegisterAggregate, Aggregate, NewAttempt, Insert, TypeOK, StreamTypeOK
<1>1. Added(j, queue[j], <<t>> \o <<>>) \/ Added(j, queue[j], <<t>> \o v)
  BY AddedAggregate
<1>2. /\ t \in Queued /\ Right(t) /\ t.event = "aggregate"
      /\ v \in Seq(Queued) /\ Len(v) = 2
      /\ Right(v[1]) /\ v[1].event = "test" /\ Right(v[2]) /\ v[2].event = "agg_test"
  BY <1>0, NewTask, NewTests
<1> HIDE DEF t, v
<1>3. /\ <<t>> \o <<>> \in Seq(Queued) /\ Len(<<t>> \o <<>>) = 1 /\ (<<t>> \o <<>>)[1] = t
      /\ <<t>> \o v \in Seq(Queued) /\ Len(<<t>> \o v) = 3 /\ (<<t>> \o v)[1] = t
      /\ (<<t>> \o v)[2] = v[1] /\ (<<t>> \o v)[3] = v[2]
  <2>1. t \in Queued /\ v \in Seq(Queued) /\ Len(v) = 2
    BY <1>2
  <2> HIDE DEF Right
  <2>2. <<t>> \in Seq(Queued) /\ Len(<<t>>) = 1 /\ <<t>>[1] = t
    BY <2>1
  <2>3. <<>> \in Seq(Queued) /\ Len(<<>>) = 0
    OBVIOUS
  <2>4. <<t>> \o <<>> = <<t>>
    BY <2>2, ConcatEmptySeq
  <2>5. /\ <<t>> \o v \in Seq(Queued) /\ Len(<<t>> \o v) = 3
        /\ \A i \in 1 .. 3 : (<<t>> \o v)[i] = IF i <= 1 THEN <<t>>[i] ELSE v[i - 1]
    <3> DEFINE w == <<t>>
    <3>1. w \in Seq(Queued) /\ Len(w) = 1
      BY <2>2
    <3> HIDE DEF w
    <3>2. w \o v \in Seq(Queued) /\ Len(w \o v) = 3
          /\ \A i \in 1 .. 3 : (w \o v)[i] = IF i <= 1 THEN w[i] ELSE v[i - 1]
      <4>1. /\ w \o v \in Seq(Queued) /\ Len(w \o v) = Len(w) + Len(v)
            /\ \A i \in 1 .. Len(w) + Len(v) :
                 (w \o v)[i] = IF i <= Len(w) THEN w[i] ELSE v[i - Len(w)]
        BY <2>1, <3>1, ConcatProperties, Zenon
      <4> QED  BY <2>1, <3>1, <4>1
    <3> QED  BY <3>2 DEF w
  <2> QED  BY <2>2, <2>4, <2>5
<1>4. ASSUME NEW x \in Seq(Queued), x \in {<<t>> \o <<>>, <<t>> \o v}
      PROVE  Chain(x) /\ \A u \in ToSet(x) : Right(u)
  <2>1. \A i \in 1 .. Len(x) : Right(x[i]) /\ (i # 3 => x[i].event # "agg_test")
                               /\ (i # 1 => x[i].event # "aggregate") /\ i <= 3
    BY <1>2, <1>3, <1>4
  <2>2. \A u \in ToSet(x) : Right(u)
    BY <2>1, InSeq
  <2>3. ASSUME NEW k \in 1 .. Len(x), NEW i \in 1 .. k - 1 PROVE Follows(x[i], x[k])
    <3>1. i \in 1 .. Len(x) /\ k <= 3 /\ i # 3
      BY <2>1
    <3>2. x[i].event # "agg_test" /\ x[k].event # "train"
      BY <2>1, <3>1
    <3> QED  BY <3>2 DEF Follows
  <2> HIDE DEF Right
  <2> QED  BY <2>2, <2>3 DEF Chain
<1>5. ASSUME NEW u, Right(u) PROVE Comes(j, u) /\ Pending(j, u)'
  <2>1. u.event # "train" /\ u.round = round[j] /\ u.attempt = attempt[j]
    BY <1>5
  <2>2. ASSUME NEW d \in Queued \cup Doing, d.event # "train" => Pending(j, d)
        PROVE  Follows(d, u)
    <3>1. d.event = "agg_test" => Ordered(j, d.round, d.attempt)
      BY <2>2 DEF Pending, Testing
    <3> QED  BY <2>1, <3>1, NothingClosed DEF Follows, SameKey
  <2>3. /\ Over(j, round[j], attempt[j])' = Over(j, round[j], attempt[j])'
        /\ <<"test", j, u.round, u.attempt>> \notin closed'
    BY <1>0, <2>1, NothingClosed
  <2>4. Over(j, u.round, u.attempt)' /\ Ordered(j, u.round, u.attempt)'
    BY <1>0, <2>1 DEF Over, Ordered
  <2>5. Pending(j, u)'
    BY <2>1, <2>3, <2>4 DEF Pending
  <2> QED  BY <2>2, <2>5 DEF Comes
<1> HIDE DEF Right
<1> QED  BY <1>1, <1>3, <1>4, <1>5 DEF AddsFresh

LEMMA FreshFinish ==
  ASSUME TypeOK, ClosedInv, NEW j \in Job, RegisterFinish(j)
  PROVE  AddsFresh(j)
<1>1. PICK r \in Nat : Added(j, queue[j], Append(TestOf(r, -1), Task("finish", r, -1, None)))
  BY AddedFinish
<1> DEFINE v == TestOf(r, -1)
           t == Task("finish", r, -1, None)
           x == Append(v, t)
           Right(u) == /\ u.event \in {"finish", "test", "agg_test"}
                       /\ u.round = r /\ u.attempt = -1
<1>0. ~ ended[j] /\ ended'[j] = TRUE /\ closed' = closed
  BY DEF RegisterFinish, Finish, Insert, TypeOK, StreamTypeOK
<1>2. /\ t \in Queued /\ Right(t) /\ t.event = "finish"
      /\ v \in Seq(Queued) /\ Len(v) = 2
      /\ Right(v[1]) /\ v[1].event = "test" /\ Right(v[2]) /\ v[2].event = "agg_test"
  BY NewTask, NewTests, Events
<1> HIDE DEF t, v
<1>3. /\ x \in Seq(Queued) /\ Len(x) = 3 /\ x[1] = v[1] /\ x[2] = v[2] /\ x[3] = t
  <2>1. t \in Queued /\ v \in Seq(Queued)
    BY <1>2
  <2>2. Len(v) = 2
    BY <1>2
  <2>3. /\ x \in Seq(Queued) /\ Len(x) = Len(v) + 1 /\ x[Len(v) + 1] = t
        /\ \A i \in 1 .. Len(v) : x[i] = v[i]
    BY <2>1
  <2> HIDE DEF x
  <2> QED  BY <2>2, <2>3
<1> HIDE DEF x
<1>4. Chain(x) /\ \A u \in ToSet(x) : Right(u)
  <2>1. \A u \in ToSet(x) : Right(u)
    BY <1>2, <1>3, InSeq
  <2>2. ASSUME NEW k \in 1 .. Len(x), NEW i \in 1 .. k - 1 PROVE Follows(x[i], x[k])
    <3>1. i = 1 \/ (i = 2 /\ k = 3)
      BY <1>3
    <3>2. x[i].event = "test" \/ (x[i].event = "agg_test" /\ x[k].event = "finish")
      BY <1>2, <1>3, <3>1
    <3> QED  BY <3>2 DEF Follows, Concluding, Testing
  <2> HIDE DEF Right
  <2> QED  BY <2>1, <2>2 DEF Chain
<1>5. ASSUME NEW u, Right(u) PROVE Comes(j, u) /\ Pending(j, u)'
  <2>1. u.event \in {"finish", "test", "agg_test"} /\ u.round = r /\ u.attempt = -1
    BY <1>5
  <2>2. ASSUME NEW d \in Queued \cup Doing, d.event # "train" => Pending(j, d)
        PROVE  Follows(d, u)
    <3>1. d.event = "agg_test" => Ordered(j, d.round, d.attempt)
      BY <2>2 DEF Pending, Testing
    <3>2. d.event = "agg_test" => d.attempt # -1
      BY <1>0, <3>1, NothingClosed
    <3> QED  BY <2>1, <3>2 DEF Follows, SameKey
  <2>3. <<"test", j, u.round, u.attempt>> \notin closed'
    BY <1>0, <2>1, NothingClosed
  <2>4. Ordered(j, u.round, u.attempt)'
    BY <1>0, <2>1 DEF Ordered
  <2>5. Pending(j, u)'
    BY <2>1, <2>3, <2>4 DEF Pending, Concluding
  <2> QED  BY <2>2, <2>5 DEF Comes
<1> HIDE DEF Right
<1>6. Added(j, queue[j], x)
  BY <1>1 DEF x, v, t
<1> QED  BY <1>4, <1>5, <1>6 DEF AddsFresh

(* The tasks of a queue and the one that is executed.                      *)
TasksInv == \A j \in Job : \A t \in ToSet(queue[j]) :
  Pending(j, t) /\ (doing.job = j => Follows(doing, t))
PoolInv == \A i, k \in 1 .. Len(pool) : pool[i] = pool[k] => i = k
ChainInv == \A j \in Job : Chain(queue[j])

LEMMA QueueParts == QueueInv <=> PoolInv /\ ClosedInv /\ TasksInv /\ ChainInv
  BY DEF QueueInv, PoolInv, ClosedInv, TasksInv, ChainInv

LEMMA InQueue ==
  ASSUME TypeOK, NEW j \in Job
  PROVE  queue[j] \in Seq(Queued) /\ ToSet(queue[j]) \subseteq Queued
<1>1. queue[j] \in Seq(Queued)
  BY DEF TypeOK
<1>2. ASSUME NEW t \in ToSet(queue[j]) PROVE t \in Queued
  <2>1. PICK i \in 1 .. Len(queue[j]) : queue[j][i] = t
    BY <1>1, InSeq
  <2> QED  BY <1>1, <2>1
<1> QED  BY <1>1, <1>2

LEMMA IdleFollows == \A t : Follows(Idle, t)
  BY DEF Idle, Follows, Concluding

LEMMA DoingFollows ==
  ASSUME TypeOK, LoopInv, NEW j \in Job, NEW u, Comes(j, u), doing.job = j
  PROVE  Follows(doing, u)
<1>1. CASE doing = Idle
  BY <1>1, IdleFollows
<1>2. CASE doing # Idle
  <2>1. doing \in Doing /\ (doing.event # "train" => Pending(j, doing))
    BY <1>2 DEF TypeOK, LoopInv
  <2> QED  BY <2>1 DEF Comes
<1> QED  BY <1>1, <1>2

LEMMA CallFresh ==
  ASSUME TypeOK, ClosedInv, NEW j \in Job, Calls(j)
  PROVE  Register(j) \/ queue' = queue \/ AddsFresh(j)
  BY CallFrame, FreshTrain, FreshFail, FreshAggregate, FreshFinish

(* A call keeps what is said of the tasks of another job.                  *)
LEMMA CallOther ==
  ASSUME TypeOK, QueueInv, NEW j \in Job, Calls(j), NEW i \in Job, queue'[i] = queue[i]
  PROVE  /\ \A t \in ToSet(queue'[i]) : Pending(i, t)' /\ (doing'.job = i => Follows(doing', t))
         /\ Chain(queue'[i])
<1>1. ToSet(queue[i]) \subseteq Queued /\ doing' = doing
  BY InQueue, CallFrame DEF loop
<1>2. ASSUME NEW t \in ToSet(queue[i]) PROVE Pending(i, t)' /\ (doing.job = i => Follows(doing, t))
  <2>1. Pending(i, t) /\ (doing.job = i => Follows(doing, t))
    BY DEF QueueInv
  <2> QED  BY <1>1, <2>1, CallPending
<1>3. Chain(queue[i])
  BY DEF QueueInv
<1> QED  BY <1>1, <1>2, <1>3

LEMMA CallAdds ==
  ASSUME TypeOK, QueueInv, LoopInv, NEW j \in Job, Calls(j), AddsFresh(j)
  PROVE  /\ \A t \in ToSet(queue'[j]) : Pending(j, t)' /\ (doing'.job = j => Follows(doing', t))
         /\ Chain(queue'[j]) /\ \A i \in Job : i # j => queue'[i] = queue[i]
<1>1. PICK p, x : /\ Added(j, p, x) /\ Chain(x)
                  /\ \A u \in ToSet(x) : Comes(j, u) /\ Pending(j, u)'
  BY DEF AddsFresh
<1>2. /\ queue[j] \in Seq(Queued) /\ ToSet(queue[j]) \subseteq Queued /\ doing' = doing
      /\ queue \in [Job -> Seq(Queued)]
  BY InQueue, CallFrame DEF loop, TypeOK
<1>3. /\ p \in Seq(Queued) /\ x \in Seq(Queued) /\ Len(p) <= Len(queue[j])
      /\ \A i \in 1 .. Len(p) : p[i] = queue[j][i]
  BY <1>1 DEF Added
<1>4. queue'[j] = p \o x /\ \A i \in Job : i # j => queue'[i] = queue[i]
  BY <1>1, <1>2, AddedType
<1>5. ASSUME NEW t \in ToSet(queue[j])
      PROVE  /\ Pending(j, t)' /\ (doing.job = j => Follows(doing, t))
             /\ \A u \in ToSet(x) : Follows(t, u)
  <2>1. Pending(j, t) /\ (doing.job = j => Follows(doing, t)) /\ t \in Queued
    BY <1>2 DEF QueueInv
  <2>2. \A u \in ToSet(x) : Follows(t, u)
    BY <1>1, <2>1 DEF Comes
  <2> QED  BY <2>1, <2>2, CallPending
<1>6. Chain(p \o x) /\ ToSet(p \o x) \subseteq ToSet(queue[j]) \cup ToSet(x)
  <2>1. Chain(queue[j])
    BY DEF QueueInv
  <2> QED  BY <1>1, <1>2, <1>3, <1>5, <2>1, LongerChain
<1>7. ASSUME NEW u \in ToSet(x) PROVE Pending(j, u)' /\ (doing.job = j => Follows(doing, u))
  BY <1>1, DoingFollows
<1> QED  BY <1>2, <1>4, <1>5, <1>6, <1>7

LEMMA CallRegister ==
  ASSUME TypeOK, QueueInv, LoopInv, NEW j \in Job, Register(j)
  PROVE  /\ \A t \in ToSet(queue'[j]) : Pending(j, t)' /\ (doing'.job = j => Follows(doing', t))
         /\ Chain(queue'[j]) /\ \A i \in Job : i # j => queue'[i] = queue[i]
<1>1. /\ state[j] = "new" /\ queue' = [queue EXCEPT ![j] = TestOf(0, 0)]
      /\ queue \in [Job -> Seq(Queued)] /\ UNCHANGED <<doing, closed, round>>
      /\ round[j] \in Nat \ {0}
  BY DEF Register, TypeOK, StreamTypeOK, stream, streamVars, loop
<1>2. queue'[j] = TestOf(0, 0) /\ \A i \in Job : i # j => queue'[i] = queue[i]
  BY <1>1
<1> DEFINE x == TestOf(0, 0)
<1>3. /\ x \in Seq(Queued) /\ Len(x) = 2
      /\ x[1].event = "test" /\ x[1].round = 0 /\ x[1].attempt = 0
      /\ x[2].event = "agg_test" /\ x[2].round = 0 /\ x[2].attempt = 0
  BY NewTests, NewTask, Events
<1> HIDE DEF x
<1>4. Chain(x)
  <2>1. ASSUME NEW k \in 1 .. Len(x), NEW i \in 1 .. k - 1 PROVE Follows(x[i], x[k])
    <3>1. i = 1
      BY <1>3
    <3> QED  BY <1>3, <3>1 DEF Follows, Concluding
  <2> QED  BY <2>1 DEF Chain
<1>5. ASSUME NEW t \in ToSet(x) PROVE Pending(j, t)'
  <2>1. t.event \in Testing /\ t.round = 0 /\ t.attempt = 0
    <3>1. PICK i \in 1 .. Len(x) : x[i] = t
      BY <1>3, InSeq
    <3> QED  BY <1>3, <3>1 DEF Testing
  <2>2. <<"test", j, 0, 0>> \notin closed
    BY <1>1 DEF QueueInv
  <2>3. Ordered(j, t.round, t.attempt)' /\ <<"test", j, t.round, t.attempt>> \notin closed'
    BY <1>1, <2>1, <2>2 DEF Ordered
  <2> QED  BY <2>1, <2>3 DEF Pending, Concluding, Testing
<1>6. doing.job = j => \A t : Follows(doing, t)
  <2>1. CASE doing = Idle
    BY <2>1, IdleFollows
  <2>2. CASE doing # Idle
    BY <1>1, <2>2 DEF LoopInv
  <2> QED  BY <2>1, <2>2
<1> QED  BY <1>1, <1>2, <1>4, <1>5, <1>6 DEF x

LEMMA CallQueue ==
  ASSUME ExInv, NEW j \in Job, Calls(j)
  PROVE  QueueInv'
<1>0. TypeOK /\ QueueInv /\ LoopInv /\ ClosedInv /\ PoolInv
  BY QueueParts DEF ExInv
<1>1. PoolInv'
  <2>1. CASE Register(j)
    <3>1. /\ pool \in Seq(Job) /\ pool' \in Seq(Job) /\ Len(pool') = Len(pool) + 1
          /\ pool'[Len(pool) + 1] = j
          /\ \A i \in 1 .. Len(pool) : pool'[i] = pool[i] /\ pool'[i] # j
      BY <1>0, <2>1, RegisterIs DEF TypeOK
    <3>2. \A i \in 1 .. Len(pool') : i \in 1 .. Len(pool) \/ i = Len(pool) + 1
      BY <3>1
    <3> QED  BY <1>0, <3>1, <3>2 DEF PoolInv
  <2>2. CASE pool' = pool
    BY <1>0, <2>2 DEF PoolInv
  <2> QED  BY <2>1, <2>2, CallFrame
<1>2. ClosedInv'
  <2>1. closed' = closed
    BY CallFrame
  <2>2. ASSUME NEW x \in closed
        PROVE  /\ x[2] \in Job /\ state'[x[2]] # "new"
               /\ x[1] = "train" => Over(x[2], x[3], x[4])'
               /\ x[1] = "test" => Ordered(x[2], x[3], x[4])'
    <3>1. x[2] \in Job /\ x[3] \in Nat /\ x[4] \in Number
      BY <1>0 DEF TypeOK
    <3>2. /\ state[x[2]] # "new" /\ (x[1] = "train" => Over(x[2], x[3], x[4]))
          /\ x[1] = "test" => Ordered(x[2], x[3], x[4])
      BY <1>0 DEF ClosedInv
    <3>3. state'[x[2]] # "new"
      <4>1. CASE Register(j)
        BY <1>0, <3>1, <3>2, <4>1 DEF Register, TypeOK
      <4>2. CASE state' = state
        BY <3>2, <4>2
      <4> QED  BY <4>1, <4>2, CallFrame
    <3> QED  BY <1>0, <3>1, <3>2, <3>3, CallMonotone
  <2> QED  BY <2>1, <2>2 DEF ClosedInv
<1>3. ASSUME NEW i \in Job
      PROVE  /\ \A t \in ToSet(queue'[i]) : Pending(i, t)' /\ (doing'.job = i => Follows(doing', t))
             /\ Chain(queue'[i])
  <2>1. CASE queue'[i] = queue[i]
    BY <1>0, <2>1, CallOther
  <2>2. CASE queue'[i] # queue[i]
    <3>1. CASE Register(j)
      BY <1>0, <2>2, <3>1, CallRegister
    <3>2. CASE AddsFresh(j)
      BY <1>0, <2>2, <3>2, CallAdds
    <3> QED  BY <1>0, <2>2, <3>1, <3>2, CallFresh
  <2> QED  BY <2>1, <2>2
<1>4. TasksInv' /\ ChainInv'
  BY <1>3 DEF TasksInv, ChainInv
<1>5. (QueueInv <=> PoolInv /\ ClosedInv /\ TasksInv /\ ChainInv)'
  BY QueueParts, PTL
<1> QED  BY <1>1, <1>2, <1>4, <1>5

(* What the loop takes next.                                               *)
LEMMA NextIs ==
  ASSUME TypeOK, NextTask
  PROVE  /\ doing = Idle /\ UNCHANGED <<stream, state, sums, hung, closed>>
         /\ \E k \in 0 .. Len(pool) - 1 : pool' = Rotated(k)
         /\ \E j \in Job : \E n \in 1 .. Len(queue[j]), run \in RunOf, all \in RunTable :
              /\ state[j] = "known" /\ queue[j] # <<>>
              /\ Executed(j, n, run, all)
<1>1. PICK k \in 0 .. Len(pool) - 1 :
        Ready(k) /\ pool' = Rotated(k) /\ Execute(pool[k + 1], queue[pool[k + 1]])
  BY DEF NextTask
<1> DEFINE j == pool[k + 1]
<1>2. j \in Job /\ k + 1 \in 1 .. Len(pool) /\ queue[j] # <<>> /\ Execute(j, queue[j])
  <2>1. pool \in Seq(Job)
    BY DEF TypeOK
  <2>2. k + 1 \in 1 .. Len(pool) /\ j \in Job
    BY <2>1
  <2> QED  BY <1>1, <2>2 DEF Ready
<1>3. state[j] = "known"
  BY <1>2 DEF TypeOK
<1> HIDE DEF j
<1>4. \E n \in 1 .. Len(queue[j]), run \in RunOf, all \in RunTable : Executed(j, n, run, all)
  BY <1>2, Executes
<1>5. doing = Idle /\ UNCHANGED <<stream, state, sums, hung, closed>>
  BY DEF NextTask
<1> QED  BY <1>1, <1>2, <1>3, <1>4, <1>5

LEMMA SameAttempts ==
  ASSUME UNCHANGED <<round, attempt, ended>>
  PROVE  /\ \A i, r, a : Over(i, r, a) <=> Over(i, r, a)'
         /\ \A i, r, a : Ordered(i, r, a) <=> Ordered(i, r, a)'
  BY DEF Over, Ordered

LEMMA SamePending ==
  ASSUME UNCHANGED <<round, attempt, ended, closed>>
  PROVE  \A i, t : Pending(i, t) <=> Pending(i, t)'
  BY SameAttempts DEF Pending

(* A step that takes tasks away and concludes nothing.                     *)
LEMMA QueueFrame ==
  ASSUME TypeOK, QueueInv, UNCHANGED <<round, attempt, ended, closed>>, PoolInv',
         \A i \in Job : state[i] # "new" => state'[i] # "new",
         \A i \in Job : ToSet(queue'[i]) \subseteq ToSet(queue[i]) /\ Chain(queue'[i]),
         \A i \in Job : doing'.job = i => \A t \in ToSet(queue'[i]) : Follows(doing', t)
  PROVE  QueueInv'
<1>1. ClosedInv'
  <2>1. \A x \in closed : x[2] \in Job
    BY DEF TypeOK
  <2>2. ASSUME NEW x \in closed
        PROVE  /\ state'[x[2]] # "new"
               /\ x[1] = "train" => Over(x[2], x[3], x[4])'
               /\ x[1] = "test" => Ordered(x[2], x[3], x[4])'
    BY <2>1, SameAttempts DEF QueueInv
  <2> QED  BY <2>2 DEF ClosedInv
<1>2. ASSUME NEW i \in Job, NEW t \in ToSet(queue'[i]) PROVE Pending(i, t)'
  BY SamePending DEF QueueInv
<1>3. TasksInv' /\ ChainInv'
  BY <1>2 DEF TasksInv, ChainInv
<1>4. (QueueInv <=> PoolInv /\ ClosedInv /\ TasksInv /\ ChainInv)'
  BY QueueParts, PTL
<1> QED  BY <1>1, <1>3, <1>4

(* A step that concludes an attempt or a test.                             *)
LEMMA QueueConclude ==
  ASSUME TypeOK, QueueInv, LoopInv, UNCHANGED <<round, attempt, ended, state, pool, queue>>,
         doing # Idle, doing' = Idle, NEW e, Conclude(e, doing),
         \/ e = "train" /\ doing.event \in Concluding
         \/ e = "test" /\ doing.event = "agg_test"
  PROVE  QueueInv'
<1> DEFINE c == <<e, doing.job, doing.round, doing.attempt>>
<1>1. closed' = closed \cup {c}
  BY DEF Conclude
<1>2. state[doing.job] = "known" /\ Pending(doing.job, doing)
  BY DEF LoopInv, Concluding
<1>3. ClosedInv'
  <2>1. ASSUME NEW x \in closed
        PROVE  /\ state'[x[2]] # "new"
               /\ x[1] = "train" => Over(x[2], x[3], x[4])'
               /\ x[1] = "test" => Ordered(x[2], x[3], x[4])'
    BY SameAttempts DEF QueueInv
  <2>2. ASSUME NEW x, x = c
        PROVE  /\ state'[x[2]] # "new"
               /\ x[1] = "train" => Over(x[2], x[3], x[4])'
               /\ x[1] = "test" => Ordered(x[2], x[3], x[4])'
    <3>1. x[1] = e /\ x[2] = doing.job /\ x[3] = doing.round /\ x[4] = doing.attempt
      BY <2>2
    <3>2. /\ e = "train" => Over(x[2], x[3], x[4])
          /\ e = "test" => Ordered(x[2], x[3], x[4])
      BY <1>2, <3>1 DEF Pending, Concluding, Testing
    <3> QED  BY <1>2, <3>1, <3>2, SameAttempts
  <2> HIDE DEF c
  <2> QED  BY <1>1, <2>1, <2>2 DEF ClosedInv
<1>4. ASSUME NEW i \in Job, NEW t \in ToSet(queue[i]) PROVE Pending(i, t)'
  <2>1. Pending(i, t) /\ (doing.job = i => Follows(doing, t))
    BY DEF QueueInv
  <2>2. t.event = "train" => <<"train", i, t.round, t.attempt>> # c
    BY <2>1 DEF Follows, SameKey
  <2>3. t.event \in Testing => <<"test", i, t.round, t.attempt>> # c
    BY <2>1 DEF Follows, SameKey
  <2> HIDE DEF c
  <2> QED  BY <1>1, <2>1, <2>2, <2>3, SameAttempts DEF Pending
<1>5. TasksInv' /\ ChainInv' /\ PoolInv'
  BY <1>4, IdleFollows DEF TasksInv, ChainInv, PoolInv, QueueInv
<1>6. (QueueInv <=> PoolInv /\ ClosedInv /\ TasksInv /\ ChainInv)'
  BY QueueParts, PTL
<1> QED  BY <1>3, <1>5, <1>6

LEMMA NextQueue ==
  ASSUME ExInv, NextTask
  PROVE  QueueInv'
<1>0. TypeOK /\ QueueInv /\ PoolInv
  BY QueueParts DEF ExInv
<1>1. /\ doing = Idle /\ UNCHANGED <<round, attempt, ended, state, closed>>
      /\ \E k \in 0 .. Len(pool) - 1 : pool' = Rotated(k)
  BY <1>0, NextIs DEF stream, streamVars
<1>2. PICK j \in Job : \E n \in 1 .. Len(queue[j]), run \in RunOf, all \in RunTable :
              /\ state[j] = "known" /\ queue[j] # <<>>
              /\ Executed(j, n, run, all)
  BY <1>0, NextIs
<1>3. PICK n \in 1 .. Len(queue[j]), run \in RunOf, all \in RunTable :
              Executed(j, n, run, all)
  BY <1>2
<1> DEFINE s == SubSeq(queue[j], n + 1, Len(queue[j]))
<1>4. queue' = [queue EXCEPT ![j] = s] /\ (doing' = Idle \/ doing' = Taken(j))
  BY <1>1, <1>3 DEF Executed
<1>5. queue[j] \in Seq(Queued) /\ Chain(queue[j]) /\ queue \in [Job -> Seq(Queued)]
  BY <1>0 DEF TypeOK, QueueInv
<1>6. Chain(s) /\ ToSet(s) \subseteq ToSet(queue[j]) /\ \A t \in ToSet(s) : Follows(queue[j][1], t)
  BY <1>5, ShorterChain
<1> HIDE DEF s
<1>7. queue'[j] = s /\ \A i \in Job : i # j => queue'[i] = queue[i]
  BY <1>4, <1>5
<1>8. PoolInv'
  <2>1. PICK k \in 0 .. Len(pool) - 1 : pool' = Rotated(k)
    BY <1>1
  <2>2. pool \in Seq(Job) /\ \A i, m \in 1 .. Len(pool) : pool[i] = pool[m] => i = m
    BY <1>0 DEF TypeOK, PoolInv
  <2>3. \A i, m \in 1 .. Len(Rotated(k)) : Rotated(k)[i] = Rotated(k)[m] => i = m
    BY <2>2, PoolTurned
  <2> QED  BY <2>1, <2>3 DEF PoolInv
<1>9. \A i \in Job : ToSet(queue'[i]) \subseteq ToSet(queue[i]) /\ Chain(queue'[i])
  BY <1>0, <1>6, <1>7 DEF QueueInv
<1>10. ASSUME NEW i \in Job, doing'.job = i, NEW t \in ToSet(queue'[i]) PROVE Follows(doing', t)
  <2>1. CASE doing' = Idle
    BY <2>1, IdleFollows
  <2>2. CASE doing' = Taken(j)
    <3>1. i = j /\ Follows(queue[j][1], t)
      BY <1>6, <1>7, <1>10, <2>2 DEF Taken
    <3> QED  BY <2>2, <3>1 DEF Taken, Follows, SameKey
  <2> QED  BY <1>4, <2>1, <2>2
<1> QED  BY <1>0, <1>1, <1>8, <1>9, <1>10, QueueFrame

LEMMA FinishQueue ==
  ASSUME ExInv, FinishRemoves
  PROVE  QueueInv'
<1> DEFINE j == doing.job
<1>0. TypeOK /\ QueueInv /\ PoolInv
  BY QueueParts DEF ExInv
<1>1. /\ doing.stage # "idle" /\ UNCHANGED <<round, attempt, ended, closed>>
      /\ pool' = PoolWithout(j) /\ queue' = [queue EXCEPT ![j] = <<>>]
      /\ state' = [state EXCEPT ![j] = "removed"]
      /\ doing' = [doing EXCEPT !.stage = "remove"]
  BY DEF FinishRemoves, stream, streamVars
<1>2. j \in Job /\ pool \in Seq(Job) /\ queue \in [Job -> Seq(Queued)]
      /\ state \in [Job -> {"new", "known", "removed"}] /\ doing'.job = j
  BY <1>0, <1>1, DoingIs DEF TypeOK, Doing
<1> HIDE DEF j
<1>3. PoolInv'
  <2>1. \A i, m \in 1 .. Len(PoolWithout(j)) : PoolWithout(j)[i] = PoolWithout(j)[m] => i = m
    BY <1>0, <1>2, PoolShorter DEF PoolInv
  <2> QED  BY <1>1, <2>1 DEF PoolInv
<1>4. \A i \in Job : state[i] # "new" => state'[i] # "new"
  BY <1>1, <1>2
<1>5. ASSUME NEW i \in Job
      PROVE  ToSet(queue'[i]) \subseteq ToSet(queue[i]) /\ Chain(queue'[i])
  <2>1. CASE i = j
    <3>1. queue'[i] = <<>>
      BY <1>1, <1>2, <2>1
    <3> QED  BY <3>1 DEF ToSet, Chain
  <2>2. CASE i # j
    <3>1. queue'[i] = queue[i]
      BY <1>1, <1>2, <2>2
    <3> QED  BY <1>0, <3>1 DEF QueueInv
  <2> QED  BY <2>1, <2>2
<1>6. \A i \in Job : doing'.job = i => \A t \in ToSet(queue'[i]) : Follows(doing', t)
  <2>1. queue'[j] = <<>>
    BY <1>1, <1>2
  <2>2. ToSet(queue'[j]) = {}
    BY <2>1 DEF ToSet
  <2> QED  BY <1>2, <2>2
<1> QED  BY <1>0, <1>1, <1>3, <1>4, <1>5, <1>6, QueueFrame

LEMMA QueueStep == ExInv /\ [ExNext]_vars => QueueInv'
<1> SUFFICES ASSUME ExInv, [ExNext]_vars PROVE QueueInv'
  OBVIOUS
<1>0. TypeOK /\ QueueInv /\ LoopInv /\ PoolInv /\ \A i \in Job : Chain(queue[i])
  BY QueueParts DEF ExInv, ChainInv
<1>1. ASSUME NEW j \in Job, Calls(j) PROVE QueueInv'
  BY <1>1, CallQueue
<1>2. ASSUME UNCHANGED <<round, attempt, ended, closed, pool, state, queue>>,
             \/ doing' = Idle \/ doing' = doing
             \/ \E s : doing' = [doing EXCEPT !.stage = s] /\ doing \in Doing
      PROVE  QueueInv'
  <2>1. PoolInv'
    BY <1>0, <1>2 DEF PoolInv
  <2>2. ASSUME NEW i \in Job, doing'.job = i, NEW t \in ToSet(queue[i]) PROVE Follows(doing', t)
    <3>1. CASE doing' = Idle
      BY <3>1, IdleFollows
    <3>2. CASE doing' = doing
      BY <1>0, <2>2, <3>2 DEF QueueInv
    <3>3. ASSUME NEW s, doing' = [doing EXCEPT !.stage = s], doing \in Doing
          PROVE  Follows(doing', t)
      <4>1. /\ doing'.event = doing.event /\ doing'.round = doing.round /\ doing'.job = doing.job
            /\ doing'.attempt = doing.attempt
        BY <3>3 DEF Doing
      <4>2. Follows(doing, t)
        BY <1>0, <2>2, <4>1 DEF QueueInv
      <4> QED  BY <4>1, <4>2 DEF Follows, SameKey
    <3> QED  BY <1>2, <3>1, <3>2, <3>3
  <2> QED  BY <1>0, <1>2, <2>1, <2>2, QueueFrame
<1>3. ASSUME NEW t \in running, Merge(t) \/ GiveUp(t) \/ Hang(t) PROVE QueueInv'
  BY <1>2, <1>3 DEF Merge, GiveUp, Hang, stream, streamVars, tasks, loop
<1>4. CASE NoTask \/ TrainGoes \/ TestStarts \/ RemoveEnds
  BY <1>2, <1>4 DEF NoTask, TrainGoes, TestStarts, RemoveEnds, GoesIdle, stream, streamVars, tasks
<1>5. CASE AggregateStarts \/ FinishWaits
  <2>1. doing \in Doing
    BY <1>0, <1>5, DoingIs DEF AggregateStarts, FinishWaits
  <2> QED  BY <1>2, <1>5, <2>1 DEF AggregateStarts, FinishWaits, WaitFor, stream, streamVars, tasks
<1>6. CASE TestEnds
  <2>1. doing.stage # "idle" /\ doing.event = "agg_test" /\ Conclude("test", doing) /\ doing' = Idle
        /\ UNCHANGED <<round, attempt, ended, state, pool, queue>>
    BY <1>6 DEF TestEnds, GoesIdle, stream, streamVars, tasks
  <2> QED  BY <1>0, <2>1, DoingIs, QueueConclude
<1>7. CASE AggregateEnds \/ AggregateNone \/ FailEnds
  <2>1. doing.stage # "idle" /\ Conclude("train", doing) /\ doing' = Idle
        /\ UNCHANGED <<round, attempt, ended, state, pool, queue>>
    BY <1>7 DEF AggregateEnds, AggregateNone, FailEnds, GoesIdle, stream, streamVars, tasks
  <2>2. doing.event \in Concluding
    BY <1>0, <1>7 DEF AggregateEnds, AggregateNone, FailEnds, LoopInv, Concluding
  <2> QED  BY <1>0, <2>1, <2>2, DoingIs, QueueConclude
<1>8. CASE NextTask \/ FinishRemoves
  BY <1>8, NextQueue, FinishQueue
<1>9. CASE UNCHANGED vars
  BY <1>2, <1>9 DEF vars, stream, streamVars, tasks, loop
<1> QED  BY <1>1, <1>3, <1>4, <1>5, <1>6, <1>7, <1>8, <1>9 DEF ExNext, Loop, Answered

-----------------------------------------------------------------------------
(* LoopInv.                                                                *)

DoingInv ==
  /\ \A d \in {doing} \ {Idle} :
       /\ state[d.job] = IF d.stage = "remove" THEN "removed" ELSE "known"
       /\ d.event # "train" => Pending(d.job, d)
  /\ doing.stage = "update" => doing.event = "aggregate" /\ waits = {}
  /\ doing.stage = "remove" => waits = {}
  /\ doing.stage \in {"wait_test", "remove"} => doing.event = "finish"
  /\ doing # Idle /\ doing.event # "agg_test" => started["train"][doing.job] = {}
  /\ doing.event = "agg_test" \/ doing.stage \in {"wait_test", "remove"} =>
       started["test"][doing.job] = {}
CoverInv == \A t \in running :
  t \in hung \/ t \in started[t.event][t.job] \/ (t \in waits /\ doing # Idle /\ doing.job = t.job)

LEMMA LoopParts == LoopInv <=> DoingInv /\ CoverInv
  BY DEF LoopInv, DoingInv, CoverInv

LEMMA LoopCall ==
  ASSUME ExInv, NEW j \in Job, Calls(j)
  PROVE  LoopInv'
<1>0. TypeOK /\ QueueInv /\ DoingInv /\ CoverInv
  BY LoopParts DEF ExInv
<1>1. UNCHANGED <<doing, waits, running, started, hung>>
  BY CallFrame DEF loop
<1>2. CoverInv'
  BY <1>0, <1>1 DEF CoverInv
<1> DEFINE known(d) == IF d.stage = "remove" THEN "removed" ELSE "known"
<1>3. ASSUME NEW d, d = doing, d # Idle
      PROVE  state'[d.job] = known(d) /\ (d.event # "train" => Pending(d.job, d)')
  <2>1. d \in Doing /\ d.job \in Job
    BY <1>0, <1>3 DEF TypeOK, Doing
  <2>2. state[d.job] = known(d) /\ (d.event # "train" => Pending(d.job, d))
    BY <1>0, <1>3 DEF DoingInv
  <2>3. state'[d.job] = known(d)
    <3>1. CASE Register(j)
      BY <1>0, <2>1, <2>2, <3>1 DEF Register, TypeOK
    <3> QED  BY <2>2, <3>1, CallFrame
  <2>4. d.event # "train" => Pending(d.job, d)'
    BY <1>0, <2>1, <2>2, CallPending
  <2> QED  BY <2>3, <2>4
<1>4. DoingInv'
  BY <1>0, <1>1, <1>3 DEF DoingInv
<1>5. (LoopInv <=> DoingInv /\ CoverInv)'
  BY LoopParts, PTL
<1> QED  BY <1>2, <1>4, <1>5

(* Nothing of the loop changes, but tasks may end or be started to hang.   *)
LEMMA LoopFrame ==
  ASSUME LoopInv, UNCHANGED <<round, attempt, ended, closed, state, doing, waits, started>>,
         running' \subseteq running, hung \subseteq hung'
  PROVE  LoopInv'
<1>1. DoingInv /\ CoverInv
  BY LoopParts
<1>2. CoverInv'
  BY <1>1 DEF CoverInv
<1>3. DoingInv'
  BY <1>1, SamePending DEF DoingInv
<1>4. (LoopInv <=> DoingInv /\ CoverInv)'
  BY LoopParts, PTL
<1> QED  BY <1>2, <1>3, <1>4

(* The task is done: all that it waited for has ended or hangs.            *)
LEMMA LoopIdle ==
  ASSUME LoopInv, doing' = Idle, waits' = {}, waits \cap running \subseteq hung, hung' = hung,
         \A t \in running' : \/ t \in started'[t.event][t.job]
                             \/ t \in running /\ (t \in started[t.event][t.job] =>
                                                  t \in started'[t.event][t.job])
  PROVE  LoopInv'
<1>1. CoverInv
  BY LoopParts
<1>2. CoverInv'
  BY <1>1 DEF CoverInv
<1>3. DoingInv'
  BY Events DEF DoingInv
<1>4. (LoopInv <=> DoingInv /\ CoverInv)'
  BY LoopParts, PTL
<1> QED  BY <1>2, <1>3, <1>4

LEMMA LoopTestStarts ==
  ASSUME ExInv, TestStarts
  PROVE  LoopInv'
<1> DEFINE runs == {Run(doing.job, "test", doing.round, doing.attempt, {p}) : p \in Part}
<1>0. TypeOK /\ LoopInv
  BY DEF ExInv
<1>1. /\ doing' = Idle /\ waits' = {} /\ waits \cap running \subseteq hung /\ hung' = hung
      /\ running' = running \cup runs
      /\ started' = [started EXCEPT !["test"][doing.job] = @ \cup runs]
      /\ doing.stage # "idle"
  BY DEF TestStarts, GoesIdle, Waited
<1>2. \A t \in runs : t.event = "test" /\ t.job = doing.job
  BY DEF Run
<1>3. started \in RunTable /\ running \subseteq RunOf /\ doing.job \in Job
  BY <1>0, <1>1, DoingIs DEF TypeOK, RunTable
<1> HIDE DEF runs
<1>4. /\ started'["test"][doing.job] = started["test"][doing.job] \cup runs
      /\ \A e \in {"train", "test"}, i \in Job : started[e][i] \subseteq started'[e][i]
  BY <1>1, <1>3 DEF RunTable
<1>5. ASSUME NEW t \in running'
      PROVE  \/ t \in started'[t.event][t.job]
             \/ t \in running /\ (t \in started[t.event][t.job] => t \in started'[t.event][t.job])
  <2>1. CASE t \in runs
    BY <1>2, <1>4, <2>1
  <2>2. CASE t \in running
    <3>1. t.event \in {"train", "test"} /\ t.job \in Job
      BY <1>3, <2>2 DEF RunOf
    <3> QED  BY <1>4, <2>2, <3>1
  <2> QED  BY <1>1, <2>1, <2>2
<1> QED  BY <1>0, <1>1, <1>5, LoopIdle

LEMMA LoopRemoveEnds ==
  ASSUME ExInv, RemoveEnds
  PROVE  LoopInv'
<1> DEFINE j == doing.job
           without == [e \in {"train", "test"} |-> [started[e] EXCEPT ![j] = {}]]
<1>0. TypeOK /\ LoopInv
  BY DEF ExInv
<1>1. /\ doing' = Idle /\ waits' = {} /\ UNCHANGED <<hung, running>>
      /\ doing.stage = "remove" /\ started' \in {started, without}
  BY DEF RemoveEnds, GoesIdle
<1>2. started \in RunTable /\ running \subseteq RunOf /\ j \in Job /\ doing # Idle
  BY <1>0, <1>1, DoingIs DEF TypeOK, RunTable
<1>3. started["train"][j] = {} /\ started["test"][j] = {} /\ waits = {}
  BY <1>0, <1>1, <1>2 DEF LoopInv
<1> HIDE DEF j
<1>4. \A e \in {"train", "test"}, i \in Job : i # j => without[e][i] = started[e][i]
  BY <1>2 DEF RunTable
<1> HIDE DEF without
<1>5. ASSUME NEW t \in running', t \in started[t.event][t.job]
      PROVE  t \in started'[t.event][t.job]
  <2>1. t.event \in {"train", "test"} /\ t.job \in Job
    BY <1>1, <1>2 DEF RunOf
  <2>2. t.job # j
    BY <1>3, <1>5, <2>1
  <2> QED  BY <1>1, <1>4, <1>5, <2>1, <2>2
<1> QED  BY <1>0, <1>1, <1>3, <1>5, LoopIdle

(* A job is removed: all that ran for it has ended or hangs.               *)
LEMMA LoopRemoves ==
  ASSUME ExInv, FinishRemoves
  PROVE  LoopInv'
<1>0. TypeOK /\ DoingInv /\ CoverInv
  BY LoopParts DEF ExInv
<1>1. /\ doing.stage = "wait_test" /\ waits \cap running \subseteq hung /\ waits' = {}
      /\ UNCHANGED <<round, attempt, ended, closed, hung, running, started>>
      /\ doing' = [doing EXCEPT !.stage = "remove"]
      /\ state' = [state EXCEPT ![doing.job] = "removed"]
  BY DEF FinishRemoves, Waited, stream, streamVars
<1>2. doing \in Doing /\ doing # Idle /\ doing.job \in Job
  BY <1>0, <1>1, DoingIs
<1>3. /\ doing'.job = doing.job /\ doing'.event = "finish" /\ doing'.stage = "remove"
      /\ started["train"][doing.job] = {} /\ started["test"][doing.job] = {}
      /\ state'[doing.job] = "removed"
  BY <1>0, <1>1, <1>2 DEF Doing, DoingInv, TypeOK
<1>4. CoverInv'
  BY <1>0, <1>1 DEF CoverInv
<1>5. ASSUME NEW d, d = doing'
      PROVE  state'[d.job] = "removed" /\ d.stage = "remove" /\ Pending(d.job, d)'
  BY <1>3, <1>5 DEF Pending, Concluding, Testing
<1>6. DoingInv'
  BY <1>1, <1>3, <1>5 DEF DoingInv
<1>7. (LoopInv <=> DoingInv /\ CoverInv)'
  BY LoopParts, PTL
<1> QED  BY <1>4, <1>6, <1>7

(* It goes on to wait for the tests, or to send the new weights.           *)
LEMMA LoopFurther ==
  ASSUME ExInv, AggregateStarts \/ FinishWaits
  PROVE  LoopInv'
<1>0. TypeOK /\ DoingInv /\ CoverInv
  BY LoopParts DEF ExInv
<1>1. /\ doing.stage = "wait" /\ waits \cap running \subseteq hung
      /\ UNCHANGED <<round, attempt, ended, closed, state, hung, running>>
      /\ doing.event # "train" /\ doing.event # "agg_test"
      /\ \/ /\ doing.event = "aggregate" /\ doing' = [doing EXCEPT !.stage = "update"]
            /\ waits' = {} /\ started' = started
         \/ /\ doing.event = "finish" /\ doing' = [doing EXCEPT !.stage = "wait_test"]
            /\ waits' = started["test"][doing.job]
            /\ started' = [started EXCEPT !["test"][doing.job] = {}]
  BY DEF AggregateStarts, FinishWaits, WaitFor, Waited, stream, streamVars, tasks
<1>2. /\ doing \in Doing /\ doing # Idle /\ doing.job \in Job /\ doing' \in Doing /\ doing' # Idle
      /\ started \in RunTable /\ running \subseteq RunOf
  <2>1. doing \in Doing /\ doing # Idle /\ doing.job \in Job
    BY <1>0, <1>1, DoingIs
  <2>2. \A s \in {"wait", "wait_test", "update", "remove"} : [doing EXCEPT !.stage = s] \in Doing
    BY <1>0, <1>1, DoingIs
  <2>3. doing' \in Doing /\ doing' # Idle
    BY <1>1, <2>2, Events
  <2> QED  BY <1>0, <2>1, <2>3 DEF TypeOK, RunTable
<1>3. /\ doing'.job = doing.job /\ doing'.event = doing.event /\ doing'.round = doing.round
      /\ doing'.attempt = doing.attempt
      /\ \/ doing.event = "aggregate" /\ doing'.stage = "update"
         \/ doing.event = "finish" /\ doing'.stage = "wait_test"
  BY <1>1, <1>2 DEF Doing
<1>4. /\ started'["train"][doing.job] = {}
      /\ doing.event = "finish" => started'["test"][doing.job] = {}
      /\ \A t \in running : t \in started[t.event][t.job] =>
           t \in started'[t.event][t.job] \/ (t \in waits' /\ doing.job = t.job)
  <2>1. started["train"][doing.job] = {}
    BY <1>0, <1>1, <1>2 DEF DoingInv
  <2>2. CASE started' = started /\ doing.event = "aggregate"
    BY <2>1, <2>2
  <2>3. CASE /\ started' = [started EXCEPT !["test"][doing.job] = {}]
             /\ waits' = started["test"][doing.job]
    <3>1. /\ started'["test"][doing.job] = {}
          /\ \A e \in {"train", "test"}, i \in Job :
               e # "test" \/ i # doing.job => started'[e][i] = started[e][i]
      BY <1>2, <2>3 DEF RunTable
    <3>2. \A t \in running : t.event \in {"train", "test"} /\ t.job \in Job
      BY <1>2 DEF RunOf
    <3> QED  BY <1>2, <2>1, <2>3, <3>1, <3>2
  <2> QED  BY <1>1, <2>2, <2>3
<1>5. CoverInv'
  <2>1. ASSUME NEW t \in running
        PROVE  \/ t \in hung \/ t \in started'[t.event][t.job]
               \/ t \in waits' /\ doing'.job = t.job
    BY <1>0, <1>1, <1>3, <1>4 DEF CoverInv
  <2> QED  BY <1>1, <1>2, <2>1 DEF CoverInv
<1>6. ASSUME NEW d, d = doing'
      PROVE  state'[d.job] = "known" /\ Pending(d.job, d)'
  <2>1. PICK c : c = doing
    OBVIOUS
  <2>2. state[c.job] = "known" /\ Pending(c.job, c)
    BY <1>0, <1>1, <1>2, <2>1 DEF DoingInv
  <2>3. Pending(c.job, c)'
    BY <1>1, <2>2, SamePending
  <2>4. d.job = c.job /\ d.event = c.event /\ d.round = c.round /\ d.attempt = c.attempt
    BY <1>3, <1>6, <2>1
  <2> QED  BY <1>1, <2>2, <2>3, <2>4 DEF Pending
<1>7. DoingInv'
  BY <1>1, <1>3, <1>4, <1>6 DEF DoingInv
<1>8. (LoopInv <=> DoingInv /\ CoverInv)'
  BY LoopParts, PTL
<1> QED  BY <1>5, <1>7, <1>8

LEMMA LoopNext ==
  ASSUME ExInv, NextTask
  PROVE  LoopInv'
<1>0. TypeOK /\ QueueInv /\ DoingInv /\ CoverInv
  BY LoopParts DEF ExInv
<1>1. doing = Idle /\ UNCHANGED <<round, attempt, ended, state, hung, closed>>
  BY <1>0, NextIs DEF stream, streamVars
<1>2. PICK j \in Job : \E n \in 1 .. Len(queue[j]), run \in RunOf, all \in RunTable :
              /\ state[j] = "known" /\ queue[j] # <<>>
              /\ Executed(j, n, run, all)
  BY <1>0, NextIs
<1>3. PICK n \in 1 .. Len(queue[j]), run \in RunOf, all \in RunTable :
              state[j] = "known" /\ queue[j] # <<>> /\ Executed(j, n, run, all)
  BY <1>2
<1> DEFINE e == queue[j][1].event
           w == Waiting(e)
<1>4. /\ run.event = "train" /\ run.job = j
      /\ e = "train" => running' = running \cup {run} /\ run \in all["train"][j]
      /\ e # "train" => running' = running
      /\ \A k \in {"train", "test"}, i \in Job : started[k][i] \subseteq all[k][i]
      /\ \/ UNCHANGED <<doing, waits>> /\ started' = all
         \/ doing' = Taken(j) /\ waits' = all[w][j] /\ started' = [all EXCEPT ![w][j] = {}]
  BY <1>3 DEF Executed
<1>5. w \in {"train", "test"} /\ (e # "agg_test" => w = "train") /\ (e = "agg_test" => w = "test")
  BY DEF Waiting
<1>6. /\ Taken(j).event = e /\ Taken(j).job = j /\ Taken(j).stage = "wait" /\ Taken(j) # Idle
      /\ Taken(j).round = queue[j][1].round /\ Taken(j).attempt = queue[j][1].attempt
  BY DEF Taken, Idle
<1> HIDE DEF e, w
<1>7. \A t \in running' : /\ t.event \in {"train", "test"} /\ t.job \in Job
                          /\ t \in hung \/ t \in all[t.event][t.job]
  <2>1. ASSUME NEW t \in running
        PROVE  /\ t.event \in {"train", "test"} /\ t.job \in Job
               /\ t \in hung \/ t \in all[t.event][t.job]
    <3>1. t.event \in {"train", "test"} /\ t.job \in Job
      BY <1>0 DEF TypeOK, RunOf
    <3> QED  BY <1>0, <1>1, <1>4, <3>1 DEF CoverInv
  <2> QED  BY <1>4, <2>1
<1>8. CASE UNCHANGED <<doing, waits>> /\ started' = all
  <2>1. CoverInv'
    BY <1>1, <1>7, <1>8 DEF CoverInv
  <2>2. DoingInv'
    BY <1>1, <1>8, Events DEF DoingInv
  <2>3. (LoopInv <=> DoingInv /\ CoverInv)'
    BY LoopParts, PTL
  <2> QED  BY <2>1, <2>2, <2>3
<1>9. CASE doing' = Taken(j) /\ waits' = all[w][j] /\ started' = [all EXCEPT ![w][j] = {}]
  <2>1. /\ started'[w][j] = {}
        /\ \A k \in {"train", "test"}, i \in Job : k # w \/ i # j => started'[k][i] = all[k][i]
    BY <1>5, <1>9 DEF RunTable
  <2>2. CoverInv'
    <3>1. ASSUME NEW t \in running'
          PROVE  t \in hung \/ t \in started'[t.event][t.job] \/ (t \in waits' /\ t.job = j)
      BY <1>7, <1>9, <2>1
    <3> QED  BY <1>1, <1>6, <1>9, <3>1 DEF CoverInv
  <2>3. e # "train" => Pending(j, Taken(j))
    <3>1. queue[j][1] \in ToSet(queue[j])
      <4>1. queue[j] \in Seq(Queued) /\ 1 \in 1 .. Len(queue[j])
        BY <1>0 DEF TypeOK
      <4> QED  BY <4>1, InSeq
    <3>2. Pending(j, queue[j][1])
      BY <1>0, <3>1 DEF QueueInv
    <3> QED  BY <1>6, <3>2 DEF Pending, e
  <2>4. ASSUME NEW d, d = Taken(j)
        PROVE  state'[d.job] = "known" /\ (d.event # "train" => Pending(d.job, d)')
    <3>1. d.event = e /\ d.job = j
      BY <1>6, <2>4
    <3>2. e # "train" => Pending(j, d)
      BY <2>3, <2>4
    <3> QED  BY <1>1, <1>3, <3>1, <3>2, SamePending
  <2>5. DoingInv'
    BY <1>5, <1>6, <1>9, <2>1, <2>4 DEF DoingInv
  <2>6. (LoopInv <=> DoingInv /\ CoverInv)'
    BY LoopParts, PTL
  <2> QED  BY <2>2, <2>5, <2>6
<1> QED  BY <1>4, <1>8, <1>9

LEMMA LoopStep == ExInv /\ [ExNext]_vars => LoopInv'
<1> SUFFICES ASSUME ExInv, [ExNext]_vars PROVE LoopInv'
  OBVIOUS
<1>0. TypeOK /\ LoopInv
  BY DEF ExInv
<1>1. ASSUME NEW j \in Job, Calls(j) PROVE LoopInv'
  BY <1>1, LoopCall
<1>2. ASSUME NEW t \in running, Merge(t) \/ GiveUp(t) \/ Hang(t) PROVE LoopInv'
  <2>1. /\ UNCHANGED <<round, attempt, ended, closed, state, doing, waits, started>>
        /\ running' \subseteq running /\ hung \subseteq hung'
    BY <1>2 DEF Merge, GiveUp, Hang, stream, streamVars, tasks, loop
  <2> QED  BY <1>0, <2>1, LoopFrame
<1>3. CASE NoTask \/ UNCHANGED vars
  <2>1. UNCHANGED <<round, attempt, ended, closed, state, doing, waits, started, running, hung>>
    BY <1>3 DEF NoTask, vars, stream, streamVars, tasks, loop
  <2> QED  BY <1>0, <2>1, LoopFrame
<1>4. CASE TrainGoes \/ TestEnds \/ AggregateNone \/ FailEnds
  <2>1. doing' = Idle /\ waits' = {} /\ waits \cap running \subseteq hung
        /\ UNCHANGED <<running, started, hung>>
    BY <1>4 DEF TrainGoes, TestEnds, AggregateNone, FailEnds, GoesIdle, Waited
  <2> QED  BY <1>0, <2>1, LoopIdle
<1>5. CASE AggregateEnds
  <2>1. doing' = Idle /\ waits' = {} /\ doing.stage = "update" /\ UNCHANGED <<running, started, hung>>
    BY <1>5 DEF AggregateEnds, GoesIdle
  <2>2. waits = {}
    BY <1>0, <2>1 DEF LoopInv
  <2> QED  BY <1>0, <2>1, <2>2, LoopIdle
<1>6. CASE TestStarts \/ AggregateStarts \/ FinishWaits \/ FinishRemoves \/ RemoveEnds \/ NextTask
  BY <1>6, LoopTestStarts, LoopFurther, LoopRemoves, LoopRemoveEnds, LoopNext
<1> QED  BY <1>1, <1>2, <1>3, <1>4, <1>5, <1>6 DEF ExNext, Loop, Answered

-----------------------------------------------------------------------------
(* SumInv and OwnAttempt.                                                  *)

(* What is summed up, and nothing that runs, is of an attempt that is over *)
(* unless it hangs.                                                        *)
OwnSums == \A j \in Job : \A t \in running \cup weight[j] \cup meta[j] \cup tests[j] :
  Closed(t) => t \in hung

LEMMA OwnParts ==
  ASSUME TypeOK, QueueInv
  PROVE  OwnAttempt <=> OwnSums
<1>1. ASSUME NEW j \in Job, NEW i \in 1 .. Len(queue[j]), queue[j][i].event = "train"
      PROVE  <<"train", j, queue[j][i].round, queue[j][i].attempt>> \notin closed
  <2>1. queue[j][i] \in ToSet(queue[j])
    BY InQueue, InSeq
  <2> QED  BY <1>1, <2>1 DEF QueueInv, Pending
<1> QED  BY <1>1 DEF OwnAttempt, OwnSums

(* Nothing is concluded; what is merged was running.                       *)
LEMMA OwnFrame ==
  ASSUME OwnSums, closed' = closed, hung \subseteq hung',
         \A j \in Job : \A t \in running' \cup weight'[j] \cup meta'[j] \cup tests'[j] :
           t \in running \cup weight[j] \cup meta[j] \cup tests[j] \/ ~ Closed(t)
  PROVE  OwnSums'
  BY DEF OwnSums, Closed

(* The sums change for nothing but one job, whose new ones are right.      *)
SumOK(j) ==
  /\ \A t \in weight[j] \cup meta[j] : t.event = "train" /\ t.job = j
  /\ \A t \in tests[j] : t.event = "test" /\ t.job = j
  /\ Updating(j) => meta[j] \subseteq hung
  /\ ~ Updating(j) => (weight[j] \ meta[j]) \cup (meta[j] \ weight[j]) \subseteq hung

LEMMA SumParts == SumInv <=> \A j \in Job : SumOK(j)
  BY DEF SumInv, SumOK

LEMMA SumFrame ==
  ASSUME NEW j, SumOK(j), weight'[j] = weight[j], meta'[j] = meta[j],
         tests'[j] = tests[j] \/ tests'[j] = {}, hung \subseteq hung', Updating(j) <=> Updating(j)'
  PROVE  SumOK(j)'
  BY DEF SumOK

(* A result is merged: its weights and its count at once.                  *)
LEMMA SumMerge ==
  ASSUME ExInv, NEW t \in running, Merge(t), NEW i \in Job
  PROVE  SumOK(i)'
<1>0. TypeOK /\ LoopInv /\ SumOK(i) /\ t \in RunOf /\ t.job \in Job
  BY SumParts DEF ExInv, TypeOK, RunOf
<1>1. /\ hung' = hung /\ doing' = doing /\ (Updating(i) <=> Updating(i)')
      /\ weight \in [Job -> SUBSET RunOf] /\ meta \in [Job -> SUBSET RunOf]
      /\ tests \in [Job -> SUBSET RunOf]
  BY <1>0 DEF Merge, loop, Updating, TypeOK
<1>2. CASE state[t.job] # "known" \/ i # t.job
  <2>1. weight'[i] = weight[i] /\ meta'[i] = meta[i] /\ tests'[i] = tests[i]
    BY <1>0, <1>1, <1>2 DEF Merge, Merged, sums
  <2> QED  BY <1>0, <1>1, <2>1, SumFrame
<1>3. CASE state[t.job] = "known" /\ i = t.job /\ t.event = "train"
  <2>1. weight'[i] = weight[i] \cup {t} /\ meta'[i] = meta[i] \cup {t} /\ tests'[i] = tests[i]
    BY <1>0, <1>1, <1>3 DEF Merge, Merged
  <2>2. Updating(i) => t \in hung
    BY <1>0, <1>3, Events DEF LoopInv, Updating
  <2> QED  BY <1>0, <1>1, <1>3, <2>1, <2>2 DEF SumOK
<1>4. CASE state[t.job] = "known" /\ i = t.job /\ t.event # "train"
  <2>1. weight'[i] = weight[i] /\ meta'[i] = meta[i] /\ tests'[i] = tests[i] \cup {t}
    BY <1>0, <1>1, <1>4 DEF Merge, Merged
  <2>2. t.event = "test"
    BY <1>0, <1>4 DEF RunOf
  <2> QED  BY <1>0, <1>1, <1>4, <2>1, <2>2 DEF SumOK
<1> QED  BY <1>2, <1>3, <1>4

LEMMA OwnMerge ==
  ASSUME ExInv, NEW t \in running, Merge(t)
  PROVE  OwnSums'
<1>0. TypeOK /\ OwnSums /\ t.job \in Job
  BY OwnParts DEF ExInv, TypeOK, RunOf
<1>1. /\ weight \in [Job -> SUBSET RunOf] /\ meta \in [Job -> SUBSET RunOf]
      /\ tests \in [Job -> SUBSET RunOf]
  BY <1>0 DEF TypeOK
<1>2. closed' = closed /\ hung' = hung /\ running' = running \ {t}
  BY DEF Merge
<1>3. ASSUME NEW j \in Job
      PROVE  /\ weight'[j] \subseteq weight[j] \cup {t} /\ meta'[j] \subseteq meta[j] \cup {t}
             /\ tests'[j] \subseteq tests[j] \cup {t}
  <2>1. CASE state[t.job] # "known"
    BY <2>1 DEF Merge, Merged, sums
  <2>2. CASE state[t.job] = "known" /\ t.event = "train"
    BY <1>0, <1>1, <2>2 DEF Merge, Merged
  <2>3. CASE state[t.job] = "known" /\ t.event # "train"
    BY <1>0, <1>1, <2>3 DEF Merge, Merged
  <2> QED  BY <2>1, <2>2, <2>3
<1> QED  BY <1>0, <1>2, <1>3, OwnFrame

LEMMA SumStep == ExInv /\ [ExNext]_vars => SumInv'
<1> SUFFICES ASSUME ExInv, [ExNext]_vars, NEW j \in Job PROVE SumOK(j)'
  <2>1. (SumInv <=> \A j \in Job : SumOK(j))'
    BY SumParts, PTL
  <2> QED  BY <2>1
<1>0. TypeOK /\ LoopInv /\ SumOK(j)
  BY SumParts DEF ExInv
<1>t. /\ weight \in [Job -> SUBSET RunOf] /\ meta \in [Job -> SUBSET RunOf]
      /\ tests \in [Job -> SUBSET RunOf]
  BY <1>0 DEF TypeOK
<1>1. ASSUME NEW i \in Job, Calls(i) PROVE SumOK(j)'
  <2>1. UNCHANGED <<weight, meta, tests, hung, doing>>
    BY <1>1, CallFrame DEF loop, sums
  <2> QED  BY <1>0, <2>1, SumFrame DEF Updating
<1>2. ASSUME NEW t \in running, Merge(t) PROVE SumOK(j)'
  BY <1>2, SumMerge
<1>3. ASSUME NEW t \in running, GiveUp(t) \/ Hang(t) PROVE SumOK(j)'
  <2>1. UNCHANGED <<weight, meta, tests, doing>> /\ hung \subseteq hung'
    BY <1>3 DEF GiveUp, Hang, loop, sums
  <2> QED  BY <1>0, <2>1, SumFrame DEF Updating
<1>4. CASE UNCHANGED vars \/ NoTask
  <2>1. UNCHANGED <<weight, meta, tests, doing, hung>>
    BY <1>4 DEF NoTask, vars, loop, sums
  <2> QED  BY <1>0, <2>1, SumFrame DEF Updating
<1>5. CASE NextTask
  <2>1. UNCHANGED <<weight, meta, tests, hung>> /\ doing = Idle
    BY <1>0, <1>5, NextIs DEF sums
  <2>2. doing' = Idle \/ doing'.stage = "wait"
    <3>1. \A i, n, run, all : Executed(i, n, run, all) => doing' = doing \/ doing'.stage = "wait"
      BY DEF Executed, Taken
    <3> QED  BY <1>0, <1>5, <2>1, <3>1, NextIs
  <2>3. ~ Updating(j) /\ ~ Updating(j)'
    BY <2>1, <2>2, Events DEF Updating
  <2> QED  BY <1>0, <2>1, <2>3, SumFrame
<1>6. CASE TrainGoes \/ TestStarts \/ AggregateNone
  <2>1. UNCHANGED <<weight, meta, tests, hung>> /\ doing.stage = "wait" /\ doing' = Idle
    BY <1>6 DEF TrainGoes, TestStarts, AggregateNone, Waited, GoesIdle, sums
  <2>2. ~ Updating(j) /\ ~ Updating(j)'
    BY <2>1, Events DEF Updating
  <2> QED  BY <1>0, <2>1, <2>2, SumFrame
<1>7. CASE FinishWaits
  <2>1. UNCHANGED <<weight, meta, tests, hung>> /\ doing.stage = "wait"
        /\ doing' = [doing EXCEPT !.stage = "wait_test"]
    BY <1>7 DEF FinishWaits, WaitFor, Waited, sums
  <2>2. doing \in Doing
    BY <1>0, <2>1, DoingIs
  <2>3. ~ Updating(j) /\ ~ Updating(j)'
    BY <2>1, <2>2 DEF Updating, Doing
  <2> QED  BY <1>0, <2>1, <2>3, SumFrame
<1>8. CASE TestEnds
  <2>1. UNCHANGED <<weight, meta, hung>> /\ doing.stage = "wait" /\ doing' = Idle
        /\ tests' = [tests EXCEPT ![doing.job] = {}]
    BY <1>8 DEF TestEnds, Waited, GoesIdle
  <2>2. ~ Updating(j) /\ ~ Updating(j)'
    BY <2>1, Events DEF Updating
  <2>3. tests'[j] = tests[j] \/ tests'[j] = {}
    BY <1>t, <2>1
  <2> QED  BY <1>0, <2>1, <2>2, <2>3, SumFrame
<1>9. CASE AggregateStarts
  <2>1. UNCHANGED <<weight, tests, hung>> /\ doing.stage = "wait"
        /\ doing' = [doing EXCEPT !.stage = "update"] /\ meta' = [meta EXCEPT ![doing.job] = {}]
    BY <1>9 DEF AggregateStarts, Waited
  <2>2. doing \in Doing
    BY <1>0, <2>1, DoingIs
  <2>3. CASE j = doing.job
    <3>1. meta'[j] = {} /\ Updating(j)'
      BY <1>t, <2>1, <2>2, <2>3 DEF Updating, Doing
    <3> QED  BY <1>0, <2>1, <3>1 DEF SumOK
  <2>4. CASE j # doing.job
    <3>1. meta'[j] = meta[j] /\ ~ Updating(j) /\ ~ Updating(j)'
      BY <1>t, <2>1, <2>2, <2>4 DEF Updating, Doing
    <3> QED  BY <1>0, <2>1, <3>1, SumFrame
  <2> QED  BY <2>3, <2>4
<1>10. CASE AggregateEnds
  <2>1. UNCHANGED <<meta, tests, hung>> /\ doing.stage = "update" /\ doing' = Idle
        /\ weight' = [weight EXCEPT ![doing.job] = {}]
    BY <1>10 DEF AggregateEnds, GoesIdle
  <2>2. ~ Updating(j)'
    BY <2>1, Events DEF Updating
  <2>3. CASE j = doing.job
    <3>1. weight'[j] = {} /\ Updating(j)
      BY <1>t, <2>1, <2>3 DEF Updating
    <3> QED  BY <1>0, <2>1, <2>2, <3>1 DEF SumOK
  <2>4. CASE j # doing.job
    <3>1. weight'[j] = weight[j] /\ ~ Updating(j)
      BY <1>t, <2>1, <2>4 DEF Updating
    <3> QED  BY <1>0, <2>1, <2>2, <3>1, SumFrame
  <2> QED  BY <2>3, <2>4
<1>11. CASE FailEnds \/ FinishRemoves
  <2>1. /\ hung' = hung /\ doing.stage \in {"wait", "wait_test"}
        /\ doing' = Idle \/ doing' = [doing EXCEPT !.stage = "remove"]
        /\ weight' = [weight EXCEPT ![doing.job] = {}]
        /\ meta' = [meta EXCEPT ![doing.job] = {}] /\ tests' = [tests EXCEPT ![doing.job] = {}]
    BY <1>11 DEF FailEnds, FinishRemoves, Drop, Waited, GoesIdle
  <2>2. ~ Updating(j) /\ ~ Updating(j)'
    <3>1. doing \in Doing
      BY <1>0, <2>1, DoingIs
    <3> QED  BY <2>1, <3>1, Events DEF Updating, Doing
  <2>3. CASE j = doing.job
    <3>1. weight'[j] = {} /\ meta'[j] = {} /\ tests'[j] = {}
      BY <1>t, <2>1, <2>3
    <3> QED  BY <2>2, <3>1 DEF SumOK
  <2>4. CASE j # doing.job
    <3>1. weight'[j] = weight[j] /\ meta'[j] = meta[j] /\ tests'[j] = tests[j]
      BY <1>t, <2>1, <2>4
    <3> QED  BY <1>0, <2>1, <2>2, <3>1, SumFrame
  <2> QED  BY <2>3, <2>4
<1>12. CASE RemoveEnds
  <2>1. UNCHANGED <<weight, meta, tests, hung>> /\ doing.stage = "remove" /\ doing' = Idle
    BY <1>12 DEF RemoveEnds, GoesIdle, sums
  <2>2. ~ Updating(j) /\ ~ Updating(j)'
    BY <2>1, Events DEF Updating
  <2> QED  BY <1>0, <2>1, <2>2, SumFrame
<1> QED  BY <1>1, <1>2, <1>3, <1>4, <1>5, <1>6, <1>7, <1>8, <1>9, <1>10, <1>11, <1>12
         DEF ExNext, Loop, Answered

(* An attempt or a test is concluded: what ran for it has ended or hangs,  *)
(* and nothing of it is left in the sums.                                  *)
LEMMA OwnConclude ==
  ASSUME ExInv, NEW e, Conclude(e, doing), doing # Idle, UNCHANGED <<running, hung>>,
         waits \cap running \subseteq hung, started[e][doing.job] = {},
         \A j \in Job : /\ weight'[j] \subseteq weight[j] /\ meta'[j] \subseteq meta[j]
                        /\ tests'[j] \subseteq tests[j],
         \A j \in Job : doing.job = j =>
           /\ e = "train" => weight'[j] \cup meta'[j] \subseteq hung
           /\ e = "test" => tests'[j] = {}
  PROVE  OwnSums'
<1> DEFINE c == <<e, doing.job, doing.round, doing.attempt>>
<1>0. TypeOK /\ LoopInv /\ OwnSums /\ \A j \in Job : SumOK(j)
  BY OwnParts, SumParts DEF ExInv
<1>1. closed' = closed \cup {c}
  BY DEF Conclude
<1>2. ASSUME NEW t, <<t.event, t.job, t.round, t.attempt>> = c
      PROVE  t.event = e /\ t.job = doing.job
  BY <1>2
<1> HIDE DEF c
<1>3. ASSUME NEW j \in Job, NEW t \in running \cup weight'[j] \cup meta'[j] \cup tests'[j], Closed(t)'
      PROVE  t \in hung
  <2>1. CASE Closed(t)
    BY <1>0, <1>3, <2>1 DEF OwnSums
  <2>2. CASE ~ Closed(t)
    <3>1. t.event = e /\ t.job = doing.job
      BY <1>1, <1>2, <1>3, <2>2 DEF Closed
    <3>2. CASE t \in running
      BY <1>0, <3>1, <3>2 DEF LoopInv
    <3>3. CASE t \in weight'[j] \cup meta'[j]
      BY <1>0, <3>1, <3>3 DEF SumOK
    <3>4. CASE t \in tests'[j]
      BY <1>0, <3>1, <3>4 DEF SumOK
    <3> QED  BY <1>3, <3>2, <3>3, <3>4
  <2> QED  BY <2>1, <2>2
<1> QED  BY <1>3 DEF OwnSums

LEMMA OwnStep == ExInv /\ [ExNext]_vars => OwnAttempt'
<1> SUFFICES ASSUME ExInv, [ExNext]_vars PROVE OwnSums'
  <2>1. (TypeOK /\ QueueInv => (OwnAttempt <=> OwnSums))'
    BY OwnParts, PTL
  <2> QED  BY <2>1, TypeStep, QueueStep
<1>0. TypeOK /\ QueueInv /\ LoopInv /\ OwnSums /\ \A j \in Job : SumOK(j)
  BY OwnParts, SumParts DEF ExInv
<1>t. /\ weight \in [Job -> SUBSET RunOf] /\ meta \in [Job -> SUBSET RunOf]
      /\ tests \in [Job -> SUBSET RunOf]
  BY <1>0 DEF TypeOK
<1>1. ASSUME NEW i \in Job, Calls(i) PROVE OwnSums'
  <2>1. UNCHANGED <<weight, meta, tests, hung, running, closed>>
    BY <1>1, CallFrame DEF sums
  <2> QED  BY <1>0, <2>1, OwnFrame
<1>2. ASSUME NEW t \in running, Merge(t) PROVE OwnSums'
  BY <1>2, OwnMerge
<1>3. ASSUME NEW t \in running, GiveUp(t) \/ Hang(t) PROVE OwnSums'
  <2>1. UNCHANGED <<weight, meta, tests, closed>> /\ hung \subseteq hung' /\ running' \subseteq running
    BY <1>3 DEF GiveUp, Hang, sums
  <2> QED  BY <1>0, <2>1, OwnFrame
<1>4. CASE UNCHANGED vars \/ NoTask \/ TrainGoes \/ FinishWaits \/ RemoveEnds
  <2>1. UNCHANGED <<weight, meta, tests, hung, running, closed>>
    BY <1>4 DEF NoTask, TrainGoes, FinishWaits, RemoveEnds, Waited, vars, sums
  <2> QED  BY <1>0, <2>1, OwnFrame
<1>5. CASE NextTask
  <2>1. UNCHANGED <<weight, meta, tests, hung, closed>>
    BY <1>0, <1>5, NextIs DEF sums
  <2>2. PICK j \in Job : \E n \in 1 .. Len(queue[j]), run \in RunOf, all \in RunTable :
                state[j] = "known" /\ queue[j] # <<>> /\ Executed(j, n, run, all)
    BY <1>0, <1>5, NextIs
  <2>3. PICK n \in 1 .. Len(queue[j]), run \in RunOf, all \in RunTable : Executed(j, n, run, all)
    BY <2>2
  <2>4. /\ run.event = "train" /\ run.job = j /\ run.round = queue[j][1].round
        /\ run.attempt = queue[j][1].attempt
        /\ queue[j][1].event = "train" => running' = running \cup {run}
        /\ queue[j][1].event # "train" => running' = running
    BY <2>3 DEF Executed
  <2>5. queue[j][1].event = "train" => ~ Closed(run)
    <3>1. queue[j] \in Seq(Queued) /\ 1 \in 1 .. Len(queue[j])
      BY <1>0, <2>3 DEF TypeOK
    <3>2. queue[j][1] \in ToSet(queue[j])
      BY <3>1, InSeq
    <3>3. Pending(j, queue[j][1])
      BY <1>0, <3>2 DEF QueueInv
    <3> QED  BY <2>4, <3>3 DEF Pending, Closed
  <2> QED  BY <1>0, <2>1, <2>4, <2>5, OwnFrame
<1>6. CASE TestStarts
  <2> DEFINE runs == {Run(doing.job, "test", doing.round, doing.attempt, {p}) : p \in Part}
  <2>1. UNCHANGED <<weight, meta, tests, hung, closed>> /\ running' = running \cup runs
        /\ doing.stage # "idle" /\ doing.event = "test"
    BY <1>6 DEF TestStarts, Waited, sums
  <2>2. Pending(doing.job, doing)
    BY <1>0, <2>1, DoingIs DEF LoopInv
  <2>3. \A t \in runs : ~ Closed(t)
    BY <2>1, <2>2 DEF Run, Closed, Pending, Testing
  <2> HIDE DEF runs
  <2> QED  BY <1>0, <2>1, <2>3, OwnFrame
<1>7. CASE AggregateStarts
  <2>1. UNCHANGED <<weight, tests, hung, closed, running>>
        /\ meta' = [meta EXCEPT ![doing.job] = {}]
    BY <1>7 DEF AggregateStarts, Waited
  <2>2. \A j \in Job : meta'[j] \subseteq meta[j]
    BY <1>t, <2>1
  <2> QED  BY <1>0, <2>1, <2>2, OwnFrame
<1>8. CASE FinishRemoves
  <2>1. UNCHANGED <<hung, closed, running>>
        /\ weight' = [weight EXCEPT ![doing.job] = {}]
        /\ meta' = [meta EXCEPT ![doing.job] = {}] /\ tests' = [tests EXCEPT ![doing.job] = {}]
    BY <1>8 DEF FinishRemoves, Waited, Drop
  <2>2. \A j \in Job : /\ weight'[j] \subseteq weight[j] /\ meta'[j] \subseteq meta[j]
                       /\ tests'[j] \subseteq tests[j]
    BY <1>t, <2>1
  <2> QED  BY <1>0, <2>1, <2>2, OwnFrame
<1>9. CASE TestEnds
  <2>1. /\ doing.stage # "idle" /\ doing.event = "agg_test" /\ Conclude("test", doing)
        /\ waits \cap running \subseteq hung /\ UNCHANGED <<running, hung, weight, meta>>
        /\ tests' = [tests EXCEPT ![doing.job] = {}]
    BY <1>9 DEF TestEnds, Waited
  <2>2. doing # Idle /\ started["test"][doing.job] = {}
    BY <1>0, <2>1, DoingIs DEF LoopInv
  <2>3. \A j \in Job : tests'[j] \subseteq tests[j] /\ (doing.job = j => tests'[j] = {})
    BY <1>t, <2>1
  <2> QED  BY <2>1, <2>2, <2>3, OwnConclude
<1>10. CASE AggregateEnds
  <2>1. /\ doing.stage = "update" /\ Conclude("train", doing)
        /\ UNCHANGED <<running, hung, meta, tests>>
        /\ weight' = [weight EXCEPT ![doing.job] = {}]
    BY <1>10 DEF AggregateEnds
  <2>2. doing # Idle /\ started["train"][doing.job] = {} /\ waits = {}
    BY <1>0, <2>1, Events DEF LoopInv
  <2>3. \A j \in Job : weight'[j] \subseteq weight[j] /\ (doing.job = j => weight'[j] = {})
    BY <1>t, <2>1
  <2>4. \A j \in Job : doing.job = j => meta[j] \subseteq hung
    BY <1>0, <2>1 DEF SumOK, Updating
  <2> QED  BY <2>1, <2>2, <2>3, <2>4, OwnConclude
<1>11. CASE AggregateNone
  <2>1. /\ doing.stage = "wait" /\ doing.event = "aggregate" /\ Conclude("train", doing)
        /\ waits \cap running \subseteq hung /\ UNCHANGED <<running, hung, weight, meta, tests>>
        /\ weight[doing.job] = {}
    BY <1>11 DEF AggregateNone, Waited, sums
  <2>2. doing # Idle /\ started["train"][doing.job] = {}
    BY <1>0, <2>1, Events DEF LoopInv
  <2>3. \A j \in Job : doing.job = j => weight[j] \cup meta[j] \subseteq hung
    BY <1>0, <2>1 DEF SumOK, Updating
  <2> QED  BY <2>1, <2>2, <2>3, OwnConclude
<1>12. CASE FailEnds
  <2>1. /\ doing.stage = "wait" /\ doing.event = "fail" /\ Conclude("train", doing)
        /\ waits \cap running \subseteq hung /\ UNCHANGED <<running, hung>>
        /\ weight' = [weight EXCEPT ![doing.job] = {}]
        /\ meta' = [meta EXCEPT ![doing.job] = {}] /\ tests' = [tests EXCEPT ![doing.job] = {}]
    BY <1>12 DEF FailEnds, Waited, Drop
  <2>2. doing # Idle /\ started["train"][doing.job] = {}
    BY <1>0, <2>1, Events DEF LoopInv
  <2>3. \A j \in Job : /\ weight'[j] \subseteq weight[j] /\ meta'[j] \subseteq meta[j]
                       /\ tests'[j] \subseteq tests[j]
                       /\ doing.job = j => weight'[j] = {} /\ meta'[j] = {}
    BY <1>t, <2>1
  <2> QED  BY <2>1, <2>2, <2>3, OwnConclude
<1> QED  BY <1>1, <1>2, <1>3, <1>4, <1>5, <1>6, <1>7, <1>8, <1>9, <1>10, <1>11, <1>12
         DEF ExNext, Loop, Answered

-----------------------------------------------------------------------------
(* The theorems.                                                           *)

LEMMA InvInit == ExInit => ExInv
<1> SUFFICES ASSUME ExInit PROVE ExInv
  OBVIOUS
<1>1. TypeOK
  BY TypeInit
<1>2. /\ pool = <<>> /\ queue = [j \in Job |-> <<>>] /\ doing = Idle /\ waits = {}
      /\ running = {} /\ weight = [j \in Job |-> {}] /\ meta = [j \in Job |-> {}]
      /\ tests = [j \in Job |-> {}] /\ closed = {}
  BY DEF ExInit
<1>3. QueueInv
  <2>1. \A j \in Job : ToSet(queue[j]) = {} /\ Chain(queue[j])
    BY <1>2 DEF ToSet, Chain
  <2> QED  BY <1>2, <2>1 DEF QueueInv
<1>4. LoopInv
  BY <1>2, Events DEF LoopInv
<1>5. SumInv
  BY <1>2 DEF SumInv
<1>6. OwnAttempt
  BY <1>2 DEF OwnAttempt
<1> QED  BY <1>1, <1>3, <1>4, <1>5, <1>6 DEF ExInv

(* For all jobs, queues and hanging tasks, the executor keeps the order of *)
(* what concludes an attempt and waits for all that runs for it            *)
(* (executor.py, execute and its handlers, with task_pool.py and           *)
(* worker_manager.py).                                                     *)
THEOREM ExecutorInvariant == ExSpec => []ExInv
<1>1. ExInv /\ [ExNext]_vars => ExInv'
  BY TypeStep, QueueStep, LoopStep, SumStep, OwnStep DEF ExInv
<1> QED  BY InvInit, <1>1, PTL DEF ExSpec

(* The lists of jobs and tasks hold what the code puts there, and a job    *)
(* that is not known has no tasks and no sums (task_pool.py).              *)
THEOREM ExecutorTypes == ExSpec => []TypeOK
<1>1. ExInv => TypeOK
  BY DEF ExInv
<1> QED  BY ExecutorInvariant, <1>1, PTL

(* No result of an attempt that was aggregated or failed is merged, is     *)
(* left or still runs, but for one that outlasts the wait.                 *)
THEOREM MergesOwnAttempt == ExSpec => []OwnAttempt
<1>1. ExInv => OwnAttempt
  BY DEF ExInv
<1> QED  BY ExecutorInvariant, <1>1, PTL

(* The sum of the weights is divided by the count of those in it, unless a *)
(* result came after its wait.                                             *)
THEOREM DividesByItsCount == ExSpec => []WeightMatchesMeta
<1>1. ASSUME ExInv, NEW j \in Job, weight[j] # meta[j], ~ Updating(j)
      PROVE  \E t \in hung : t.job = j
  <2>1. /\ weight[j] \subseteq RunOf /\ meta[j] \subseteq RunOf
        /\ (weight[j] \ meta[j]) \cup (meta[j] \ weight[j]) \subseteq hung
        /\ \A t \in weight[j] \cup meta[j] : t.job = j
    BY <1>1 DEF ExInv, SumInv, TypeOK
  <2>2. PICK t \in (weight[j] \ meta[j]) \cup (meta[j] \ weight[j]) : TRUE
    BY <1>1
  <2> QED  BY <2>1, <2>2
<1>2. ExInv => WeightMatchesMeta
  BY <1>1 DEF WeightMatchesMeta
<1> QED  BY ExecutorInvariant, <1>2, PTL
=============================================================================
