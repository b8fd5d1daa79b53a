------------------------------ MODULE Executor ------------------------------
(***************************************************************************)
(* The executor, which does the training that the clients of evaluation    *)
(* jobs only pretend to do.  It takes the tasks of each job's TaskStream   *)
(* from a queue, runs train and test tasks concurrently at its workers and *)
(* merges their results, and waits for them where the next task needs      *)
(* them: before it aggregates, before it drops a failed attempt.           *)
(*                                                                         *)
(* Atomicity.  Everything runs in one event loop.  The loop of execute()   *)
(* gives way where it waits for asynchronous tasks and while it tells all  *)
(* workers of new weights (UPDATE) or of a job that leaves (REMOVE); an    *)
(* asynchronous task gives way until it has its result, which it merges in *)
(* one piece.  The waits have a time limit, the two broadcasts have none.  *)
(*                                                                         *)
(* A result is told apart by the job, round and attempt it is for and by   *)
(* whose it is, not by its weights.                                        *)
(***************************************************************************)
EXTENDS TaskStream, SequencesExt

CONSTANTS
  Part,           \* the parts a test is divided into, one per worker
  Batch,          \* train tasks that are run together
  TurnLimit,      \* tasks of one job that are taken in a row
  TaskLimit,      \* train tasks of a job before it waits for them
  EvalInterval,   \* rounds between tests
  MaxAttempt,     \* bound: failed attempts at a round
  MaxHung         \* bound: tasks that hang

ASSUME ExecutorAssumption ==
  /\ Batch \in Nat \ {0} /\ TurnLimit \in Nat \ {0} /\ TaskLimit \in Nat \ {0}
  /\ EvalInterval \in Nat \ {0} /\ MaxAttempt \in Nat /\ MaxHung \in Nat

VARIABLES
  attempt,   \* history: job -> number of the attempt at its round
  state,     \* job -> not registered yet, known or removed
  pool,      \* job_meta_list: the jobs in the order they are served
  queue,     \* job_task_dict: job -> its tasks
  turns,     \* select_time
  doing,     \* the task the loop executes, and how far it is
  waits,     \* asynchronous tasks it waits for
  running,   \* asynchronous tasks without a result
  started,   \* job_train_task_dict, job_test_task_dict: event -> job -> tasks
  weight,    \* job_id_agg_weight_map: job -> train tasks it is the sum of
  meta,      \* job_id_agg_meta: job -> train tasks it counts
  tests,     \* job_id_agg_test_map: job -> test tasks it is the sum of
  hung,      \* tasks that outlast the time limit of a wait
  closed     \* history: <<event, job, round, attempt>> that were concluded

stream == <<streamVars, attempt>>
tasks  == <<state, pool, queue>>
loop   == <<turns, doing, waits>>
sums   == <<weight, meta, tests>>
vars   == <<stream, tasks, loop, running, started, sums, hung, closed>>

Task(event, r, a, c) == [event |-> event, round |-> r, attempt |-> a, who |-> c]
None == "none"
Idle == [job |-> None, event |-> "idle", round |-> 0, attempt |-> 0, stage |-> "idle"]

(* A task in the queue, one the loop executes and one that runs.           *)
Number == Nat \cup {-1}
Queued == [event : {"train", "aggregate", "fail", "test", "agg_test", "finish"},
           round : Nat, attempt : Number, who : Client \cup {None}]
Doing  == [job : Job, event : {"train", "aggregate", "fail", "test", "agg_test", "finish"},
           round : Nat, attempt : Number, stage : {"wait", "wait_test", "update", "remove"}]
RunOf  == [event : {"train", "test"}, job : Job, round : Nat, attempt : Number,
           who : SUBSET (Client \cup {None} \cup Part)]

TypeOK ==
  /\ StreamTypeOK
  /\ attempt \in [Job -> Nat]
  /\ state \in [Job -> {"new", "known", "removed"}]
  /\ pool \in Seq(Job)
  /\ queue \in [Job -> Seq(Queued)]
  /\ turns \in 0 .. TurnLimit
  /\ doing \in Doing \cup {Idle}
  /\ running \cup waits \subseteq RunOf
  /\ started \in [{"train", "test"} -> [Job -> SUBSET RunOf]]
  /\ {weight, meta, tests} \subseteq [Job -> SUBSET RunOf]
  /\ closed \subseteq {"train", "test"} \X Job \X Nat \X Number
  /\ \A j \in Job : state[j] = "known" <=> \E i \in 1 .. Len(pool) : pool[i] = j
  /\ \A j \in Job : state[j] # "known" => queue[j] = <<>> /\ weight[j] = {} /\ tests[j] = {}

ExInit ==
  /\ Init
  /\ attempt = [j \in Job |-> 0] /\ state = [j \in Job |-> "new"]
  /\ pool = <<>> /\ queue = [j \in Job |-> <<>>]
  /\ turns = 0 /\ doing = Idle /\ waits = {} /\ running = {}
  /\ started = [e \in {"train", "test"} |-> [j \in Job |-> {}]]
  /\ weight = [j \in Job |-> {}] /\ meta = [j \in Job |-> {}] /\ tests = [j \in Job |-> {}]
  /\ hung = {} /\ closed = {}

-----------------------------------------------------------------------------
(* Calls of the parameter servers.                                         *)

TestOf(r, a) == <<Task("test", r, a, None), Task("agg_test", r, a, None)>>

(* JOB_REGISTER: the model is tested before any training.                  *)
Register(j) ==
  /\ state[j] = "new"
  /\ state' = [state EXCEPT ![j] = "known"]
  /\ pool' = Append(pool, j)
  /\ queue' = [queue EXCEPT ![j] = TestOf(0, 0)]
  /\ UNCHANGED <<stream, loop, running, started, sums, hung, closed>>

(* JOB_REGISTER_TASK with the tasks that insert_job_task makes of it.      *)
Insert(j, new) ==
  /\ state[j] = "known"
  /\ queue' = [queue EXCEPT ![j] = @ \o new]
  /\ UNCHANGED <<state, pool, loop, running, started, sums, hung, closed>>

RegisterTrain(j, c) ==
  /\ Train(j, c)
  /\ Insert(j, <<Task("train", round[j], attempt[j], c)>>)
  /\ UNCHANGED attempt

RegisterLost(j) ==
  /\ state[j] = "known" /\ TrainLost(j)
  /\ UNCHANGED <<attempt, tasks, loop, running, started, sums, hung, closed>>

RegisterAggregate(j) ==
  /\ Aggregate(j)
  /\ Insert(j, <<Task("aggregate", round[j], attempt[j], None)>>
               \o IF round[j] % EvalInterval = 0 THEN TestOf(round[j], attempt[j]) ELSE <<>>)
  /\ attempt' = [attempt EXCEPT ![j] = 0]

(* _pop_failed_task: the tail of the queue that trains for this round.     *)
Trained(j, r) ==
  LET n == Len(queue[j])
      trains(i) == queue[j][i].event = "train" /\ queue[j][i].round = r
      kept == {i \in 0 .. n : \A x \in i + 1 .. n : trains(x)}
  IN  SubSeq(queue[j], 1, CHOOSE i \in kept : \A x \in kept : i <= x)

RegisterFail(j) ==
  /\ RoundFail(j) /\ state[j] = "known"
  /\ attempt[j] < MaxAttempt
  /\ attempt' = [attempt EXCEPT ![j] = @ + 1]
  /\ queue' = [queue EXCEPT ![j] =
                 Append(Trained(j, round[j]), Task("fail", round[j], attempt[j], None))]
  /\ UNCHANGED <<state, pool, loop, running, started, sums, hung, closed>>

RegisterFinish(j) ==
  LET r == IF round[j] <= Rounds[j] THEN round[j] ELSE Rounds[j] IN
  /\ Finish(j)
  /\ Insert(j, Append(TestOf(r, -1), Task("finish", r, -1, None)))
  /\ UNCHANGED attempt

-----------------------------------------------------------------------------
(* get_next_task.                                                          *)

Rotated(k) == SubSeq(pool, k + 1, Len(pool)) \o SubSeq(pool, 1, k)

Ready(k) == queue[pool[k + 1]] # <<>> /\ (k = 0 => turns < TurnLimit)

(* The tasks that are taken together: a train task takes those with it     *)
(* that follow for the same round.                                         *)
BatchOf(q) ==
  LET same(i) == q[i].event = q[1].event /\ q[i].round = q[1].round
      sizes == {n \in 1 .. Len(q) : n <= Batch /\ \A i \in 1 .. n : same(i)}
  IN  IF q[1].event # "train" THEN 1
      ELSE CHOOSE n \in sizes : \A m \in sizes : m <= n

Run(j, event, r, a, who) ==
  [event |-> event, job |-> j, round |-> r, attempt |-> a, who |-> who]

Waiting(event) == IF event = "agg_test" THEN "test" ELSE "train"

(* wait_for_training_task, wait_for_testing_task: the list is taken.       *)
WaitFor(t, kind, stage, all) ==
  /\ doing' = [t EXCEPT !.stage = stage]
  /\ waits' = all[kind][t.job]
  /\ started' = [all EXCEPT ![kind][t.job] = {}]

Execute(j, q) ==
  LET n == BatchOf(q)
      t == [job |-> j, event |-> q[1].event, round |-> q[1].round,
            attempt |-> q[1].attempt, stage |-> "idle"]
      run == Run(j, "train", t.round, t.attempt, {q[i].who : i \in 1 .. n})
      all == IF t.event = "train"
             THEN [started EXCEPT !["train"][j] = @ \cup {run}] ELSE started
  IN
  /\ queue' = [queue EXCEPT ![j] = SubSeq(q, n + 1, Len(q))]
  /\ running' = IF t.event = "train" THEN running \cup {run} ELSE running
  /\ IF t.event = "train" /\ Cardinality(all.train[j]) < TaskLimit
     THEN started' = all /\ UNCHANGED <<doing, waits>>
     ELSE WaitFor(t, Waiting(t.event), "wait", all)

NextTask ==
  /\ doing = Idle
  /\ \E k \in 0 .. Len(pool) - 1 :
       /\ Ready(k) /\ \A i \in 0 .. k - 1 : ~Ready(i)
       /\ pool' = Rotated(k)
       /\ turns' = IF k = 0 THEN turns + 1 ELSE 1
       /\ Execute(pool[k + 1], queue[pool[k + 1]])
  /\ UNCHANGED <<stream, state, sums, hung, closed>>

(* Nothing to do but for the job that has had its turns: it gets new ones. *)
NoTask ==
  /\ doing = Idle /\ pool # <<>>
  /\ \A k \in 0 .. Len(pool) - 1 : ~Ready(k)
  /\ turns # 0 /\ turns' = 0
  /\ UNCHANGED <<stream, tasks, doing, waits, running, started, sums, hung, closed>>

-----------------------------------------------------------------------------
(* A wait is over.                                                         *)

(* Mutant: it has no time limit.                                           *)
WaitedForAll == waits \cap running = {} /\ UNCHANGED hung

(* All tasks have ended, or the time limit has passed and those that hang  *)
(* are not waited for any more.  They may go on.                           *)
Waited == waits \cap running \subseteq hung /\ UNCHANGED hung

GoesIdle == doing' = Idle /\ waits' = {}

Conclude(event, t) == closed' = closed \cup {<<event, t.job, t.round, t.attempt>>}

(* The loop may start more train tasks.                                    *)
TrainGoes ==
  /\ doing.stage = "wait" /\ doing.event = "train"
  /\ Waited /\ GoesIdle
  /\ UNCHANGED <<stream, tasks, turns, running, started, sums, closed>>

TestStarts ==
  LET runs == {Run(doing.job, "test", doing.round, doing.attempt, {p}) : p \in Part} IN
  /\ doing.stage = "wait" /\ doing.event = "test"
  /\ Waited /\ GoesIdle
  /\ running' = running \cup runs
  /\ started' = [started EXCEPT !["test"][doing.job] = @ \cup runs]
  /\ UNCHANGED <<stream, tasks, turns, sums, closed>>

TestEnds ==
  /\ doing.stage = "wait" /\ doing.event = "agg_test"
  /\ Waited /\ GoesIdle
  /\ tests' = [tests EXCEPT ![doing.job] = {}]
  /\ Conclude("test", doing)
  /\ UNCHANGED <<stream, tasks, turns, running, started, weight, meta>>

(* AGGREGATE: the count is reset at once, the weights when all workers     *)
(* have the new ones.  Without a result there is nothing to do.            *)
AggregateStarts ==
  /\ doing.stage = "wait" /\ doing.event = "aggregate" /\ weight[doing.job] # {}
  /\ Waited
  /\ meta' = [meta EXCEPT ![doing.job] = {}]
  /\ doing' = [doing EXCEPT !.stage = "update"] /\ waits' = {}
  /\ UNCHANGED <<stream, tasks, turns, running, started, weight, tests, closed>>

(* All workers have answered, or failed, which is only logged.             *)
AggregateEnds ==
  /\ doing.stage = "update"
  /\ weight' = [weight EXCEPT ![doing.job] = {}]
  /\ Conclude("train", doing)
  /\ GoesIdle
  /\ UNCHANGED <<stream, tasks, turns, running, started, meta, tests, hung>>

AggregateNone ==
  /\ doing.stage = "wait" /\ doing.event = "aggregate" /\ weight[doing.job] = {}
  /\ Waited /\ GoesIdle
  /\ Conclude("train", doing)
  /\ UNCHANGED <<stream, tasks, turns, running, started, sums>>

(* Mutants: the count of a failed attempt stays, or nothing is dropped.    *)
DropWeight(j) ==
  /\ weight' = [weight EXCEPT ![j] = {}]
  /\ tests' = [tests EXCEPT ![j] = {}]
  /\ UNCHANGED meta
DropTests(j) ==
  /\ tests' = [tests EXCEPT ![j] = {}]
  /\ UNCHANGED <<weight, meta>>

(* ROUND_FAIL: what was merged is dropped.                                 *)
Drop(j) ==
  /\ weight' = [weight EXCEPT ![j] = {}]
  /\ meta' = [meta EXCEPT ![j] = {}]
  /\ tests' = [tests EXCEPT ![j] = {}]

FailEnds ==
  /\ doing.stage = "wait" /\ doing.event = "fail"
  /\ Waited /\ GoesIdle
  /\ Drop(doing.job)
  /\ Conclude("train", doing)
  /\ UNCHANGED <<stream, tasks, turns, running, started>>

(* JOB_FINISH waits for the tests too.                                     *)
FinishWaits ==
  /\ doing.stage = "wait" /\ doing.event = "finish"
  /\ Waited
  /\ WaitFor(doing, "test", "wait_test", started)
  /\ UNCHANGED <<stream, tasks, turns, running, sums, closed>>

(* Mutant: the job stays in the list.                                      *)
PoolWith(j) == pool

PoolWithout(j) == RemoveFirst(pool, j)

(* remove_job, of the task pool and of the worker manager, up to its calls *)
(* of the workers.                                                         *)
FinishRemoves ==
  LET j == doing.job IN
  /\ doing.stage = "wait_test"
  /\ Waited
  /\ doing' = [doing EXCEPT !.stage = "remove"] /\ waits' = {}
  /\ pool' = PoolWithout(j)
  /\ queue' = [queue EXCEPT ![j] = <<>>]
  /\ state' = [state EXCEPT ![j] = "removed"]
  /\ Drop(j)
  /\ UNCHANGED <<stream, turns, running, started, closed>>

(* All workers have answered and the task lists go too.  A worker that     *)
(* fails raises, which is logged, and the lists stay.                      *)
RemoveEnds ==
  LET without == [e \in {"train", "test"} |-> [started[e] EXCEPT ![doing.job] = {}]] IN
  /\ doing.stage = "remove"
  /\ started' \in {started, without}
  /\ GoesIdle
  /\ UNCHANGED <<stream, tasks, turns, running, sums, hung, closed>>

-----------------------------------------------------------------------------
(* An asynchronous task has its result and merges it, unless the job has   *)
(* been removed.                                                           *)
Merged(t) ==
  LET j == t.job IN
  IF state[j] # "known" THEN UNCHANGED sums
  ELSE IF t.event = "train"
       THEN /\ weight' = [weight EXCEPT ![j] = @ \cup {t}]
            /\ meta' = [meta EXCEPT ![j] = @ \cup {t}]
            /\ UNCHANGED tests
       ELSE tests' = [tests EXCEPT ![j] = @ \cup {t}] /\ UNCHANGED <<weight, meta>>

Merge(t) ==
  /\ running' = running \ {t}
  /\ Merged(t)
  /\ UNCHANGED <<stream, tasks, loop, started, hung, closed>>

(* It gives up after thirty pings, or its worker fails.                    *)
GiveUp(t) ==
  /\ running' = running \ {t}
  /\ UNCHANGED <<stream, tasks, loop, started, sums, hung, closed>>

-----------------------------------------------------------------------------
(* A call of its worker, which has no deadline, does not return in time.   *)
Hang(t) ==
  /\ Cardinality(hung) < MaxHung
  /\ hung' = hung \cup {t}
  /\ UNCHANGED <<stream, tasks, loop, running, started, sums, closed>>

Calls(j) == \/ Register(j) \/ \E c \in Client : RegisterTrain(j, c)
            \/ RegisterLost(j) \/ RegisterAggregate(j) \/ RegisterFail(j) \/ RegisterFinish(j)

(* What the loop does by itself, and what takes an answer of every worker. *)
Loop == \/ NextTask \/ NoTask \/ TrainGoes \/ TestStarts \/ TestEnds \/ AggregateStarts
        \/ AggregateNone \/ FailEnds \/ FinishWaits \/ FinishRemoves

Answered == AggregateEnds \/ RemoveEnds

ExNext == \/ \E j \in Job : Calls(j)
          \/ \E t \in running : Merge(t) \/ GiveUp(t)
          \/ \E t \in running \ hung : Hang(t)
          \/ Loop \/ Answered

ExSpec == ExInit /\ [][ExNext]_vars

(* The loop goes on, and a task that does not hang gives up long before a  *)
(* wait for it has lasted an hour.  Nothing makes a worker answer UPDATE   *)
(* or REMOVE, so Answered is not fair.  Parameter servers may stop any     *)
(* time.                                                                   *)
Fairness ==
  /\ WF_vars(Loop)
  /\ WF_vars(\E t \in running \ hung : Merge(t) \/ GiveUp(t))

ExFairSpec == ExSpec /\ Fairness

-----------------------------------------------------------------------------
(* What is merged belongs to the attempt that is open: when a round has    *)
(* been aggregated or has failed, none of its results is left, none is     *)
(* running and none will be, but for one that outlasts a wait (worker      *)
(* manager and wait_for_training_task).                                    *)
Closed(t) == <<t.event, t.job, t.round, t.attempt>> \in closed

OwnAttempt == \A j \in Job :
  /\ \A t \in running \cup weight[j] \cup meta[j] \cup tests[j] : Closed(t) => t \in hung
  /\ \A i \in 1 .. Len(queue[j]) : LET q == queue[j][i] IN
       q.event = "train" => <<"train", j, q.round, q.attempt>> \notin closed

(* New weights are on their way to the workers.                            *)
Updating(j) == doing.stage = "update" /\ doing.job = j

(* The sum of the weights is divided by the count of those in it, unless a *)
(* late result slipped in between (AGGREGATE and ROUND_FAIL).              *)
WeightMatchesMeta == \A j \in Job :
  weight[j] # meta[j] => Updating(j) \/ \E t \in hung : t.job = j

(* Why results stay apart.  What concludes an attempt, or tests the model  *)
(* of a round, comes after what it is about and is never registered twice: *)
(* in the queue, when the loop executes it, and when it is concluded.  A   *)
(* task that runs is in the list that the task which concludes its attempt *)
(* waits for, is waited for, or hangs.  It is inductive.                   *)
Concluding == {"aggregate", "fail"}
Testing    == {"test", "agg_test"}

SameKey(t, u) == t.round = u.round /\ t.attempt = u.attempt

(* The attempt of job j is over, and the test of its round is ordered.     *)
Over(j, r, a) == r < round[j] \/ (r = round[j] /\ a < attempt[j])
Ordered(j, r, a) == (a = -1 /\ ended[j]) \/ (a # -1 /\ r < round[j])

(* Task u of job j may follow t.                                           *)
Follows(t, u) ==
  /\ t.event \in Concluding /\ u.event = "train" => ~SameKey(t, u)
  /\ t.event = "agg_test" /\ u.event \in Testing => ~SameKey(t, u)

Chain(q) == \A k \in 1 .. Len(q) : \A i \in 1 .. k - 1 : Follows(q[i], q[k])

(* Task t of job j is of an attempt, or a test, that is not concluded.     *)
Pending(j, t) ==
  /\ t.event = "train" => <<"train", j, t.round, t.attempt>> \notin closed
  /\ t.event \in Concluding => Over(j, t.round, t.attempt)
  /\ t.event \in Testing => /\ Ordered(j, t.round, t.attempt)
                            /\ <<"test", j, t.round, t.attempt>> \notin closed

QueueInv ==
  /\ \A i, k \in 1 .. Len(pool) : pool[i] = pool[k] => i = k
  /\ \A x \in closed :
       /\ state[x[2]] # "new"
       /\ x[1] = "train" => Over(x[2], x[3], x[4])
       /\ x[1] = "test" => Ordered(x[2], x[3], x[4])
  /\ \A j \in Job : \A t \in ToSet(queue[j]) :
       Pending(j, t) /\ (doing.job = j => Follows(doing, t))
  /\ \A j \in Job : Chain(queue[j])

LoopInv ==
  /\ \A d \in {doing} \ {Idle} :
       /\ state[d.job] = IF d.stage = "remove" THEN "removed" ELSE "known"
       /\ d.event # "train" => Pending(d.job, d)
  /\ doing.stage = "update" => doing.event = "aggregate" /\ waits = {}
  /\ doing.stage = "remove" => waits = {}
  /\ doing.stage \in {"wait_test", "remove"} => doing.event = "finish"
  /\ doing # Idle /\ doing.event # "agg_test" => started["train"][doing.job] = {}
  /\ doing.event = "agg_test" \/ doing.stage \in {"wait_test", "remove"} =>
       started["test"][doing.job] = {}
  /\ \A t \in running : \/ t \in hung \/ t \in started[t.event][t.job]
                        \/ t \in waits /\ doing # Idle /\ doing.job = t.job

SumInv == \A j \in Job :
  /\ \A t \in weight[j] \cup meta[j] : t.event = "train" /\ t.job = j
  /\ \A t \in tests[j] : t.event = "test" /\ t.job = j
  /\ Updating(j) => meta[j] \subseteq hung
  /\ ~Updating(j) => (weight[j] \ meta[j]) \cup (meta[j] \ weight[j]) \subseteq hung

ExInv == TypeOK /\ QueueInv /\ LoopInv /\ SumInv /\ OwnAttempt

(* A job whose end is registered leaves, even if tasks hang at the workers *)
(* and other jobs go on, as long as every broadcast of the loop is over at *)
(* some time: a worker that never answers UPDATE or REMOVE keeps the job,  *)
(* and every other one (execute).                                          *)
Broadcasting == doing.stage \in {"update", "remove"}

JobsLeave == []<>~Broadcasting => \A j \in Job : ended[j] ~> state[j] = "removed"
=============================================================================
