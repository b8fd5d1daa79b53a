# Propius in TLA+

Propius is a resource manager for federated learning. Jobs register, ask for a
number of clients per round, and fetch and publish parameters; clients check in,
are bound to a job, train and push results. This directory holds the TLA+
specification of its protocols, the TLC configurations that check them on small
instances, and TLAPS proofs about them.

Paths below are relative to the repository (`src/propius/...`).

## 1. The system

Every Propius service is one Python process with one asyncio event loop. Its
Redis calls are synchronous, so a stretch of code between two `await`s runs
alone in its process; concurrency is between processes: commands to Redis
interleave, and RPCs are awaited.

| Component | State | Operations | Talks to |
|---|---|---|---|
| Job manager (`controller/job_manager`) | `job_total_num` | JOB_REGIST, JOB_REQUEST, JOB_END_REQUEST, JOB_FINISH, heartbeat/prune | job database (transactions), scheduler (await) |
| Job database (`controller/database/db.py`) | one JSON document per job: `timestamp`, `start_sched`, `total_sched`, `total_demand`, `total_round`, `attained_service`, `round`, `demand`, `amount`, `score` | register, request, end_request, incr_amount, set_score, remove_job, expiry | all controller processes |
| Online scheduler (`controller/scheduler/online_module`) | none of its own (policy `base`, `fifo`, `random`, `srsf`) | JOB_REGIST, JOB_REQUEST: write scores | job database |
| Client manager (`controller/client_manager`) | client database, open transaction | CLIENT_CHECKIN, CLIENT_PING, CLIENT_ACCEPT | job database |
| Offline binding (`client_manager/offline_module`) | temporary client store, the last job groups fetched | periodic `client_assign` | offline scheduler, job database |
| Offline scheduler (`scheduler/offline_module`) | job groups (`fifo`, `irs`) | JOB_REGIST, GET_JOB_GROUP, which regroups | job database, first client database |
| Load balancer (`controller/load_balancer`) | round-robin index | forwards check-ins, routes by client id | client managers |
| Root parameter server (`parameter_server/root`) | parameter store, aggregation store (both with TTL) | JOB_PUT, JOB_GET, JOB_DELETE, CLIENT_GET, CLIENT_PUSH, evict | jobs, leaves |
| Leaf parameter server (`parameter_server/leaf`) | parameter cache, aggregation store | CLIENT_GET, CLIENT_PUSH, evict routine that pushes upward | root, clients |
| Job library (`job/job.py`, `controller/job/propius_job.py`, `parameter_server/job`) | current round | connect, register, request, reduce, with retries | job manager, root |
| Client library (`client/client.py` and its two halves) | client id, current task | check-in, ping, select, accept, get, push, with retries | load balancer, leaf |
| Evaluation executor (`evaluation/executor`) | task pool, sums of results, running tasks | JOB_REGISTER, JOB_REGISTER_TASK, loop of `execute`, worker manager | evaluation jobs, workers |
| Evaluation job (`evaluation/job/parameter_server.py`) | round state under a lock and a condition variable | CLIENT_CHECKIN, CLIENT_PING, CLIENT_EXECUTE_COMPLETION, round loop | executor, job manager |
| Evaluation client (`evaluation/client/client.py`) | event queue, round | check-in, ping, execute, in its periods of activity | client library, evaluation job |
| Monitors, plots, training code, generated stubs | | | not protocol |

What makes each of them correct:

- **Job manager, job database, client managers (acceptance).** A round never
  gets more clients than it asked for; the amount of a document counts the
  clients that were told they are in the document's round; every closed round
  is settled once, whoever closes it; jobs that go silent leave the database.
- **Online scheduler.** Scores order the jobs that clients can be offered by the
  policy, although ranking is a later step than registering or requesting.
- **Offers and load balancer.** Offers hold open and eligible jobs only, no more
  than the maximum; a client's ping reaches the manager that knows it.
- **Offline binding and scheduler.** Clients are bound to jobs they are eligible
  for; groups hold eligible clients only and all of them; registered jobs have a
  group; open jobs with clients are served.
- **Parameter servers.** An aggregate holds each push of its round once; a cache
  serves what was put for the round that is asked; what was acknowledged is
  counted or known to be discarded.
- **Job and client libraries.** Retries of calls that took effect do not corrupt
  a round; a round whose clients never push is ended.
- **Executor and evaluation job.** Results belong to the attempt at a round they
  were trained for; an attempt that failed leaves nothing behind; tasks reach the
  executor in the order its loop relies on; jobs end and leave.

The hard parts are the ones no unit test in the repository reaches: optimistic
transactions of several processes on one document, reads that belong to
different rounds, a call that awaits while its job is removed, retries of what
already happened, restarts under open transactions and used ids, a scheduler's
pass over databases that change between its queries, waits whose time limit
races with their notification, tasks that outlast the wait for them.
`PROJECT.json` lists them as hazards, each at its line.

## 2. What is modelled

| Module | Models |
|---|---|
| `JobDb` | the job document and what each transaction writes into it, as pure operators |
| `JobControl` | job manager, online scheduler and the acceptance path of the client managers, interleaving on the job database |
| `JobLedger` | abstract specification: an account of rounds in which every transaction is a single step |
| `JobControlInv` | the inductive invariant of `JobControl`, `ControlInv` |
| `MCJobControl` | the instances for TLC |
| `JobControlProofs` | proofs: types, no over-allocation, estimates and ranks |
| `JobControlRefines` | proofs: `JobControl` implements `JobLedger`, the attained service, `ControlInv` |
| `Sums` | what sums over finite sets are, for the proofs |
| `ParameterServer` | root and leaf parameter servers with the put, get and push of the job and client libraries |
| `MCParameterServer` | its instances for TLC |
| `ParameterServerProofs` | proofs: types, parameters, aggregates, and the account of pushes |
| `OfflineSchedule`, `MCOfflineSchedule` | the offline irs scheduler: job groups, the pass that computes them, registrations |
| `OfflineScheduleProofs` | proofs: types, the invariant of the pass, soundness and coverage of the groups |
| `Offers`, `MCOffers` | check-in, ping, offers, binding and acceptance: client library, load balancer, client managers, the offline fifo list |
| `OffersProofs` | proofs: types, soundness of offers, ids |
| `TaskStream` | abstract specification: the order of tasks that a job registers at the executor |
| `EvalRound`, `MCEvalRound` | the parameter server of an evaluation job with its clients; it implements `TaskStream` |
| `EvalRoundProofs` | proofs: types, the invariant of a round, the refinement |
| `Executor`, `MCExecutor` | the executor, driven by a `TaskStream` of each job |
| `ExecutorProofs` | proofs: types, queues and sums of attempts |

### JobDb

`Doc` is the document of `db.py` (the schema of the search index and the dict
that `register` writes). Time is reduced to "never" (0) and "some time" (1):
`start_sched` keeps only whether a round was ever requested, `total_sched`
counts the intervals that were added instead of summing their lengths. The
constraints and the job's address are left out, since no transaction changes them.

### JobControl

| Code | Model |
|---|---|
| documents under `job:<id>` | `live`, `db` |
| `EXPIRE` | `ttl`, the set of keys that carry a time to live |
| time since the last request exceeds `job_max_silent_time` | `silent`, extended by `FallSilent` at any time |
| `WATCH`/`MULTI`/`EXEC` | `dirty`: the parties whose watched key was touched since the `WATCH`; a write of a key adds every party that is in a transaction on it (`Touched`), and an `EXEC` of a party in `dirty` fails |
| JOB_REGIST | `JobRegist`, then the call in `calls` |
| JOB_REQUEST | `JobRequest`, `JobRequestFinal` or `JobRequestMissing`, then `Estimate...`, then the call in `calls` |
| JOB_END_REQUEST | `EndRequestRead`, `EndRequestExec`, `EndRequestRetry` |
| JOB_FINISH, `prune` | `JobFinish`, `Prune` |
| scheduler's `online()` | `ScRank` (fifo, random), `ScDemand`, `ScAmount`, `ScScore` (srsf), `ScPass` (nothing to do), `ScMissing`, `ScGone` (the handler raises) |
| the answers to the job | `Answer` (a registering job learns its id: `known`), `failed` (an exception) |
| CLIENT_ACCEPT, `incr_amount` | `AcceptAmount`, `AcceptDemand`, `AcceptExec`, `AcceptRefuse`, `AcceptRetry` |
| crash of the job manager, `Job_db` constructor with `flush` | `JobManagerRestart` |

*Steps.* One action is a stretch of Redis commands whose reads cannot be told
apart from reads made at its last command. Round, demand and the announced
rounds are only written by the job manager, which runs one handler at a time, so
`register`, `request`, `remove_job` and `prune` are one step. `end_request` and
`update_total_demand_estimate` read a field that client managers write, and
`incr_amount` reads `amount`, then `demand` and `round`: these have their reads
and their `EXEC` in separate steps. `WATCH` and the read after it are one step: a
write between them only makes the transaction start over.

*Environment.* Jobs call any operation for any id that was ever returned to them,
in any order and number (this includes the retries of the job library and calls
with ids of before a restart); clients accept any job whose round was ever
open, however old their offer is.

*History.* `book` records, per job and round, the demand asked, the clients told
they are in, and whether the round was closed. No action of the code reads it.
A restart of the job manager starts new pages, because the ids start again.

### ParameterServer

| Code | Model |
|---|---|
| root's `parameter_store`, `aggregation_store` | `board`, `agg` |
| a leaf's `parameter_store`, `aggregation_store` | `cache`, `part` |
| the lock that `clock_evict_routine` holds while it pushes | `flush`: idle, sent to the root, done there |
| JOB_PUT, its retries | `RootPut`, `JobPutLost` |
| JOB_GET as polled by `reduce` (code 1, 3; code 6 changes nothing) | `JobGetDone`, `JobGetError` |
| JOB_DELETE | `JobDelete` |
| the leaf's CLIENT_GET | `LeafGet`, the root's part `RootGet` or `RootGetFail`, and `LeafReply` after the await |
| the leaf's CLIENT_PUSH | `LeafPush`; the client hears the answer, or pushes again while it has trials left |
| the push of an expired entry | `LeafFlush`, then `RootPush` and `FlushDone`, or `FlushFail` |
| expiry of the other stores | `EvictBoard`, `EvictAgg`, `EvictCache` |
| an id handed out again by a restarted job manager | `NewJob` |

*Steps.* The locks of the stores are asyncio locks, and taking a free one does
not suspend. The only `await` of something else under a lock is the push in the
leaf's eviction routine. Hence a root's handler is one step, a leaf's CLIENT_GET
is cut at its call to the root, and a leaf's CLIENT_PUSH is one step that waits
for the lock. The eviction routine pushes several expired entries under one
hold of the lock; the model lets it go between two of them, which only adds
behaviours.

*Data.* Tensors and their sums are abstracted to the set of clients whose
results are in the sum (`from`), next to the count the code keeps. Parameters
are told apart by id, round and `inc`, which counts the jobs that had the id. A
time to live runs out at any time. The job that loses its id to a new one is
taken to stop, and a call that failed for the caller is not executed later.

*History.* `posted`, `taken`, `dropped` record the puts, the pushes that a leaf
took, and those of them that were discarded; `losses` counts discards by a
failure, an expired aggregate or a repeated put. No action of the code reads
`posted` or `dropped`; `taken` and `losses` occur in guards as bounds only.

### OfflineSchedule

| Code | Model |
|---|---|
| `Job_group`: `key_list`, `key_job_group_map`, `key_group_condition_map` | `keys`, `list`, `cond` |
| a query, the text of a condition | the set of classes of clients that match it |
| the local variables and the position of `offline()` | `pass` |
| documents of jobs, as `get_job_list` reads them | `job`: absent, closed, open, gone |
| the client database of the first client manager | `present` |
| JOB_REGIST | `ScRegist`, which waits for the end of a pass (the lock) |
| `clear_group_info` | `PassStart` |
| the loop over keys with `get_job_list`, `remove_key` | `PassList`, `PassRemove`, `PassListFails` |
| `get_client_proportion`, `get_client_size`, the first sort | `PassProportion`, `PassSize` |
| the first query and `get_client_subset_size` | `PassAllot`, `PassAllotFails`, with the second sort after the last key |
| the nested loops of the second query | `PassTake`, `PassNext` |
| exceptions in `offline()` | the pass ends with "aborted": `PassRemove` (the list of a removed key is looked up), `PassZero` (a share of zero) |

*Steps.* Every Redis query of the pass is a step, since other processes write the
databases between them; nothing of the scheduler itself runs in between, as the
pass never awaits. `get_affected_len` compares sums of demands, which the model
leaves out: it returns any number from one to the jobs of the group that still exist.

*Data.* Sorting is stable as in Python. A proportion is a fraction of the clients there
are when its own key is read, so the keys need not be sorted by their present counts,
nor by counts of any one moment. The order of jobs within a group and
their demands are left out. The scheduler cannot lose its groups in the model;
see section 5.

### Offers

| Code | Model |
|---|---|
| `auto_assign` in `propius_client_aio.py` | `client`: its id, the attempts left, the offers it holds |
| CLIENT_CHECKIN, CLIENT_PING, CLIENT_ACCEPT through the load balancer | `CheckIn`, `Ping`, `Accept` and `Refused`; a lost answer is `CheckIn(c, FALSE)`, an error `Fails` |
| `client_num`, `client:<id>`, `temp:<id>` | `num`, `spec`, `temp`, per client manager |
| expiry of the two documents | `ExpireSpec`, `ExpireTemp` |
| restart with `flush` | `ManagerRestarts` |
| `client_assign` of the base portal (fifo) | `BindFifo`, with the iterator that all clients of a batch share; a client that comes upon a job removed since it was found open keeps what it had (`Given`) |
| `client_assign` of the irs portal | `BindIrs`: any groups that `OfflineSchedule` may hand out (`GroupsSound`), with or without tiers |
| the fifo scheduler's `job_regist` | `line`, in `JobEnters` |
| jobs | accounts as in `JobLedger`, which `JobControl` implements |

`EarlierEnded` is an assumption: ids of a client manager repeat after
`client_manager_id_weight` check-ins, and the client that had an id has ended by
then. Restarts, where this does not help, are modelled.
One job at most is removed under a round of `BindFifo`.

### TaskStream, EvalRound, Executor

`TaskStream` is what two processes agree on without either checking it. Its
`results` and `count` differ: a result may be counted although the executor never
heard of it. `EvalRound` implements it. `Executor` extends it: each of its calls is a
step of the stream and something that the executor does, by construction, so that what
is shown of the executor holds for whoever follows the stream.

| Code | Model |
|---|---|
| the main coroutine of `run`, which holds the lock | `phase`: start, sched and exec (its two waits), done, exited |
| `cv.notify` | `notified`; a wait that was notified may still time out |
| `client_event_dict` | `queue`: how many of the four events of a client are left |
| handlers of the parameter server | `CheckIn`, `PingAnswered`, `PingRefused`, `Complete`, `CompleteRefused`; `UploadCut` if it is cancelled, or fails, at its await |
| `close_round`, `close_failed_round`, `re_register` | `CloseRound`, `SchedTimeout`, `ExecTimeout`, `StuckTimeout`, `ReRegister` |
| a call of the job manager or the executor that raises in `run`, which ends it | `ExecStartFails`, `CloseRoundFails`, `TimedOutFails` |
| `server_graceful_shutdown`, in an event loop of its own | `Shutdown`; the finish task is not registered, see section 5 |
| `event_monitor` and `execute` of the client | `doing`; `Leave` if it stops for any reason |

| Code | Model |
|---|---|
| `job_meta_list`, `job_task_dict`, `select_time` | `pool`, `queue`, `turns` |
| JOB_REGISTER, JOB_REGISTER_TASK with `insert_job_task` | `Register`, `RegisterTrain`, `RegisterAggregate`, `RegisterFail` (with `_pop_failed_task`), `RegisterFinish` |
| `get_next_task` and the branches of `execute` | `NextTask`, `NoTask`, then `TrainGoes`, `TestStarts`, ..., `FinishRemoves` after the wait |
| UPDATE and REMOVE, awaited on every worker | `AggregateEnds`, `RemoveEnds` |
| `job_train_task_dict`, `job_test_task_dict` | `started`; `waits` once a wait has taken the list |
| tasks of the worker manager that have no result yet | `running`; `Merge`, `GiveUp` |
| `job_id_agg_weight_map`, `job_id_agg_meta`, `job_id_agg_test_map` | `weight`, `meta`, `tests`: the results that are in the sum, in the count, in the test sums |
| `asyncio.wait` with `timeout` | `Waited`; `hung` are the tasks that outlast it |

*Steps.* Both processes are one event loop; a step ends where the code awaits
something that is not ready. The broadcast of new weights is one await between
`AggregateStarts` and `AggregateEnds`, that of a removal one between `FinishRemoves` and
`RemoveEnds`; neither has a deadline. No handler of a parameter server is answered once `run` has
ended, since its event loop is closed then.

*Clients.* Ids of clients are unique in `EvalRound`. An id that a client manager hands out
again while its earlier holder is still at the server is not covered.

*What is composed.* `EvalRound` never registers a finish task, `Executor` allows one at any
time: it shows what the executor does with the task, whoever registers it.

*History.* `fetched`, `aggregated`, `open` (`EvalRound`), `attempt`, `closed` (`Executor`), `registered`,
`lost` (`OfflineSchedule`), `home`, `life` (`Offers`) are read by no action of the
code; `attempt` names what the code does not tell apart.

## 3. Runs

| Run | Instance | Shows |
|---|---|---|
| `rounds` | 2 client managers, 1 job, 2 rounds of 1 or 2 places, 1 restart | `ControlInv`, `NoOverAllocation`, `AmountCountsClients`, `ServiceIsClosedRounds`, and that `JobControl` implements `JobLedger` |
| `srsf` | 2 client managers, 1 job, 3 rounds, announced rounds 0 or 2, rounds limited, srsf | `ControlInv`, `EstimateCoversRound`, `ScoreTracksOpenRound`, with the removal of a job beyond its last round |
| `answers` | fair, 1 client manager, 2 jobs of one round, fifo | `ControlInv`, `OpenJobsInFifoOrder`, `AcceptAnswered`, `CallsAnswered`, `SilentStartedPruned` |
| `pspush` | 2 clients of one leaf, 2 rounds of 1, an id used twice | `ServerInv`, `OnlyPostedParams`, `OnlyRoundsPushes` |
| `psfills` | fair, 2 leaves with a client each, a round of 2, two trials, one loss | `PushesAccounted`, `LeafDrains`, `RoundFills` |
| `irspass` | fair, 2 constraints that overlap, a job each, 3 clients, 1 query that fails | `TypeOK`, `ScheduleInv`, `GroupsSound`, `GroupsCover`, `RegisteredHaveGroup`, `DeadKeysLeave` |
| `offers` | fair; online with 2 client managers, fifo and irs with 1; 2 jobs, 2 clients, 3 check-ins, 1 fault | `OffersInv`, `OffersSound`, `IdsApart`, `AssignEnds` |
| `evalround` | fair, 4 clients, 2 rounds that ask for 3 and need 1, 2 faults | `ResultsOfAttempt`, `RoundInv`, `StreamSpec`, `ServerExits` |
| `executor` | fair, 2 jobs, one of which trains a round of 1 result with 2 clients, 1 failed attempt, 1 task that hangs | `ExInv`, `OwnAttempt`, `WeightMatchesMeta`, `JobsLeave` |
| `psstale`, `pstwice`, `starved` | the smallest that shows it | a statement of the documentation that does not hold, see section 5 |

`ControlInv`, `ServerInv`, `OffersInv`, `RoundInv`, `ScheduleInv` and `ExInv` are the
inductive invariants of section 4. Each has the type invariant of its module as a
conjunct, so a run that checks one checks the types.

*Bounds.* `MaxJobs`, `MaxRound` and `MaxRestart` bound ids, rounds and restarts;
no other counter grows. Documents of different jobs never share a transaction,
so one job is enough for the transactions; two jobs are needed only where
their scores are compared. Two client managers and the job manager give
every pair of conflicting transactions and a third writer to touch both; two
rounds give the stale reads across rounds, and demands 1 and 2 make a round that
is full after one client and one that is not, in either order. One restart is
enough to have an old transaction on a reused id. Client managers are
symmetric; symmetry is used where no liveness or refinement is checked.

In `ParameterServer`, `MaxPush` bounds the pushes taken per round, `MaxInc` how
often an id is used again, `MaxLoss` the discards, `Trials` the attempts of a
call (3 in the libraries, 2 where a repetition matters). Entries of different
jobs never meet except in the lock of a leaf, so one job is enough; two rounds
make late answers, late pushes and superseded aggregates possible, and two
clients make two handlers of one leaf overlap. Leaves share nothing but the
root, where each of their calls is one step; two of them are needed only for a
round that fills from both, which one round is enough for.

In `OfflineSchedule`, two groups are what one comparison of the second query
takes, and clients of three classes (eligible for the one, the other and both)
tell every region apart; with three groups the conditions may overlap (section
5), which the properties allow and the proofs include. `MaxError` bounds failed
queries. In `Offers`, `Weight` is the number of ids of a client manager, `MaxCheckin`
lets an id come up a second time, and `MaxOffer = 1` makes a list that is cut with
two jobs; `MaxFault = 1` gives each kind of fault by itself. In `EvalRound` four
clients for three places and one result needed make refusals, results beyond the
demand (one more is taken) and members left without a result; two rounds and two
faults make an attempt that fails between two that do not, or a server that ends in
the middle of the second attempt of a round. In `Executor`,
`Batch`, `TurnLimit`, `TaskLimit` and `EvalInterval` stand for 5, 10, 5 per worker
and the configured interval; 2 and 1 are the least at which batches, turns and
waits in the middle of a round occur. One task that hangs and one failed attempt
are enough for a result to come in after its attempt was dropped.

*Fairness.* An event loop runs what is ready in order, so a process that is in
the middle of a stretch goes on (weak fairness of `JobManagerStretch`,
`SchedulerStretch` and `AcceptStep(m)`), and a handler that arrived is run even
though others are run before it (strong fairness of `SchedulerTake(c)`, which
is disabled while another handler is in its stretch); `heartbeat_routine`
wakes up after every sleep (strong fairness of `Prune`). Nothing is assumed of
jobs, clients or time. `AcceptAnswered` and `CallsAnswered` hold at bounded
numbers of rounds: a transaction starts over only when another one committed,
so a job manager that never stopped opening rounds could starve an acceptance,
and the bound excludes that.

In `psfills` the eviction routine of a leaf reaches every entry again and again
(strong fairness of `LeafFlush`, disabled while another entry is on its way)
and its call to the root returns, with an answer or an error (weak fairness of
`RootPush` or `FlushFail`, and of `FlushDone`); the code sets no deadline on the
call, so a root that neither answers nor breaks the connection is excluded by
assumption. `RoundFills` speaks of rounds from which nothing was lost.

In `irspass` a client manager asks for the groups again and again and a pass goes
on (weak fairness of `PassStart` or `PassStep`); nothing is assumed of jobs and
clients. In `offers` a client's calls return, with an answer or an error (weak
fairness of `AssignStep(c)`), nothing is assumed of anyone else. In `evalround` the
main coroutine goes on, its calls return with an answer or an exception (the job
manager is tried three times, and the executor's JOB_REGISTER_TASK waits for nothing),
time limits pass where nothing else can end a wait (`StuckTimeout`), and clients send
their calls (weak fairness of `Call(c)`, which includes new check-ins: without clients a
job asks for ever).

In `executor` the loop goes on (`Loop`) and a train or test task that does not hang ends
within the time limit of a wait, since it pings thirty times half a second apart; hung
tasks are never assumed to end, and jobs may stop registering tasks at any time. UPDATE
(`worker_manager.py:226`) and REMOVE (`:75`) are awaited on every worker without a
deadline, and one worker that does not answer stops `execute` for good. Their ends
(`Answered`) are therefore not assumed, and `JobsLeave` is a promise under a condition: if no
broadcast stands for ever, jobs that finish leave.

Deadlock is checked in every run whose configuration does not say otherwise:
there is always a job or a client that can call. The other modules' runs do not check
it: when rounds, check-ins or tasks are used up and the jobs are gone, nothing is
left to do, and what must not stop before is stated as liveness.

## 4. What is proved

TLAPS proves every property of a passing run that is not liveness, for every
value of the constants that satisfies the assumption of its module. The assumptions
say that the constants have their types and what the code needs of them:

| Module | Assumption |
|---|---|
| `JobControl` | the job manager is not a client manager, demands are positive |
| `ParameterServer` | every client has a leaf, leaves are finitely many, demands are positive |
| `OfflineSchedule` | eligibility is a function to sets of classes, clients are finitely many |
| `Offers` | a positive number of managers and ids; a specification of zeros meets only a constraint that everything meets; constraints, classes and jobs have their types |
| `EvalRound` | a round needs a result and asks for no fewer clients than results |
| `Executor` | the limits of batches, turns, tasks and evaluation are positive |

| Theorem | Establishes |
|---|---|
| `TypeCorrect`, `InvCorrect`, `ControlInvariant` | `TypeOK`, `IInv` and `ControlInv` of `JobControl` |
| `NeverOverAllocated`, `AmountsCorrect` | `NoOverAllocation`, `AmountCountsClients` |
| `ServiceCorrect` | `ServiceIsClosedRounds` |
| `EstimatesCover` | `EstimateCoversRound` |
| `ScoresTrackOpenRound` | `ScoreTracksOpenRound`, under srsf |
| `FifoOrder` | `OpenJobsInFifoOrder` until the first restart, under fifo |
| `KeepsLedger` | `ImplementsLedger`, the refinement of `JobLedger` |
| `ServerTypes`, `ServerInvariant` | `TypeOK` and `ServerInv` of `ParameterServer` |
| `TrainsOnPostedParams`, `AggregatesOfOneRound` | `OnlyPostedParams`, `OnlyRoundsPushes` |
| `NoPushLost` | `PushesAccounted` |
| `ScheduleTypeCorrect`, `ScheduleInvariant` | `TypeOK` and `ScheduleInv` of `OfflineSchedule` |
| `ScheduleSound`, `ScheduleCovers`, `ScheduleKeepsGroups` | `GroupsSound`, `GroupsCover`, `RegisteredHaveGroup` |
| `OffersTypes`, `OffersInvariant` | `TypeOK` and `OffersInv` of `Offers` |
| `OffersAreSound`, `ClientsKeptApart` | `OffersSound`, `IdsApart` |
| `RoundTypeCorrect`, `RoundInvariant`, `RoundResults` | `TypeOK`, `RoundInv` and `ResultsOfAttempt` of `EvalRound` |
| `RoundImplementsStream` | `StreamSpec`, the refinement of `TaskStream` |
| `ExecutorTypes`, `ExecutorInvariant` | `TypeOK` and `ExInv` of `Executor` |
| `MergesOwnAttempt`, `DividesByItsCount` | `OwnAttempt`, `WeightMatchesMeta` |

*Transactions.* `NoOverAllocation` speaks of the book only and says nothing of a
transaction that is about to commit. `IInv` adds what makes the commit safe.
`AmountCountsClients` ties the book's current page to the document.
`TxnsFresh` says that a transaction whose key was not touched since its `WATCH`
has read the amount, demand and round that the document still has, and that
there was a place: the torn reads of `AcceptDemand` (amount of one round, demand
of the next) only occur in touched transactions, whose `EXEC` fails.
`EndingFresh` says the same of `end_request`, where the job and its demand stay
true without a `WATCH`, because only the job manager writes them. `Blanks` and
`RoundsOpened` are the facts about documents these need. Each kind of database
write has a lemma: nothing written (`FrameInv`), jobs removed (`CountsRemove`,
`RemoveTxns`), one document and page written (`CountsWrite`, `WriteTxns`,
`WriteEnding`), one document written but its counts kept (`CountsSame`,
`ScoreInv`); `InvStep` has one step per action and cites them.

*The ledger.* `JobControlRefines` shows the ledger's variables as functions of the
documents (`LRound`, `LLeft`, `LService`, `LSettled`) and maps each action to a step of
the ledger or a stutter: `JobRegist` to `Enter`, `JobRequest` to `NewRound`,
`AcceptExec` to `LetIn`, `EndRequestExec` to `EndEarly`, the removals to
`Leave`, `JobManagerRestart` to `Wipe`. That the round a client is told is the one
in the ledger at its commit is `TxnsFresh` again.

*The attained service.* `ServiceIsClosedRounds` is proved through the refinement: a
step of the ledger changes the service of a job only with the rounds that are settled
(`LedgerSettles`), by what the round had asked. What is missing is that no round is
settled twice. `ServiceInv` adds it: ids not handed out yet have no closed round, and
no closed round is ahead of its document. `Numbering` says which id a step can hand out.

*Estimates and ranks.* The service that the job manager estimates with is the one it
read before a client manager may have changed it; `EstimateInv` says that it is the
present one unless the key was touched, when the `EXEC` fails and the estimate starts
over. `SrsfInv` says what the scheduler knows between its two reads and its write: the
demand of the current round exactly, the amount at most, because amounts only grow
until the next request, which calls the scheduler again. Under fifo the order depends
on jobs not opening a round before their registration was ranked. `FifoInv` says that a
job that knows its id has been ranked; this fails after a restart, when a job of before
may use an id that a new registration has just been given. Hence `FifoOrder` carries
`restarts = 0` (and `FifoOrderWithoutRestart` states the property itself for
`MaxRestart = 0`, as in the run `answers`).

*The parameter servers.* `ServerInv` says that parameters anywhere on their way, on the
root's board, in a cache, in an answer, were posted for the id and round they are
kept under (`ParamInv`), and that what a leaf is pushing is what it still holds (`FlushInv`),
because the eviction routine keeps the lock. `NoPushLost` is a balance over a sum: the
pushes taken for a round are those discarded, those in the root's entry and those of all
leaves. Each step that moves results changes two terms by the same number, of one leaf
at a time (`LeafTakesOne`, `LeafGives`, `RootDiscards`, `QuietSteps`), and a push in flight is
counted where it is until the root has answered.

*Sums.* The models write sums with `MapThenSumSet`, which the community modules define by
recursion over an arbitrary choice of elements. `Sums` proves what is needed of it: that the
recursion defines a function, that the choice does not matter (`SumRemove`), that changing
one value changes the sum by as much (`SumChange`). Instead of an induction over sets,
which would take the statement as an operator, a least set that violates a statement is
taken from the well-founded order of the subsets of a finite set. Where numbers are
counted up, a least counterexample does the same (`LeastOf`, `Least`).

*The pass of the irs scheduler.* Soundness is inductive because each of the two
queries only adds clients that satisfy the key's own constraint. Coverage is not:
in the middle of the first query only the first keys are allotted. `ScheduleInv`
says that whatever the query excludes (`seen`) and whatever is eligible for a key
that has had its turn is in the condition of such a key; `SortKeepsKeys` that sorting
loses no key, and that a key that takes clients is not the one that gives them up
(`i < h`, since `key_list` has no duplicates), after which the union of the two
groups is what it was. Registrations only happen between passes and end the
"complete" that `GroupsCover` speaks of.

*Offers.* What a client is offered comes from the temporary store, which only keeps the
id. `OffersInv` says of an id that a client of the present life holds that the
databases of its manager have nothing under it but what is about this client
(`ClientInv`), and of every entry of the store that its jobs suit what is stored with them
(`TempInv`). A step keeps it if it does not bring a specification of another client under
an id in use and binds suitable jobs only (`GoesOn`). The id of a check-in is the
manager's own (`ManagerOfId`, `NewIdIs`), so that `Route` leads back to it. The iterator that a
batch of clients shares (`BindFifo`) is described by the places at which each of them
starts: whatever these are, a client takes jobs that fit it. Groups of the irs scheduler are
any that satisfy `GroupsSound`, which `ScheduleSound` proves of `OfflineSchedule`.

*The round of an evaluation job.* That no result of a failed attempt is counted for
the next one, which has the same round number, follows from none of the checks in
CLIENT_EXECUTE_COMPLETION by itself. `RoundInv` relates what a client does to the
events left for it (`ClientInv`): a client with a place works on the event before
those that are left, so that only a client that was sent the model in this attempt
can upload; and it relates the phases to `execution_start` and the counters
(`ServerInv`): places are cleared when an attempt ends and only given while one is
being scheduled. The refinement takes the round of the stream to be the one after the last
that was aggregated, not `cur_round`, and its results to be counted while the attempt is
open to the executor: where the executor's answer is lost, the server ends before its own
counters follow, and the executor has heard of the attempt's end or not. Each
handler and phase is then a step of the stream or a stutter.

*The executor.* A result may be merged at any time after its task started, so that
`OwnAttempt` rests on where tasks are. `QueueInv` says that the queue of a job is in the order
of its stream: what concludes an attempt is registered once and after the tasks it is about
(`Chain`), and every task that waits is of an attempt that is not concluded (`Pending`), also when
ROUND_FAIL takes tasks out of the queue and batches are split. `LoopInv` says that a task which
runs is in the list that the concluding task will wait for, is being waited for, or hangs.
`SumInv` then gives that sum and count of a job hold the same results up to those
that hung; `WeightMatchesMeta` follows in `DividesByItsCount`. What jobs
register is assumed to be a `TaskStream`, which `RoundImplementsStream` proves of `EvalRound`:
the two halves of the evaluation meet there.

*Only model-checked.* Liveness: `AcceptAnswered`, `CallsAnswered`, `SilentStartedPruned`
(`answers`), `LeafDrains`, `RoundFills` (`psfills`), `DeadKeysLeave` (`irspass`), `AssignEnds`
(`offers`), `ServerExits` (`evalround`), `JobsLeave` (`executor`); the prover has no rule for
`ENABLED`, on which fairness rests. The violations of section 5 are counterexamples
of TLC's.

## 5. Where code and documentation disagree

Each of these runs checks one sentence of the repository and finds it violated
(the quotations are in `PROJECT.json` under `findings`):

| Run | Code | What happens |
|---|---|---|
| `psstale` | `root/parameter_server.py:47` | after a restart of the job manager a client is given the parameters of another job that had the same id |
| `pstwice` | `client/propius_ps.py:165` | a push that is tried again is counted twice, and a round succeeds with too few clients |
| `starved` | `irs_scheduler.py:84` | the share of clients in the region of a group may be zero; the division by it ends every pass, and an open job stays without clients although eligible ones are there and no other job is open |

Noticed while modelling, and not checked by a run.

- *Job manager.* A round ended early adds its whole demand to `attained_service`
  (`jm_db_portal.py:258`). `remove_job` reports the index of the last round as the
  number of rounds (`db.py:190`), and divides the latency by it. A job that
  registered and never asked for a round is never pruned (`jm_db_portal.py:120`), and
  the time to live that should remove it goes to the key `job:job:<id>`, which does not
  exist (`:94`); `docs/application_layer.md:41` says such jobs are removed.
- *Acceptance.* `incr_amount` refuses on an amount and a demand that may be of
  different rounds, with no `EXEC` to notice (`cm_db_portal.py:150`).
- *Online scheduler.* Under srsf a refused request ends in an exception instead of
  the documented -1 (`srsf_scheduler.py:23`).
- *Offers.* The list of offers has up to one more than its maximum
  (`cm_db_portal.py:61`, `:98`; its docs say "no greater than"). A restarted client
  manager hands out ids again, and a client of before may be answered what the new
  holder of its id is bound to, which is why `OffersSound` speaks of one life.
- *Offline binding.* The fifo portal filters the job list into an iterator that the
  first client of a batch uses up (`base_temp_db_portal.py:57`), so that later ones are
  bound to what is left, often nothing, although the docstring speaks of "all clients".
  A client that comes upon a job whose constraints are gone keeps its earlier binding (`:88`).
- *Offline scheduler.* Its groups are in memory only: after a restart no job has one.
  A failed search removes the group of live jobs (`sc_db_portal.py:103`). With three
  constraints the conditions of groups may overlap, because a group that takes clients
  joins them with "or" while only the other group of the pair gives them up.
  Keys are compared by proportions of client counts taken at different moments
  (`sc_db_portal.py:297`), so a key with fewer clients may be sorted behind one with more.
- *Parameter servers.* A leaf answers a push with success whether or not the root
  still has an entry of the round (`aggregation_store/leaf.py:62`), and drops what it
  could not forward (`:99`); a put that is repeated because its answer was lost drops what
  the root has of the round (`root/parameter_server.py:80`). `PushesAccounted` counts both as
  discarded. The metadata given to `put` never reaches a client (`:84`).
- *Evaluation job.* A wait that was notified may time out before the coroutine has
  its lock back, and then a round with enough results fails
  (`evaluation/job/parameter_server.py:467`). A call of the executor that fails in
  `close_round` or `close_failed_round` (`:131`, `:146`) is caught nowhere in `run`: the server
  ends in the middle of its job. The executor never hears of the end of any job:
  `server_graceful_shutdown` runs in a second `asyncio.run` (`:530`), while the channel to the
  executor (`:97`) belongs to the loop that the first one (`:526`) has closed, so
  the call at `:386` raises and the executor keeps the job's tasks and models. A result is
  counted before the executor is told (`:274`), and a round may then aggregate fewer than it
  counted.
- *Executor.* A worker that does not answer UPDATE or REMOVE stops `execute` for all jobs
  (`worker_manager.py:226`, `:75`). One that fails at REMOVE leaves the job's task lists behind
  (`executor.py:127`). The comments at `executor.py:180` and `:212` say that all pending
  training tasks are waited for; the wait ends after `round_timeout`, and what merges
  later is counted for the next attempt. The last client of the test list is never
  tested (`:164` ends its slice at `-1`). The averages of a test without results divide by
  zero (`worker_manager.py:241`). Workers train a job's model in place
  (`worker.py:384`), so that a client starts from the result of the one before it, and a
  failed attempt leaves its training in the workers' models.
- `evaluation/job/parameter_server_nw.py` imports a package that does not exist.

## 6. Plan

Done: job control with its ledger, the parameter servers, the offline scheduler,
offers and binding, the evaluation job and its executor, and proofs of all their
safety properties. What is left, in order:

1. An abstract specification of the parameter servers (a board of parameters per job
   and a count of pushes per round, in single steps) that `ParameterServer` implements, with
   the proof from `ServerInv`.
2. A proof that the accounts of jobs in `Offers` are those of `JobLedger`.
3. `RoundTrip`: job and client libraries composed with `JobLedger` and the abstract
   parameter server; the round protocol end to end with retries.
4. The workers of the executor: their queues, models and shared datasets.

## 7. What is not modelled

Monitors and plots (nothing reads them), training code, models, datasets and
examples (numerical or third-party, no protocol; they are two thirds of the
repository's lines, which is why the map covers a small share of them), generated
stubs (an RPC is a call whose answer may be an error), errors of the Redis
connection in the job manager, the 100-document page of the searches, the contents
of constraints. `parameter_server_nw.py` is stale. The workers of the executor are
tasks that end, fail or hang; what is on them is left out. The order of jobs in
an offline group, and the demands it is sorted by, are left out.
