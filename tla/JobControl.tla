----------------------------- MODULE JobControl -----------------------------
(***************************************************************************)
(* The life of jobs in the Propius controller (online mode): the job       *)
(* manager registers jobs, opens and closes their rounds, prunes and       *)
(* finishes them; the client managers count clients into open rounds; the  *)
(* scheduler ranks jobs.  They meet in one Redis database of job documents *)
(* and each of their transactions is optimistic: WATCH the key, read the   *)
(* fields one by one, and commit with MULTI/EXEC, which does nothing and   *)
(* makes the loop start over if the key was touched since the WATCH.       *)
(*                                                                         *)
(* Atomicity.  Every service is one asyncio event loop and its Redis calls *)
(* are synchronous: between two awaits a process runs alone on its own     *)
(* state, while the commands of different processes interleave.  One step  *)
(* here is a stretch of commands whose reads cannot be told apart from     *)
(* reads at the last of them:                                              *)
(*  - only the job manager writes round, demand, start_sched, total_round  *)
(*    and total_demand, and only it deletes documents.  register, request, *)
(*    remove_job and prune read nothing that another process writes and    *)
(*    acts on, so each is one step;                                        *)
(*  - end_request and update_total_demand_estimate read one field of the   *)
(*    client managers, so each is a read step and an EXEC step;            *)
(*  - incr_amount in a client manager reads amount and then demand and     *)
(*    round, three steps with its EXEC.                                    *)
(* WATCH and the first read are one step: a write between them only makes  *)
(* the transaction start over.                                             *)
(***************************************************************************)
EXTENDS JobDb, FiniteSetsExt, Sequences

CONSTANTS
  CM,              \* the client managers
  JM,              \* the job manager, as a party that WATCHes keys
  MaxJobs,         \* bound: job ids handed out by one job manager process
  MaxRound,        \* bound: rounds opened per job
  MaxRestart,      \* bound: restarts of the job manager
  Demand,          \* demands a job asks for
  TotalRound,      \* total rounds a job announces, 0 for unknown
  Alg,             \* sched_alg: "fifo", "random", "srsf", or "irs", for which
                   \* scheduler.py starts the base class that ranks nothing
  AllowExceed,     \* allow_exceed_total_round
  ConfigMaxRound   \* max_round of the configuration

ASSUME ConstantsAssumption ==
  /\ JM \notin CM
  /\ MaxJobs \in Nat \ {0} /\ MaxRound \in Nat \ {0} /\ MaxRestart \in Nat
  /\ Demand \subseteq Nat \ {0} /\ TotalRound \subseteq Nat
  /\ Alg \in {"fifo", "random", "srsf", "irs"}
  /\ AllowExceed \in BOOLEAN /\ ConfigMaxRound \in Nat

Job   == 0 .. (MaxJobs - 1)
Round == 0 .. (MaxRound - 1)
Party == CM \cup {JM}

VARIABLES
  live,        \* ids with a document in the database
  db,          \* id -> document, NoDoc when not live
  ttl,         \* Redis keys that carry a time to live
  silent,      \* live jobs that sent no round request for job_max_silent_time
  job_total_num,
  known,       \* ids that were returned to a registering job
  offered,     \* ids whose open round a client may have been offered
  jm,          \* the job manager's synchronous stretch
  calls,       \* handlers of the job manager that await the scheduler
  failed,      \* calls whose handler in the scheduler raised an exception
  sc,          \* the scheduler's synchronous stretch
  cm,          \* client manager -> its incr_amount transaction
  dirty,       \* parties whose watched key was touched since their WATCH
  book,        \* history: per job and round, the demand asked, the clients
               \* told that they are in, and whether the round was closed
  restarts

jobVars == <<live, db, ttl, silent, job_total_num, known, offered>>
vars == <<jobVars, jm, calls, failed, sc, cm, dirty, book, restarts>>

-----------------------------------------------------------------------------
(* Redis.                                                                  *)

(* The pieces of a Redis key, "job:<id>".                                  *)
Key(j) == <<"job", j>>

(* The key register() gives a time to live: it adds the prefix once more   *)
(* to a name that has it.                                                  *)
ExpireKey(j) == <<"job">> \o Key(j)

Keys(jobs) == {Key(j) : j \in jobs}

(* The parties in a transaction on job j.                                  *)
Watching(j) == {m \in CM : cm[m].pc # "idle" /\ cm[m].job = j}
                 \cup {p \in {JM} : jm.pc \in {"estimating", "ending"} /\ jm.job = j}

(* Every write of the key of a job in jobs fails the transactions open on  *)
(* it.                                                                     *)
Touched(jobs) == dirty \cup UNION {Watching(j) : j \in jobs}

-----------------------------------------------------------------------------
(* State.                                                                  *)

Page   == [asked : Nat, given : Nat, closed : BOOLEAN]
NoPage == [asked |-> 0, given |-> 0, closed |-> FALSE]

(* What happens to the page of a round: one more client is let in, which   *)
(* leaves the given document, or the round is closed.                      *)
PageLetIn(page, doc) == [page EXCEPT !.given = @ + 1, !.closed = @ \/ ~Open(doc)]
ClosedPage(page) == [page EXCEPT !.closed = TRUE]

WritePage(j, r, page) == book' = [book EXCEPT ![j] = [@ EXCEPT ![r] = page]]

(* The answer that waits for the scheduler; round -1 of a request is a     *)
(* refusal, ack = False.                                                   *)
Call == [op : {"regist"}, job : Job, round : {-1}]
          \cup [op : {"request"}, job : Job, round : Round \cup {-1}]

NoJm == [pc |-> "idle", job |-> 0, demand |-> 0, service |-> 0, round |-> -1]
JmState == [pc : {"idle", "estimate", "estimating", "ending"}, job : Job,
            demand : Nat, service : Nat, round : Round \cup {-1}]

NoTxn == [pc |-> "idle", job |-> 0, amount |-> 0, demand |-> 0, round |-> -1]
Txn   == [pc : {"idle", "amount", "exec"}, job : Job, amount : Nat,
          demand : Nat, round : Int]

NoSc == [pc |-> "idle", call |-> [op |-> "request", job |-> 0, round |-> -1],
         demand |-> 0, amount |-> 0]
ScState == [pc : {"idle", "demand", "amount"}, call : Call, demand : Nat, amount : Nat]

TypeOK ==
  /\ live \subseteq Job /\ silent \subseteq live
  /\ db \in [Job -> Doc]
  /\ ttl \subseteq Keys(Job)
  /\ job_total_num \in 0 .. MaxJobs
  /\ known \subseteq Job /\ offered \subseteq Job
  /\ jm \in JmState
  /\ calls \subseteq Call /\ failed \subseteq Call
  /\ sc \in ScState
  /\ cm \in [CM -> Txn]
  /\ dirty \subseteq Party
  /\ book \in [Job -> [Round -> Page]]
  /\ restarts \in 0 .. MaxRestart

(* The job manager empties the database and counts ids from zero.          *)
Init ==
  /\ live = {} /\ db = [j \in Job |-> NoDoc]
  /\ ttl = {} /\ silent = {} /\ job_total_num = 0
  /\ known = {} /\ offered = {}
  /\ jm = NoJm /\ calls = {} /\ failed = {} /\ sc = NoSc
  /\ cm = [m \in CM |-> NoTxn]
  /\ dirty = {}
  /\ book = [j \in Job |-> [r \in Round |-> NoPage]]
  /\ restarts = 0

-----------------------------------------------------------------------------
(* Job manager.  A handler starts when no other one is in a synchronous    *)
(* stretch.                                                                *)

Idle == jm.pc = "idle"

(* JOB_REGIST: take the next id, insert the document, call the scheduler.  *)
(* The id cannot be taken: ids are never reused before a restart, which    *)
(* empties the database.                                                   *)
JobRegist(est_demand, total_round) ==
  LET j == job_total_num IN
  /\ Idle /\ j \in Job /\ j \notin live
  /\ job_total_num' = j + 1
  /\ live' = live \cup {j}
  /\ db' = [db EXCEPT ![j] = RegisteredDoc(est_demand, total_round)]
  /\ ttl' = ttl \cup ({ExpireKey(j)} \cap Keys(live'))
  /\ dirty' = Touched({j})
  /\ calls' = calls \cup {[op |-> "regist", job |-> j, round |-> -1]}
  /\ UNCHANGED <<silent, known, offered, jm, failed, sc, cm, book, restarts>>

(* remove_job() of every job of a set.  The job manager itself is in no    *)
(* transaction then, or dies.                                              *)
Remove(jobs) ==
  /\ live' = live \ jobs
  /\ db' = [j \in Job |-> IF j \in jobs THEN NoDoc ELSE db[j]]
  /\ ttl' = ttl \ Keys(jobs)
  /\ silent' = silent \ jobs
  /\ dirty' = Touched(jobs) \ {JM}

(* The job manager still has to run update_total_demand_estimate for the   *)
(* request it has dealt with.                                              *)
ThenEstimate(j, demand, round) ==
  jm' = [NoJm EXCEPT !.pc = "estimate", !.job = j, !.demand = demand, !.round = round]

Refused(j) == ~AllowExceed /\ FinalRound(db[j], ConfigMaxRound)

(* JOB_REQUEST of a job with a document: a new round opens.                *)
JobRequest(j, demand) ==
  LET round == db[j].round + 1 IN
  /\ Idle /\ j \in known /\ j \in live /\ ~Refused(j) /\ round \in Round
  /\ db' = [db EXCEPT ![j] = Requested(@, demand)]
  /\ silent' = silent \ {j}
  /\ offered' = offered \cup {j}
  /\ dirty' = Touched({j})
  /\ WritePage(j, round, [NoPage EXCEPT !.asked = demand])
  /\ ThenEstimate(j, demand, round)
  /\ UNCHANGED <<live, ttl, job_total_num, known, calls, failed, sc, cm, restarts>>

(* JOB_REQUEST beyond the total round: the job is removed instead.         *)
JobRequestFinal(j, demand) ==
  /\ Idle /\ j \in known /\ j \in live /\ Refused(j)
  /\ Remove({j})
  /\ ThenEstimate(j, demand, -1)
  /\ UNCHANGED <<job_total_num, known, offered, calls, failed, sc, cm, book, restarts>>

(* JOB_REQUEST of an id without document.                                  *)
JobRequestMissing(j, demand) ==
  /\ Idle /\ j \in known /\ j \notin live
  /\ ThenEstimate(j, demand, -1)
  /\ UNCHANGED <<jobVars, calls, failed, sc, cm, dirty, book, restarts>>

(* The handler goes on to await the scheduler.                             *)
AwaitScheduler ==
  /\ jm' = NoJm
  /\ calls' = calls \cup {[op |-> "request", job |-> jm.job, round |-> jm.round]}

(* update_total_demand_estimate: WATCH and read, unless there is no job.   *)
EstimateRead ==
  /\ jm.pc = "estimate" /\ jm.job \in live
  /\ jm' = [jm EXCEPT !.pc = "estimating", !.service = db[jm.job].attained_service]
  /\ UNCHANGED <<jobVars, calls, failed, sc, cm, dirty, book, restarts>>

EstimateSkip ==
  /\ jm.pc = "estimate" /\ jm.job \notin live
  /\ AwaitScheduler
  /\ UNCHANGED <<jobVars, failed, sc, cm, dirty, book, restarts>>

(* ... and EXEC, or start over.                                            *)
EstimateExec ==
  LET j == jm.job IN
  /\ jm.pc = "estimating" /\ JM \notin dirty
  /\ db' = [db EXCEPT ![j] = Estimated(@, jm.service, jm.demand)]
  /\ dirty' = Touched({j}) \ {JM}
  /\ AwaitScheduler
  /\ UNCHANGED <<live, ttl, silent, job_total_num, known, offered, failed, sc, cm,
                 book, restarts>>

(* Mutant of EstimateRetry: EXEC is tried again without reading again.     *)
EstimateRetryStale ==
  /\ jm.pc = "estimating" /\ JM \in dirty
  /\ dirty' = dirty \ {JM}
  /\ UNCHANGED <<jobVars, jm, calls, failed, sc, cm, book, restarts>>

EstimateRetry ==
  /\ jm.pc = "estimating" /\ JM \in dirty
  /\ jm' = [jm EXCEPT !.pc = "estimate"]
  /\ dirty' = dirty \ {JM}
  /\ UNCHANGED <<jobVars, calls, failed, sc, cm, book, restarts>>

(* JOB_END_REQUEST: WATCH and read.  Without a document, or with a round   *)
(* already closed, the handler answers and changes nothing.                *)
EndRequestRead(j) ==
  /\ Idle /\ j \in known /\ j \in live /\ Open(db[j])
  /\ jm' = [NoJm EXCEPT !.pc = "ending", !.job = j, !.demand = db[j].demand]
  /\ UNCHANGED <<jobVars, calls, failed, sc, cm, dirty, book, restarts>>

(* Mutant of EndRequestExec: the key is not watched.                       *)
EndRequestExecUnwatched ==
  LET j == jm.job IN
  /\ jm.pc = "ending"
  /\ db' = [db EXCEPT ![j] = Ended(@, jm.demand)]
  /\ WritePage(j, db[j].round, ClosedPage(book[j][db[j].round]))
  /\ dirty' = Touched({j}) \ {JM}
  /\ jm' = NoJm
  /\ UNCHANGED <<live, ttl, silent, job_total_num, known, offered, calls, failed, sc,
                 cm, restarts>>

(* ... and EXEC, or start over, which may find the round closed.           *)
EndRequestExec ==
  LET j == jm.job IN
  /\ jm.pc = "ending" /\ JM \notin dirty
  /\ db' = [db EXCEPT ![j] = Ended(@, jm.demand)]
  /\ WritePage(j, db[j].round, ClosedPage(book[j][db[j].round]))
  /\ dirty' = Touched({j}) \ {JM}
  /\ jm' = NoJm
  /\ UNCHANGED <<live, ttl, silent, job_total_num, known, offered, calls, failed, sc,
                 cm, restarts>>

EndRequestRetry ==
  /\ jm.pc = "ending" /\ JM \in dirty
  /\ jm' = IF Open(db[jm.job]) THEN jm ELSE NoJm
  /\ dirty' = dirty \ {JM}
  /\ UNCHANGED <<jobVars, calls, failed, sc, cm, book, restarts>>

(* JOB_FINISH.  Without a document nothing changes.                        *)
JobFinish(j) ==
  /\ Idle /\ j \in known /\ j \in live
  /\ Remove({j})
  /\ UNCHANGED <<job_total_num, known, offered, jm, calls, failed, sc, cm, book, restarts>>

(* Mutant of Prunable: the test on start_sched is reversed.                *)
PrunableUnstarted == {j \in silent : ~(db[j].start_sched > 0)}

(* heartbeat_routine: prune removes the jobs that have been silent too     *)
(* long since they last started a round.                                   *)
Prunable == {j \in silent : db[j].start_sched > 0}

Prune ==
  /\ Idle /\ Prunable # {}
  /\ Remove(Prunable)
  /\ UNCHANGED <<job_total_num, known, offered, jm, calls, failed, sc, cm, book, restarts>>

(* The job manager process stops and starts again: it empties the database *)
(* and counts ids from zero, while jobs, clients and the other services    *)
(* keep what they hold.  Its handlers die, and with them the calls that    *)
(* the scheduler has not begun to handle.                                  *)
JobManagerRestart ==
  /\ restarts < MaxRestart
  /\ restarts' = restarts + 1
  /\ Remove(live)
  /\ job_total_num' = 0
  /\ jm' = NoJm
  /\ calls' = {}
  /\ book' = [j \in Job |-> [r \in Round |-> NoPage]]
  /\ UNCHANGED <<known, offered, failed, sc, cm>>

(* Time passes: job_max_silent_time since the last request of the job, or  *)
(* since its registration if it never sent one.                            *)
FallSilent(j) ==
  /\ j \in live \ silent
  /\ silent' = silent \cup {j}
  /\ UNCHANGED <<live, db, ttl, job_total_num, known, offered, jm, calls, failed, sc,
                 cm, dirty, book, restarts>>

-----------------------------------------------------------------------------
(* Scheduler.  It handles one call at a time between awaits.               *)

(* The handler returns, and so does the one of the job manager that        *)
(* awaited it: a registering job learns its id.                            *)
Answer(c) ==
  /\ calls' = calls \ {c}
  /\ known' = IF c.op = "regist" THEN known \cup {c.job} ELSE known
  /\ UNCHANGED failed

(* set_score(): writes into a document, never creates one.                 *)
SetScore(j, score) ==
  /\ db' = IF j \in live THEN [db EXCEPT ![j].score = score] ELSE db
  /\ dirty' = IF j \in live THEN Touched({j}) ELSE dirty

(* Mutant of RegistScore: later jobs rank higher.                          *)
RegistScoreLastFirst(j) == IF Alg = "fifo" THEN {j - MaxJobs} ELSE {0, 1}

(* online() of the fifo and random schedulers ranks a registering job, by  *)
(* the time it registered (ids are handed out in that order) or at random. *)
RegistScore(j) == IF Alg = "fifo" THEN {-1 - j} ELSE {0, 1}

ScRank(c) ==
  /\ sc.pc = "idle" /\ c.op = "regist" /\ Alg \in {"fifo", "random"}
  /\ Alg = "fifo" => c.job \in live
  /\ \E score \in RegistScore(c.job) : SetScore(c.job, score)
  /\ Answer(c)
  /\ UNCHANGED <<live, ttl, silent, job_total_num, offered, jm, sc, cm, book, restarts>>

(* Mutant of ScPass: a call about a job that is gone stays unanswered.     *)
ScPassLive(c) ==
  /\ sc.pc = "idle" /\ c.job \in live
  /\ Answer(c)
  /\ UNCHANGED <<live, db, ttl, silent, job_total_num, offered, jm, sc, cm, dirty,
                 book, restarts>>

(* A call on which online() does nothing.                                  *)
ScPass(c) ==
  /\ sc.pc = "idle"
  /\ Alg \notin (IF c.op = "regist" THEN {"fifo", "random"} ELSE {"srsf"})
  /\ Answer(c)
  /\ UNCHANGED <<live, db, ttl, silent, job_total_num, offered, jm, sc, cm, dirty,
                 book, restarts>>

(* The first read of a document that is gone raises (float(None),          *)
(* int(None)) and so does the handler of the job manager that awaits: the  *)
(* job gets an error and no answer.                                        *)
ScMissing(c) ==
  /\ sc.pc = "idle" /\ c.job \notin live
  /\ Alg = (IF c.op = "request" THEN "srsf" ELSE "fifo")
  /\ calls' = calls \ {c}
  /\ failed' = failed \cup {c}
  /\ UNCHANGED <<jobVars, jm, sc, cm, dirty, book, restarts>>

(* Mutant of ScDemand: the wrong field is read.                            *)
ScDemandTotal(c) ==
  /\ sc.pc = "idle" /\ c.op = "request" /\ Alg = "srsf" /\ c.job \in live
  /\ calls' = calls \ {c}
  /\ sc' = [NoSc EXCEPT !.pc = "demand", !.call = c, !.demand = db[c.job].total_demand]
  /\ UNCHANGED <<jobVars, jm, failed, cm, dirty, book, restarts>>

(* online() of the srsf scheduler for a request: read demand, read amount, *)
(* set the score.                                                          *)
ScDemand(c) ==
  /\ sc.pc = "idle" /\ c.op = "request" /\ Alg = "srsf" /\ c.job \in live
  /\ calls' = calls \ {c}
  /\ sc' = [NoSc EXCEPT !.pc = "demand", !.call = c, !.demand = db[c.job].demand]
  /\ UNCHANGED <<jobVars, jm, failed, cm, dirty, book, restarts>>

ScAmount ==
  /\ sc.pc = "demand" /\ sc.call.job \in live
  /\ sc' = [sc EXCEPT !.pc = "amount", !.amount = db[sc.call.job].amount]
  /\ UNCHANGED <<jobVars, jm, calls, failed, cm, dirty, book, restarts>>

ScGone ==
  /\ sc.pc = "demand" /\ sc.call.job \notin live
  /\ failed' = failed \cup {sc.call}
  /\ sc' = NoSc
  /\ UNCHANGED <<jobVars, jm, calls, cm, dirty, book, restarts>>

ScScore ==
  LET remain == sc.demand - sc.amount IN
  /\ sc.pc = "amount"
  /\ SetScore(sc.call.job, IF remain > 0 THEN -remain ELSE 0)
  /\ sc' = NoSc
  /\ UNCHANGED <<live, ttl, silent, job_total_num, known, offered, jm, calls, failed,
                 cm, book, restarts>>

-----------------------------------------------------------------------------
(* Client managers: CLIENT_ACCEPT of a client that was offered job j runs  *)
(* incr_amount.  Without a document the answer is a refusal at once.       *)

StartTxn(m, j) ==
  cm' = [cm EXCEPT ![m] = [NoTxn EXCEPT !.pc = "amount", !.job = j,
                                        !.amount = db[j].amount]]

AbandonTxn(m) ==
  /\ cm' = [cm EXCEPT ![m] = NoTxn]
  /\ dirty' = dirty \ {m}

(* WATCH and read the amount.                                              *)
AcceptAmount(m, j) ==
  /\ cm[m].pc = "idle" /\ j \in offered /\ j \in live
  /\ StartTxn(m, j)
  /\ UNCHANGED <<jobVars, jm, calls, failed, sc, dirty, book, restarts>>

(* Read the demand and the round; amount and demand may be of different    *)
(* rounds by now.                                                          *)
AcceptDemand(m) ==
  LET j == cm[m].job IN
  /\ cm[m].pc = "amount" /\ j \in live /\ cm[m].amount < db[j].demand
  /\ cm' = [cm EXCEPT ![m] = [@ EXCEPT !.pc = "exec", !.demand = db[j].demand,
                                       !.round = db[j].round]]
  /\ UNCHANGED <<jobVars, jm, calls, failed, sc, dirty, book, restarts>>

(* Mutant of AcceptRefuse: off by one, a full round refuses nobody.        *)
AcceptRefuseOverfull(m) ==
  LET j == cm[m].job IN
  /\ cm[m].pc = "amount" /\ (j \in live => cm[m].amount > db[j].demand)
  /\ AbandonTxn(m)
  /\ UNCHANGED <<jobVars, jm, calls, failed, sc, book, restarts>>

(* The refusals: the document is gone or there seems to be no place left.  *)
AcceptRefuse(m) ==
  LET j == cm[m].job IN
  /\ cm[m].pc = "amount" /\ (j \in live => cm[m].amount >= db[j].demand)
  /\ AbandonTxn(m)
  /\ UNCHANGED <<jobVars, jm, calls, failed, sc, book, restarts>>

(* Mutant of AcceptExec: the key is not watched.                           *)
AcceptExecUnwatched(m) ==
  LET j == cm[m].job
      r == cm[m].round
  IN
  /\ cm[m].pc = "exec" /\ j \in live
  /\ db' = [db EXCEPT ![j] = Incremented(@, cm[m].amount, cm[m].demand)]
  /\ WritePage(j, r, PageLetIn(book[j][r], db'[j]))
  /\ dirty' = Touched({j}) \ {m}
  /\ cm' = [cm EXCEPT ![m] = NoTxn]
  /\ UNCHANGED <<live, ttl, silent, job_total_num, known, offered, jm, calls, failed,
                 sc, restarts>>

(* EXEC: the client is counted and told the round that was read.           *)
AcceptExec(m) ==
  LET j == cm[m].job
      r == cm[m].round
  IN
  /\ cm[m].pc = "exec" /\ m \notin dirty
  /\ db' = [db EXCEPT ![j] = Incremented(@, cm[m].amount, cm[m].demand)]
  /\ WritePage(j, r, PageLetIn(book[j][r], db'[j]))
  /\ dirty' = Touched({j}) \ {m}
  /\ cm' = [cm EXCEPT ![m] = NoTxn]
  /\ UNCHANGED <<live, ttl, silent, job_total_num, known, offered, jm, calls, failed,
                 sc, restarts>>

(* Mutant of AcceptRetry: EXEC is tried again without reading again.       *)
AcceptRetryStale(m) ==
  /\ cm[m].pc = "exec" /\ m \in dirty
  /\ dirty' = dirty \ {m}
  /\ UNCHANGED <<jobVars, jm, calls, failed, sc, cm, book, restarts>>

(* EXEC fails: start over.                                                 *)
AcceptRetry(m) ==
  LET j == cm[m].job IN
  /\ cm[m].pc = "exec" /\ m \in dirty
  /\ dirty' = dirty \ {m}
  /\ IF j \in live THEN StartTxn(m, j) ELSE cm' = [cm EXCEPT ![m] = NoTxn]
  /\ UNCHANGED <<jobVars, jm, calls, failed, sc, book, restarts>>

-----------------------------------------------------------------------------
JobManagerStretch == EstimateRead \/ EstimateSkip \/ EstimateExec \/ EstimateRetry
                       \/ EndRequestExec \/ EndRequestRetry

SchedulerTake(c) == ScRank(c) \/ ScPass(c) \/ ScMissing(c) \/ ScDemand(c)

SchedulerStretch == ScAmount \/ ScGone \/ ScScore

AcceptStep(m) == AcceptDemand(m) \/ AcceptRefuse(m) \/ AcceptExec(m) \/ AcceptRetry(m)

Next ==
  \/ \E d \in Demand, t \in TotalRound : JobRegist(d, t)
  \/ \E j \in Job, d \in Demand :
       JobRequest(j, d) \/ JobRequestFinal(j, d) \/ JobRequestMissing(j, d)
  \/ \E j \in Job : EndRequestRead(j) \/ JobFinish(j) \/ FallSilent(j)
  \/ JobManagerStretch \/ Prune \/ JobManagerRestart
  \/ \E c \in calls : SchedulerTake(c)
  \/ SchedulerStretch
  \/ \E m \in CM, j \in Job : AcceptAmount(m, j)
  \/ \E m \in CM : AcceptStep(m)

Spec == Init /\ [][Next]_vars

(* The event loops run what is ready in FIFO order: a stretch goes on, a   *)
(* handler that arrived is run, and so is the pruning of the heartbeat     *)
(* routine.  Nothing makes jobs, clients or time do anything.              *)
Fairness ==
  /\ WF_vars(JobManagerStretch) /\ WF_vars(SchedulerStretch)
  /\ \A m \in CM : WF_vars(AcceptStep(m))
  /\ \A c \in Call : SF_vars(c \in calls /\ SchedulerTake(c))
  /\ SF_vars(Prune)

FairSpec == Spec /\ Fairness

-----------------------------------------------------------------------------
(* Safety.                                                                 *)

(* No round gets more clients than it asked for, however the transactions  *)
(* of client managers, end_request and new rounds interleave, and also     *)
(* when a round is answered for that is over.                              *)
NoOverAllocation ==
  \A j \in Job, r \in Round : book[j][r].given <= book[j][r].asked

(* The amount in the document of an open round is the number of clients    *)
(* that were told they are in this very round; the amount of a closed one  *)
(* is its demand, which the clients let in may not reach.                  *)
AmountCountsClients ==
  \A j \in live :
    LET doc  == db[j]
        page == book[j][doc.round]
    IN  IF doc.round = -1 THEN doc.amount = 0 /\ doc.demand = 0
        ELSE /\ page.asked = doc.demand
             /\ page.closed = ~Open(doc)
             /\ IF page.closed THEN doc.amount = doc.demand ELSE doc.amount = page.given

(* Every closed round is settled exactly once, and a round that the next   *)
(* request cut off never: the service and the number of scheduling         *)
(* intervals of a job are those of its closed rounds, whether the last     *)
(* client or end_request closed them.                                      *)
ClosedRounds(j) == {r \in Round : book[j][r].closed}

ServiceIsClosedRounds ==
  \A j \in live :
    /\ db[j].total_sched = Cardinality(ClosedRounds(j))
    /\ db[j].attained_service
         = MapThenSumSet(LAMBDA r : book[j][r].asked, ClosedRounds(j))

(* Unless the job manager is at work on the job, the estimate of the total *)
(* demand of a job that announced its rounds and stays within them covers  *)
(* the service attained and the demand of the open round, although the     *)
(* attained service moves while the estimate is computed.                  *)
EstimateCoversRound ==
  \A j \in live :
    (/\ db[j].round \in Round /\ db[j].round < db[j].total_round
     /\ jm.job = j => jm.pc \notin {"estimate", "estimating"})
      => db[j].total_demand >=
           db[j].attained_service + (IF Open(db[j]) THEN db[j].demand ELSE 0)

(* FIFO: among the jobs clients may be offered, one that registered        *)
(* earlier ranks strictly higher.  A job that was not ranked yet would     *)
(* rank above all others, so no round may open before the scheduler has    *)
(* answered the registration.                                              *)
OpenJobsInFifoOrder ==
  \A i, j \in live :
    i < j /\ Open(db[i]) /\ Open(db[j]) => db[i].score > db[j].score

(* SRSF: once the scheduler has dealt with every request of a job, its     *)
(* score is the demand of its current round, or less by clients of this    *)
(* round, and never that of an earlier round, in whatever order the        *)
(* requests were handled.                                                  *)
Ranked(j) ==
  /\ db[j].round \in Round
  /\ \A c \in calls : c.job # j
  /\ sc.pc # "idle" => sc.call.job # j
  /\ jm.pc \in {"estimate", "estimating"} => jm.job # j

ScoreTracksOpenRound ==
  \A j \in live :
    Ranked(j) => -db[j].score \in (db[j].demand - db[j].amount) .. db[j].demand

-----------------------------------------------------------------------------
(* Refinement: the processes and their optimistic transactions keep the    *)
(* ledger, each commit being one step of it.                               *)
Ledger == INSTANCE JobLedger WITH
            jobs    <- live,
            round   <- [j \in Job |-> db[j].round],
            left    <- [j \in Job |-> db[j].demand - db[j].amount],
            service <- [j \in Job |-> db[j].attained_service],
            settled <- [j \in Job |-> db[j].total_sched]

ImplementsLedger == Ledger!Spec

-----------------------------------------------------------------------------
(* Liveness.                                                               *)

(* Every acceptance is answered, although its transaction may start over.  *)
AcceptAnswered == \A m \in CM : cm[m].pc # "idle" ~> cm[m].pc = "idle"

(* Every registration and request that got as far as the scheduler is      *)
(* answered, with an error at worst.                                       *)
CallsAnswered == \A c \in Call : c \in calls ~> c \notin calls

(* A job that has started a round and falls silent starts another one or   *)
(* is removed.                                                             *)
SilentStartedPruned ==
  \A j \in Job : j \in silent /\ db[j].start_sched > 0 ~> j \notin silent

=============================================================================
