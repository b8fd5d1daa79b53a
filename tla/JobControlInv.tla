--------------------------- MODULE JobControlInv ----------------------------
(***************************************************************************)
(* The inductive invariant behind the safety of JobControl: what the       *)
(* processes may rely on between the commands of a transaction.            *)
(***************************************************************************)
EXTENDS JobControl

(* An id without document reads as nothing.                                *)
Blanks == \A j \in Job \ live : db[j] = NoDoc

(* A document is in a round that was opened, or in none.                   *)
RoundsOpened == \A j \in live : db[j].round \in Round \cup {-1}

(* What an untouched incr_amount transaction has read is what the database *)
(* holds: a transaction that read amount and demand of different rounds is *)
(* a touched one, whose EXEC fails.                                        *)
TxnFresh(t) ==
  /\ t.pc # "idle" => t.job \in live /\ t.amount = db[t.job].amount
  /\ t.pc = "exec" => /\ t.demand = db[t.job].demand
                      /\ t.round = db[t.job].round
                      /\ t.amount < t.demand

TxnsFresh == \A m \in CM \ dirty : TxnFresh(cm[m])

(* The job manager alone removes a job or changes its demand, so what it   *)
(* has read of them stays true; that the round is still open holds only    *)
(* while the key is untouched.                                             *)
EndingFresh ==
  /\ jm.pc \in {"estimating", "ending"} => jm.job \in live
  /\ jm.pc = "ending" => /\ jm.demand = db[jm.job].demand
                         /\ JM \notin dirty => Open(db[jm.job])

(* The inductive invariant: the counts are those of the clients let in     *)
(* (AmountCountsClients), no round has too many (NoOverAllocation), and    *)
(* the transactions that can still commit have read the present.           *)
IInv == /\ TypeOK
        /\ Blanks
        /\ RoundsOpened
        /\ AmountCountsClients
        /\ NoOverAllocation
        /\ TxnsFresh
        /\ EndingFresh

-----------------------------------------------------------------------------
(* What the service, the estimate and the ranks of jobs rest on.           *)

(* The id that register() takes next was not used since the database was   *)
(* emptied, and no round ahead of a job has been closed: so every round is *)
(* settled once (ServiceIsClosedRounds).                                   *)
ServiceInv ==
  /\ \A j \in Job : j >= job_total_num => j \notin live /\ ClosedRounds(j) = {}
  /\ \A j \in live : \A r \in ClosedRounds(j) : r <= db[j].round
  /\ ServiceIsClosedRounds

(* The job manager estimates with the demand of the open round and, if it  *)
(* can still commit, with the service attained by now                      *)
(* (EstimateCoversRound).                                                  *)
EstimateInv ==
  /\ jm.pc \in {"estimate", "estimating"} /\ jm.job \in live
       => jm.demand = db[jm.job].demand
  /\ jm.pc = "estimating" /\ JM \notin dirty
       => jm.service = db[jm.job].attained_service
  /\ EstimateCoversRound

(* A job only opens rounds after it learned its id, when the fifo scheduler *)
(* has ranked it (OpenJobsInFifoOrder).  A job that knows its id from       *)
(* before a restart of the job manager may be faster than the scheduler.    *)
RankedByNumber ==
  /\ \A j \in Job : j >= job_total_num => j \notin known
  /\ \A c \in calls : c.op = "regist" => c.job < job_total_num
  /\ \A j \in live : db[j].round # -1 => j \in known
  /\ \A j \in live \cap known : db[j].score = -1 - j

FifoInv == Alg = "fifo" => sc.pc = "idle" /\ (restarts = 0 => RankedByNumber)

(* Once the scheduler has taken every request of a job, it has read the    *)
(* demand of the current round and at most its present amount, or has      *)
(* written a score from them (ScoreTracksOpenRound).                       *)
RequestsTaken(j) ==
  /\ db[j].round \in Round
  /\ \A c \in calls : c.op = "request" => c.job # j
  /\ jm.pc \in {"estimate", "estimating"} => jm.job # j

RankOf(j) ==
  IF sc.pc # "idle" /\ sc.call.job = j
  THEN sc.demand = db[j].demand /\ (sc.pc = "amount" => sc.amount <= db[j].amount)
  ELSE -db[j].score \in (db[j].demand - db[j].amount) .. db[j].demand

SrsfInv == Alg = "srsf" => \A j \in live : RequestsTaken(j) => RankOf(j)

(* All of it, inductive.                                                   *)
ControlInv == IInv /\ ServiceInv /\ EstimateInv /\ FifoInv /\ SrsfInv
=============================================================================
