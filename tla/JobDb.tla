------------------------------- MODULE JobDb --------------------------------
(***************************************************************************)
(* The job document that Propius keeps in the Redis job database (one JSON *)
(* value per job, key "job:<id>") and what each database transaction       *)
(* writes into it.  The operators here are pure: JobControl says which     *)
(* process runs which of them, on which snapshot, and when.                *)
(*                                                                         *)
(* Data is abstracted to what the properties tell apart.  Wall-clock time  *)
(* is reduced to "never" (0) and "some time" (1), so total_sched counts    *)
(* the scheduling intervals added to it instead of their length, and the   *)
(* constraints and the address of the parameter server, which no           *)
(* transaction changes, are left out.                                      *)
(***************************************************************************)
EXTENDS Integers

Doc == [total_sched      : Nat,     \* number of scheduling intervals added
        start_sched      : {0, 1},  \* 0 until the first round request
        total_demand     : Nat,     \* estimate of the whole job's demand
        total_round      : Nat,     \* rounds announced at registration, 0: unknown
        attained_service : Nat,     \* demand of the rounds closed so far
        round            : Int,     \* -1 until the first round request
        demand           : Nat,     \* clients asked for in the current round
        amount           : Nat,     \* clients counted as allocated to it
        score            : Int]     \* rank given by the online scheduler

(* What an id reads as when there is no document under its key. *)
NoDoc == [total_sched |-> 0, start_sched |-> 0, total_demand |-> 0,
          total_round |-> 0, attained_service |-> 0, round |-> -1,
          demand |-> 0, amount |-> 0, score |-> 0]

(* The document written by JM_job_db_portal.register.  The estimate of the *)
(* total demand is computed by JOB_REGIST from the announced values.       *)
RegisteredDoc(est_demand, total_round) ==
  [NoDoc EXCEPT !.total_demand = IF total_round > 0
                                 THEN est_demand * total_round
                                 ELSE 2 * est_demand,
                !.total_round  = total_round]

(* Allocation of the current round is still open.                          *)
Open(doc) == doc.amount < doc.demand

(* Mutants of Requested: the count of the last round is kept; the score    *)
(* falls back to its initial value.                                        *)
RequestedKeepsAmount(doc, demand) ==
  [doc EXCEPT !.round = @ + 1, !.demand = demand, !.start_sched = 1]

RequestedResetsScore(doc, demand) ==
  [doc EXCEPT !.round = @ + 1, !.demand = demand, !.amount = 0,
              !.start_sched = 1, !.score = 0]

(* The transaction of request(): a new round starts from zero.             *)
Requested(doc, demand) ==
  [doc EXCEPT !.round = @ + 1, !.demand = demand, !.amount = 0,
              !.start_sched = 1]

(* request() refuses the round after the last one when the configuration   *)
(* does not allow a job to exceed its total round.                         *)
FinalRound(doc, max_round) ==
  LET cur_round == doc.round + 1
  IN  \/ doc.total_round > 0 /\ cur_round >= doc.total_round
      \/ doc.total_round = 0 /\ cur_round >= max_round

(* Mutant of Estimated: the current round is not counted as to come.       *)
EstimatedAfterRound(doc, attained_service, demand) ==
  [doc EXCEPT !.total_demand =
     IF doc.total_round > 0
     THEN attained_service + (doc.total_round - doc.round - 1) * demand
     ELSE attained_service + demand]

(* The estimate that update_total_demand_estimate() writes, from the       *)
(* attained service it has read.                                           *)
Estimated(doc, attained_service, demand) ==
  LET left == doc.total_round - doc.round
      twice == 2 * attained_service
  IN  [doc EXCEPT !.total_demand =
         IF doc.total_round > 0
         THEN attained_service + (IF left > 0 THEN left ELSE 0) * demand
         ELSE IF twice > demand THEN twice ELSE demand]

(* What both end_request() and the acceptance of the last client add when  *)
(* a round of the given demand closes.                                     *)
Settled(doc, demand) ==
  [doc EXCEPT !.total_sched = @ + 1, !.attained_service = @ + demand]

(* The transaction of end_request(), from the demand it has read.          *)
Ended(doc, demand) == [Settled(doc, demand) EXCEPT !.amount = demand]

(* Mutant of Incremented: the last place does not settle the round.        *)
IncrementedOnly(doc, amount, demand) == [doc EXCEPT !.amount = @ + 1]

(* The transaction of incr_amount(), from the amount and demand it read.   *)
Incremented(doc, amount, demand) ==
  IF amount = demand - 1
  THEN [Settled(doc, demand) EXCEPT !.amount = @ + 1]
  ELSE [doc EXCEPT !.amount = @ + 1]
=============================================================================
