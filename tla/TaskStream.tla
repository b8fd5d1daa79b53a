----------------------------- MODULE TaskStream -----------------------------
(***************************************************************************)
(* What the parameter server of an evaluation job promises the executor:   *)
(* the order in which it registers tasks.  An attempt at a round is a      *)
(* train task for each result, of different clients, and then either an    *)
(* aggregate task, after which comes the next round, or a failure, after   *)
(* which the round is tried again.  A finish task ends the stream between  *)
(* two attempts.                                                           *)
(*                                                                         *)
(* EvalRound implements it, and Executor is driven by it.                  *)
(***************************************************************************)
EXTENDS Integers, FiniteSets

CONSTANTS
  Job,
  Client,
  Rounds,    \* job -> rounds it wants
  Demand     \* job -> results a round needs

ASSUME StreamAssumption ==
  /\ Rounds \in [Job -> Nat] /\ Demand \in [Job -> Nat]
  /\ IsFiniteSet(Client)

VARIABLES
  round,     \* job -> its round, from 1
  results,   \* job -> clients with a train task in this attempt
  count,     \* job -> results the parameter server counts for this attempt
  ended      \* job -> the finish task is registered

streamVars == <<round, results, count, ended>>

StreamTypeOK ==
  /\ round \in [Job -> Nat \ {0}]
  /\ results \in [Job -> SUBSET Client]
  /\ count \in [Job -> Nat]
  /\ ended \in [Job -> BOOLEAN]

Init ==
  /\ round = [j \in Job |-> 1]
  /\ results = [j \in Job |-> {}]
  /\ count = [j \in Job |-> 0]
  /\ ended = [j \in Job |-> FALSE]

Open(j) == ~ended[j] /\ round[j] <= Rounds[j]

Train(j, c) ==
  /\ Open(j) /\ c \notin results[j] /\ count[j] <= Demand[j]
  /\ results' = [results EXCEPT ![j] = @ \cup {c}]
  /\ count' = [count EXCEPT ![j] = @ + 1]
  /\ UNCHANGED <<round, ended>>

(* The executor could not be reached: the result counts nevertheless.      *)
TrainLost(j) ==
  /\ Open(j) /\ count[j] <= Demand[j]
  /\ count' = [count EXCEPT ![j] = @ + 1]
  /\ UNCHANGED <<round, results, ended>>

NewAttempt(j) ==
  /\ results' = [results EXCEPT ![j] = {}]
  /\ count' = [count EXCEPT ![j] = 0]
  /\ UNCHANGED ended

Aggregate(j) ==
  /\ Open(j) /\ count[j] >= Demand[j]
  /\ round' = [round EXCEPT ![j] = @ + 1]
  /\ NewAttempt(j)

RoundFail(j) == Open(j) /\ NewAttempt(j) /\ UNCHANGED round

(* The job is over: all rounds are done, or it has been given up.          *)
Finish(j) ==
  /\ ~ended[j] /\ results[j] = {}
  /\ ended' = [ended EXCEPT ![j] = TRUE]
  /\ UNCHANGED <<round, results, count>>

Next == \E j \in Job :
  \/ \E c \in Client : Train(j, c)
  \/ TrainLost(j) \/ Aggregate(j) \/ RoundFail(j) \/ Finish(j)

Spec == Init /\ [][Next]_streamVars
=============================================================================
