------------------------------ MODULE JobLedger -----------------------------
(***************************************************************************)
(* What the job database promises, with every transaction a single step:   *)
(* an account of each job's rounds.  A round has as many places as it      *)
(* asked for; a client takes one place of the round that is open, or none; *)
(* a round that has no place left is closed, once, and its demand is added *)
(* to the service of the job then and only then.                           *)
(*                                                                         *)
(* JobControl implements it with optimistic transactions of several        *)
(* processes.                                                              *)
(***************************************************************************)
EXTENDS Integers

CONSTANTS Job, Round, Demand

VARIABLES
  jobs,      \* the jobs that are in the database
  round,     \* job -> its current round, -1 before the first
  left,      \* job -> places left in it
  service,   \* job -> demand of its closed rounds
  settled,   \* job -> number of its closed rounds
  book       \* job -> round -> demand asked, clients let in, closed or not

ledgerVars == <<jobs, round, left, service, settled, book>>

Blank == [asked |-> 0, given |-> 0, closed |-> FALSE]

WritePage(j, r, page) == book' = [book EXCEPT ![j] = [@ EXCEPT ![r] = page]]

(* The account of a job that is not in the database.                       *)
NoAccount(js) ==
  /\ round'   = [j \in Job |-> IF j \in js THEN -1 ELSE round[j]]
  /\ left'    = [j \in Job |-> IF j \in js THEN 0 ELSE left[j]]
  /\ service' = [j \in Job |-> IF j \in js THEN 0 ELSE service[j]]
  /\ settled' = [j \in Job |-> IF j \in js THEN 0 ELSE settled[j]]

Init ==
  /\ jobs = {}
  /\ round = [j \in Job |-> -1]
  /\ left = [j \in Job |-> 0]
  /\ service = [j \in Job |-> 0]
  /\ settled = [j \in Job |-> 0]
  /\ book = [j \in Job |-> [r \in Round |-> Blank]]

Enter(j) ==
  /\ j \notin jobs
  /\ jobs' = jobs \cup {j}
  /\ UNCHANGED <<round, left, service, settled, book>>

NewRound(j, demand) ==
  /\ j \in jobs /\ round[j] + 1 \in Round
  /\ round' = [round EXCEPT ![j] = @ + 1]
  /\ left' = [left EXCEPT ![j] = demand]
  /\ WritePage(j, round[j] + 1, [Blank EXCEPT !.asked = demand])
  /\ UNCHANGED <<jobs, service, settled>>

(* The current round of j has no place any more, with given clients in it. *)
Close(j, given) ==
  /\ left' = [left EXCEPT ![j] = 0]
  /\ service' = [service EXCEPT ![j] = @ + book[j][round[j]].asked]
  /\ settled' = [settled EXCEPT ![j] = @ + 1]
  /\ WritePage(j, round[j], [book[j][round[j]] EXCEPT !.given = given, !.closed = TRUE])

(* A client takes a place, perhaps the last one.                           *)
LetIn(j) ==
  /\ j \in jobs /\ left[j] > 0
  /\ \/ /\ left[j] > 1
        /\ left' = [left EXCEPT ![j] = @ - 1]
        /\ WritePage(j, round[j], [book[j][round[j]] EXCEPT !.given = @ + 1])
        /\ UNCHANGED <<service, settled>>
     \/ left[j] = 1 /\ Close(j, book[j][round[j]].given + 1)
  /\ UNCHANGED <<jobs, round>>

(* The job ends its round early.                                           *)
EndEarly(j) ==
  /\ j \in jobs /\ left[j] > 0
  /\ Close(j, book[j][round[j]].given)
  /\ UNCHANGED <<jobs, round>>

(* Jobs leave the database; what they were given stays on record.          *)
Leave(js) ==
  /\ jobs' = jobs \ js
  /\ NoAccount(js)
  /\ UNCHANGED book

(* The database is emptied and the accounts start again.                   *)
Wipe ==
  /\ jobs' = {}
  /\ NoAccount(Job)
  /\ book' = [j \in Job |-> [r \in Round |-> Blank]]

Next ==
  \/ \E j \in Job : Enter(j) \/ LetIn(j) \/ EndEarly(j)
  \/ \E j \in Job, d \in Demand : NewRound(j, d)
  \/ \E js \in SUBSET jobs : Leave(js)
  \/ Wipe

Spec == Init /\ [][Next]_ledgerVars
=============================================================================
