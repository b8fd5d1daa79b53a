-------------------------- MODULE JobControlProofs --------------------------
(***************************************************************************)
(* Proofs about JobControl, for every number of jobs, rounds, client       *)
(* managers and restarts and every set of demands.                         *)
(***************************************************************************)
EXTENDS JobControlInv, TLAPS

-----------------------------------------------------------------------------
(* The document transactions keep the type of a document.                  *)

LEMMA NoDocType == NoDoc \in Doc
  BY DEF NoDoc, Doc

LEMMA DocTypes ==
  ASSUME NEW doc \in Doc, NEW n \in Nat, NEW d \in Nat
  PROVE  /\ Requested(doc, d) \in Doc
         /\ Settled(doc, d) \in Doc
         /\ Ended(doc, d) \in Doc
         /\ Incremented(doc, n, d) \in Doc
         /\ RegisteredDoc(n, d) \in Doc
         /\ Estimated(doc, n, d) \in Doc
  <1>1. Requested(doc, d) \in Doc
    <2>1. doc.round + 1 \in Int
      BY DEF Doc
    <2> QED BY <2>1 DEF Doc, Requested
  <1>2. Settled(doc, d) \in Doc
    <2>1. doc.total_sched + 1 \in Nat /\ doc.attained_service + d \in Nat
      BY DEF Doc
    <2> QED BY <2>1 DEF Doc, Settled
  <1>3. Ended(doc, d) \in Doc
    BY <1>2 DEF Doc, Ended
  <1>4. Incremented(doc, n, d) \in Doc
    <2>1. [Settled(doc, d) EXCEPT !.amount = @ + 1] \in Doc
      BY <1>2 DEF Doc
    <2>2. [doc EXCEPT !.amount = @ + 1] \in Doc
      BY DEF Doc
    <2> QED BY <2>1, <2>2 DEF Incremented
  <1>5. RegisteredDoc(n, d) \in Doc
    <2>1. n * d \in Nat /\ 2 * n \in Nat
      OBVIOUS
    <2> QED BY <2>1, NoDocType DEF Doc, RegisteredDoc
  <1>6. Estimated(doc, n, d) \in Doc
    <2> DEFINE left == doc.total_round - doc.round
               e == IF doc.total_round > 0
                    THEN n + (IF left > 0 THEN left ELSE 0) * d
                    ELSE IF 2 * n > d THEN 2 * n ELSE d
    <2>1. (IF left > 0 THEN left ELSE 0) \in Nat
      BY DEF Doc
    <2>2. (IF left > 0 THEN left ELSE 0) * d \in Nat
      BY <2>1
    <2>3. e \in Nat
      BY <2>2
    <2>4. Estimated(doc, n, d) = [doc EXCEPT !.total_demand = e]
      BY DEF Estimated
    <2> HIDE DEF e
    <2> QED BY <2>3, <2>4 DEF Doc
  <1> QED BY <1>1, <1>2, <1>3, <1>4, <1>5, <1>6

-----------------------------------------------------------------------------
(* Type correctness.                                                       *)

LEMMA Bounds ==
  /\ MaxJobs \in Nat \ {0} /\ MaxRound \in Nat \ {0} /\ MaxRestart \in Nat
  /\ Job \subseteq Nat /\ 0 \in Job
  /\ Round \subseteq Nat
  /\ \A j \in Job : j + 1 \in 0 .. MaxJobs
  /\ \A d \in Demand : d \in Nat \ {0}
  /\ \A t \in TotalRound : t \in Nat
  BY ConstantsAssumption DEF ConstantsAssumption, Job, Round

LEMMA TouchedType ==
  ASSUME TypeOK, NEW S
  PROVE  Touched(S) \subseteq Party
  BY DEF TypeOK, Touched, Watching, Party

LEMMA BlankTypes ==
  /\ NoPage \in Page
  /\ NoJm \in JmState
  /\ NoTxn \in Txn
  /\ NoSc \in ScState
  BY Bounds DEF NoPage, Page, NoJm, JmState, NoTxn, Txn, NoSc, ScState, Call

LEMMA PageTypes ==
  ASSUME NEW page \in Page, NEW doc
  PROVE  PageLetIn(page, doc) \in Page /\ ClosedPage(page) \in Page
  <1>1. page.given + 1 \in Nat /\ (page.closed \/ ~Open(doc)) \in BOOLEAN
    BY DEF Page
  <1> QED BY <1>1 DEF Page, PageLetIn, ClosedPage

LEMMA WritePageType ==
  ASSUME TypeOK, NEW j \in Job, NEW r, NEW page, WritePage(j, r, page),
         r \in Round => page \in Page
  PROVE  book' \in [Job -> [Round -> Page]]
  BY DEF TypeOK, WritePage

LEMMA TypeInit == Init => TypeOK
  BY Bounds, BlankTypes, NoDocType DEF Init, TypeOK

LEMMA RemoveType ==
  ASSUME TypeOK, NEW S, Remove(S)
  PROVE  /\ live' \subseteq Job /\ silent' \subseteq live'
         /\ db' \in [Job -> Doc]
         /\ ttl' \subseteq Keys(Job)
         /\ dirty' \subseteq Party
  BY TouchedType, NoDocType DEF TypeOK, Remove

LEMMA SetScoreType ==
  ASSUME TypeOK, NEW j \in Job, NEW score \in Int, SetScore(j, score)
  PROVE  db' \in [Job -> Doc] /\ dirty' \subseteq Party
  <1>1. [db[j] EXCEPT !.score = score] \in Doc
    BY DEF TypeOK, Doc
  <1>2. [db EXCEPT ![j].score = score] \in [Job -> Doc]
    BY <1>1 DEF TypeOK
  <1> QED BY <1>2, TouchedType DEF SetScore, TypeOK

LEMMA StartTxnType ==
  ASSUME TypeOK, NEW m \in CM, NEW j \in Job, StartTxn(m, j)
  PROVE  cm' \in [CM -> Txn]
  <1>1. db[j].amount \in Nat
    BY DEF TypeOK, Doc
  <1>2. [NoTxn EXCEPT !.pc = "amount", !.job = j, !.amount = db[j].amount] \in Txn
    BY <1>1, BlankTypes DEF Txn
  <1> QED BY <1>2 DEF TypeOK, StartTxn

LEMMA TypeStep == TypeOK /\ [Next]_vars => TypeOK'
  <1> SUFFICES ASSUME TypeOK, [Next]_vars
               PROVE  TypeOK'
    OBVIOUS
  <1> USE DEF jobVars
  <1>1. ASSUME NEW d \in Demand, NEW t \in TotalRound, JobRegist(d, t)
        PROVE  TypeOK'
    <2> DEFINE j == job_total_num
               call == [op |-> "regist", job |-> j, round |-> -1]
    <2>1. RegisteredDoc(d, t) \in Doc
      BY Bounds, DocTypes, NoDocType
    <2>2. db' \in [Job -> Doc]
      BY <1>1, <2>1 DEF JobRegist, TypeOK
    <2>3. calls' \subseteq Call
      <3>1. call \in Call
        BY <1>1 DEF JobRegist, Call
      <3> QED BY <1>1, <3>1 DEF JobRegist, TypeOK
    <2>4. dirty' \subseteq Party
      BY <1>1, TouchedType DEF JobRegist
    <2>5. live' \subseteq Job /\ silent' \subseteq live' /\ ttl' \subseteq Keys(Job)
      BY <1>1 DEF JobRegist, TypeOK, Keys
    <2>6. job_total_num' \in 0 .. MaxJobs
      BY <1>1, Bounds DEF JobRegist
    <2> QED BY <1>1, <2>2, <2>3, <2>4, <2>5, <2>6 DEF JobRegist, TypeOK
  <1>2. ASSUME NEW j \in Job, NEW d \in Demand, NEW r \in Round \cup {-1},
               ThenEstimate(j, d, r)
        PROVE  jm' \in JmState
    BY <1>2, Bounds, BlankTypes DEF ThenEstimate, JmState
  <1>3. ASSUME NEW j \in Job, NEW d \in Demand, JobRequest(j, d)
        PROVE  TypeOK'
    <2> DEFINE round == db[j].round + 1
    <2>1. db[j] \in Doc /\ Requested(db[j], d) \in Doc
      BY Bounds, DocTypes DEF TypeOK
    <2>2. db' \in [Job -> Doc]
      BY <1>3, <2>1 DEF JobRequest, TypeOK
    <2>3. jm' \in JmState
      BY <1>2, <1>3 DEF JobRequest
    <2>4. book' \in [Job -> [Round -> Page]]
      <3>1. [NoPage EXCEPT !.asked = d] \in Page
        BY Bounds, BlankTypes DEF Page
      <3> QED BY <1>3, <3>1, WritePageType DEF JobRequest
    <2>5. dirty' \subseteq Party
      BY <1>3, TouchedType DEF JobRequest
    <2> QED BY <1>3, <2>2, <2>3, <2>4, <2>5 DEF JobRequest, TypeOK
  <1>4. ASSUME NEW j \in Job, NEW d \in Demand, JobRequestFinal(j, d)
        PROVE  TypeOK'
    <2>1. jm' \in JmState
      BY <1>2, <1>4 DEF JobRequestFinal
    <2> QED BY <1>4, <2>1, RemoveType DEF JobRequestFinal, TypeOK
  <1>5. ASSUME NEW j \in Job, NEW d \in Demand, JobRequestMissing(j, d)
        PROVE  TypeOK'
    <2>1. jm' \in JmState
      BY <1>2, <1>5 DEF JobRequestMissing
    <2> QED BY <1>5, <2>1 DEF JobRequestMissing, TypeOK
  <1>6. ASSUME AwaitScheduler
        PROVE  jm' \in JmState /\ calls' \subseteq Call
    <2>1. [op |-> "request", job |-> jm.job, round |-> jm.round] \in Call
      BY DEF TypeOK, JmState, Call
    <2> QED BY <1>6, <2>1, BlankTypes DEF AwaitScheduler, TypeOK
  <1>7. CASE EstimateRead
    <2>1. jm.job \in Job /\ db[jm.job].attained_service \in Nat
      BY DEF TypeOK, JmState, Doc
    <2>2. jm' \in JmState
      BY <1>7, <2>1 DEF EstimateRead, TypeOK, JmState
    <2> QED BY <1>7, <2>2 DEF EstimateRead, TypeOK
  <1>8. CASE EstimateSkip
    BY <1>6, <1>8 DEF EstimateSkip, TypeOK
  <1>9. CASE EstimateExec
    <2>1. jm.job \in Job /\ jm.service \in Nat /\ jm.demand \in Nat
      BY DEF TypeOK, JmState
    <2>2. Estimated(db[jm.job], jm.service, jm.demand) \in Doc
      BY <2>1, DocTypes DEF TypeOK
    <2>3. db' \in [Job -> Doc]
      BY <1>9, <2>2 DEF EstimateExec, TypeOK
    <2>4. dirty' \subseteq Party
      BY <1>9, TouchedType DEF EstimateExec
    <2> QED BY <1>6, <1>9, <2>3, <2>4 DEF EstimateExec, TypeOK
  <1>10. CASE EstimateRetry
    <2>1. jm' \in JmState
      BY <1>10 DEF EstimateRetry, TypeOK, JmState
    <2> QED BY <1>10, <2>1 DEF EstimateRetry, TypeOK
  <1>11. ASSUME NEW j \in Job, EndRequestRead(j)
         PROVE  TypeOK'
    <2>1. db[j].demand \in Nat
      BY DEF TypeOK, Doc
    <2>2. jm' \in JmState
      BY <1>11, <2>1, BlankTypes DEF EndRequestRead, JmState
    <2> QED BY <1>11, <2>2 DEF EndRequestRead, TypeOK
  <1>12. CASE EndRequestExec
    <2>1. jm.job \in Job /\ jm.demand \in Nat
      BY DEF TypeOK, JmState
    <2>2. Ended(db[jm.job], jm.demand) \in Doc
      BY <2>1, DocTypes DEF TypeOK
    <2>3. db' \in [Job -> Doc]
      BY <1>12, <2>2 DEF EndRequestExec, TypeOK
    <2>4. dirty' \subseteq Party
      BY <1>12, TouchedType DEF EndRequestExec
    <2>5. book' \in [Job -> [Round -> Page]]
      BY <1>12, <2>1, WritePageType, PageTypes DEF EndRequestExec, TypeOK
    <2> QED BY <1>12, <2>3, <2>4, <2>5, BlankTypes DEF EndRequestExec, TypeOK
  <1>13. CASE EndRequestRetry
    BY <1>13, BlankTypes DEF EndRequestRetry, TypeOK
  <1>14. ASSUME NEW j \in Job, JobFinish(j)
         PROVE  TypeOK'
    BY <1>14, RemoveType DEF JobFinish, TypeOK
  <1>15. CASE Prune
    BY <1>15, RemoveType DEF Prune, TypeOK
  <1>16. CASE JobManagerRestart
    <2>1. restarts' \in 0 .. MaxRestart /\ 0 \in 0 .. MaxJobs
      BY <1>16, Bounds DEF JobManagerRestart, TypeOK
    <2> QED BY <1>16, <2>1, RemoveType, BlankTypes DEF JobManagerRestart, TypeOK
  <1>17. ASSUME NEW j \in Job, FallSilent(j)
         PROVE  TypeOK'
    BY <1>17 DEF FallSilent, TypeOK
  <1>18. ASSUME NEW c \in calls
         PROVE  c \in Call /\ c.job \in Job
    BY DEF TypeOK, Call
  <1>19. ASSUME NEW c \in calls, ScRank(c)
         PROVE  TypeOK'
    <2>1. PICK score \in RegistScore(c.job) : SetScore(c.job, score)
      BY <1>19 DEF ScRank
    <2>2. score \in Int
      BY <1>18, Bounds DEF RegistScore
    <2>3. db' \in [Job -> Doc] /\ dirty' \subseteq Party
      BY <1>18, <2>1, <2>2, SetScoreType
    <2> QED BY <1>18, <1>19, <2>3 DEF ScRank, Answer, TypeOK
  <1>20. ASSUME NEW c \in calls, ScPass(c)
         PROVE  TypeOK'
    BY <1>18, <1>20 DEF ScPass, Answer, TypeOK
  <1>21. ASSUME NEW c \in calls, ScMissing(c)
         PROVE  TypeOK'
    BY <1>18, <1>21 DEF ScMissing, TypeOK
  <1>22. ASSUME NEW c \in calls, ScDemand(c)
         PROVE  TypeOK'
    <2>1. db[c.job].demand \in Nat
      BY <1>18 DEF TypeOK, Doc
    <2>2. sc' \in ScState
      BY <1>18, <1>22, <2>1, BlankTypes DEF ScDemand, ScState
    <2> QED BY <1>22, <2>2 DEF ScDemand, TypeOK
  <1>23. sc.call \in Call /\ sc.call.job \in Job /\ sc.demand \in Nat /\ sc.amount \in Nat
    BY DEF TypeOK, ScState, Call
  <1>24. CASE ScAmount
    <2>1. db[sc.call.job].amount \in Nat
      BY <1>23 DEF TypeOK, Doc
    <2>2. sc' \in ScState
      BY <1>24, <2>1 DEF ScAmount, TypeOK, ScState
    <2> QED BY <1>24, <2>2 DEF ScAmount, TypeOK
  <1>25. CASE ScGone
    BY <1>23, <1>25, BlankTypes DEF ScGone, TypeOK
  <1>26. CASE ScScore
    <2>1. db' \in [Job -> Doc] /\ dirty' \subseteq Party
      BY <1>23, <1>26, SetScoreType DEF ScScore
    <2> QED BY <1>26, <2>1, BlankTypes DEF ScScore, TypeOK
  <1>27. ASSUME NEW m \in CM
         PROVE  m \in Party /\ cm[m] \in Txn /\ cm[m].job \in Job
    BY DEF TypeOK, Txn, Party
  <1>28. ASSUME NEW m \in CM, NEW j \in Job, AcceptAmount(m, j)
         PROVE  TypeOK'
    BY <1>28, StartTxnType DEF AcceptAmount, TypeOK
  <1>29. ASSUME NEW m \in CM, AcceptDemand(m)
         PROVE  TypeOK'
    <2>1. db[cm[m].job].demand \in Nat /\ db[cm[m].job].round \in Int
      BY <1>27 DEF TypeOK, Doc
    <2> DEFINE t == [cm[m] EXCEPT !.pc = "exec", !.demand = db[cm[m].job].demand,
                                  !.round = db[cm[m].job].round]
    <2>2. t \in Txn
      BY <1>27, <2>1 DEF Txn
    <2>3. cm' = [cm EXCEPT ![m] = t]
      BY <1>29 DEF AcceptDemand
    <2> HIDE DEF t
    <2>4. cm' \in [CM -> Txn]
      BY <2>2, <2>3 DEF TypeOK
    <2> QED BY <1>29, <2>4 DEF AcceptDemand, TypeOK
  <1>30. ASSUME NEW m \in CM, AcceptRefuse(m)
         PROVE  TypeOK'
    BY <1>30, BlankTypes DEF AcceptRefuse, AbandonTxn, TypeOK
  <1>31. ASSUME NEW m \in CM, AcceptExec(m)
         PROVE  TypeOK'
    <2> DEFINE j == cm[m].job
               r == cm[m].round
    <2>1. Incremented(db[j], cm[m].amount, cm[m].demand) \in Doc
      BY <1>27, DocTypes DEF TypeOK, Txn
    <2>2. db' \in [Job -> Doc]
      BY <1>27, <1>31, <2>1 DEF AcceptExec, TypeOK
    <2>4. book' \in [Job -> [Round -> Page]]
      BY <1>27, <1>31, WritePageType, PageTypes DEF AcceptExec, TypeOK
    <2>5. dirty' \subseteq Party
      BY <1>31, TouchedType DEF AcceptExec
    <2>6. cm' \in [CM -> Txn]
      BY <1>31, BlankTypes DEF AcceptExec, TypeOK
    <2> QED BY <1>31, <2>2, <2>4, <2>5, <2>6 DEF AcceptExec, TypeOK
  <1>32. ASSUME NEW m \in CM, AcceptRetry(m)
         PROVE  TypeOK'
    <2>1. cm' \in [CM -> Txn]
      BY <1>27, <1>32, StartTxnType, BlankTypes DEF AcceptRetry, TypeOK
    <2> QED BY <1>32, <2>1 DEF AcceptRetry, TypeOK
  <1>33. CASE UNCHANGED vars
    BY <1>33 DEF vars, TypeOK
  <1> QED
    BY <1>1, <1>3, <1>4, <1>5, <1>7, <1>8, <1>9, <1>10, <1>11, <1>12, <1>13, <1>14,
       <1>15, <1>16, <1>17, <1>19, <1>20, <1>21, <1>22, <1>24, <1>25, <1>26, <1>28,
       <1>29, <1>30, <1>31, <1>32, <1>33
    DEF Next, JobManagerStretch, SchedulerTake, SchedulerStretch, AcceptStep

(* Type correctness of every reachable state, among others that document   *)
(* fields never leave their ranges through the increments and that only    *)
(* jobs in the database are on the clock of the heartbeat.                 *)
THEOREM TypeCorrect == Spec => []TypeOK
  <1> QED BY TypeInit, TypeStep, PTL DEF Spec

-----------------------------------------------------------------------------
(* The counts of the rounds.  The conjuncts of IInv are kept by three      *)
(* arguments, one for the documents and the book, one for the transactions *)
(* of the client managers, one for end_request.                            *)

LEMMA InitInv == Init => IInv
  BY TypeInit DEF Init, IInv, Blanks, RoundsOpened, AmountCountsClients,
     NoOverAllocation, TxnsFresh, TxnFresh, EndingFresh, NoTxn, NoJm, NoPage

(* Documents and pages that do not change, or leave together.              *)
Counts == Blanks /\ RoundsOpened /\ AmountCountsClients /\ NoOverAllocation

LEMMA CountsFrame ==
  ASSUME IInv, UNCHANGED <<live, db, book>>
  PROVE  Counts'
  BY DEF IInv, Counts, Blanks, RoundsOpened, AmountCountsClients, NoOverAllocation

LEMMA CountsRemove ==
  ASSUME IInv, NEW S \in SUBSET live, Remove(S), UNCHANGED book
  PROVE  Counts'
  <1> USE DEF IInv, TypeOK, Remove
  <1>1. Blanks'
    BY DEF Blanks
  <1>2. RoundsOpened'
    BY DEF RoundsOpened
  <1>3. AmountCountsClients'
    BY DEF AmountCountsClients
  <1>4. NoOverAllocation'
    BY DEF NoOverAllocation
  <1> QED BY <1>1, <1>2, <1>3, <1>4 DEF Counts

(* Only the document of j and one page of it change.                       *)
LEMMA CountsWrite ==
  ASSUME IInv, NEW j \in live, NEW doc \in Doc, NEW r \in Round, NEW page \in Page,
         UNCHANGED live,
         db' = [db EXCEPT ![j] = doc],
         WritePage(j, r, page),
         doc.round = r,
         page.asked = doc.demand, page.given <= page.asked,
         page.closed = ~Open(doc),
         IF page.closed THEN doc.amount = doc.demand ELSE doc.amount = page.given
  PROVE  Counts'
  <1> j \in Job
    BY DEF IInv, TypeOK
  <1>1. db'[j] = doc /\ \A k \in Job \ {j} : db'[k] = db[k]
    BY DEF IInv, TypeOK
  <1>2. /\ book'[j][r] = page
        /\ \A s \in Round \ {r} : book'[j][s] = book[j][s]
        /\ \A k \in Job \ {j} : book'[k] = book[k]
    BY DEF IInv, TypeOK, WritePage
  <1>3. Blanks'
    BY <1>1 DEF IInv, Blanks
  <1>4. RoundsOpened'
    BY <1>1 DEF IInv, TypeOK, RoundsOpened
  <1>5. r # -1
    BY Bounds
  <1>6. AmountCountsClients'
    BY <1>1, <1>2, <1>5 DEF IInv, TypeOK, AmountCountsClients, Open
  <1>7. NoOverAllocation'
    BY <1>1, <1>2 DEF IInv, NoOverAllocation
  <1> QED BY <1>3, <1>4, <1>6, <1>7 DEF Counts

(* A write that leaves round, demand and amount of a document alone.       *)
LEMMA CountsSame ==
  ASSUME IInv, NEW j \in live, NEW doc \in Doc,
         UNCHANGED <<live, book>>,
         db' = [db EXCEPT ![j] = doc],
         doc.round = db[j].round, doc.demand = db[j].demand, doc.amount = db[j].amount
  PROVE  Counts'
  <1> j \in Job
    BY DEF IInv, TypeOK
  <1>1. db'[j] = doc /\ \A k \in Job \ {j} : db'[k] = db[k]
    BY DEF IInv, TypeOK
  <1>2. Blanks'
    BY <1>1 DEF IInv, Blanks
  <1>3. RoundsOpened'
    BY <1>1 DEF IInv, TypeOK, RoundsOpened
  <1>4. AmountCountsClients'
    BY <1>1 DEF IInv, TypeOK, AmountCountsClients, Open
  <1>5. NoOverAllocation'
    BY DEF IInv, NoOverAllocation
  <1> QED BY <1>2, <1>3, <1>4, <1>5 DEF Counts

(* What the book says of a round that is open.                             *)
LEMMA OpenPage ==
  ASSUME IInv, NEW j \in live, Open(db[j])
  PROVE  LET page == book[j][db[j].round]
         IN  /\ db[j].round \in Round
             /\ page \in Page
             /\ page.asked = db[j].demand
             /\ page.closed = FALSE
             /\ page.given = db[j].amount
             /\ page.given <= page.asked
  <1> DEFINE page == book[j][db[j].round]
  <1>1. j \in Job /\ db[j] \in Doc
    BY DEF IInv, TypeOK
  <1>2. db[j].round # -1
    BY <1>1 DEF IInv, AmountCountsClients, Open, Doc
  <1>3. db[j].round \in Round
    BY <1>2 DEF IInv, RoundsOpened
  <1>4. page \in Page
    BY <1>1, <1>3 DEF IInv, TypeOK
  <1>5. page.asked = db[j].demand /\ page.closed = FALSE /\ page.given = db[j].amount
    BY <1>2, <1>4 DEF IInv, AmountCountsClients, Page
  <1>6. page.given <= page.asked
    BY <1>1, <1>3 DEF IInv, NoOverAllocation
  <1> QED BY <1>3, <1>4, <1>5, <1>6

(* Only the documents of S are written, and who watches them is touched;   *)
(* the transactions of M are looked at separately.                         *)
LEMMA TxnsKept ==
  ASSUME IInv, NEW S, NEW M,
         \A i \in live \ S : i \in live' /\ db'[i] = db[i],
         Touched(S) \ (M \cup {JM}) \subseteq dirty',
         \A k \in CM \ M : cm'[k] = cm[k],
         \A m \in M \cap CM : m \in dirty' \/ TxnFresh(cm[m])'
  PROVE  TxnsFresh'
  <1> SUFFICES ASSUME NEW k \in CM, k \notin dirty', k \notin M
               PROVE  TxnFresh(cm[k])'
    BY DEF TxnsFresh
  <1>1. k # JM
    BY ConstantsAssumption DEF ConstantsAssumption
  <1>2. k \notin dirty /\ (cm[k].pc # "idle" => cm[k].job \notin S)
    BY <1>1 DEF Touched, Watching
  <1>3. TxnFresh(cm[k]) /\ cm'[k] = cm[k]
    BY <1>2 DEF IInv, TxnsFresh
  <1>4. CASE cm[k].pc = "idle"
    BY <1>3, <1>4 DEF TxnFresh
  <1>5. CASE cm[k].pc # "idle"
    BY <1>2, <1>3, <1>5 DEF TxnFresh
  <1> QED BY <1>4, <1>5

LEMMA EndingKept ==
  ASSUME IInv, NEW S,
         UNCHANGED jm,
         \A i \in live : i \in live' /\ db'[i].demand = db[i].demand,
         \A i \in live \ S : db'[i] = db[i],
         Touched(S) \ CM \subseteq dirty'
  PROVE  EndingFresh'
  <1>1. JM \notin CM
    BY ConstantsAssumption DEF ConstantsAssumption
  <1>2. CASE jm.pc = "estimating"
    BY <1>2 DEF IInv, EndingFresh
  <1>3. CASE jm.pc = "ending"
    <2>1. jm.job \in live /\ jm.demand = db[jm.job].demand
      BY <1>3 DEF IInv, EndingFresh
    <2>2. ASSUME JM \notin dirty'
          PROVE  Open(db[jm.job])'
      <3>1. JM \notin dirty /\ jm.job \notin S
        BY <1>1, <1>3, <2>2 DEF Touched, Watching
      <3> QED BY <1>3, <2>1, <3>1 DEF IInv, EndingFresh
    <2> QED BY <1>3, <2>1, <2>2 DEF EndingFresh
  <1> QED BY <1>2, <1>3 DEF EndingFresh

LEMMA EndingIdle ==
  ASSUME jm'.pc \notin {"estimating", "ending"}
  PROVE  EndingFresh'
  BY DEF EndingFresh

(* A step of another process that writes nothing of the database.          *)
LEMMA FrameInv ==
  ASSUME IInv, TypeOK', UNCHANGED <<live, db, book, cm, dirty>>
  PROVE  /\ Counts' /\ TxnsFresh'
         /\ UNCHANGED jm => EndingFresh'
  <1>1. Counts'
    BY CountsFrame
  <1>2. TxnsFresh'
    BY DEF IInv, TxnsFresh, TxnFresh
  <1>3. UNCHANGED jm => EndingFresh'
    BY DEF IInv, EndingFresh, Open
  <1> QED BY <1>1, <1>2, <1>3

(* The removal of jobs.                                                    *)
LEMMA RemoveTxns ==
  ASSUME IInv, NEW S \in SUBSET live, Remove(S), UNCHANGED cm
  PROVE  TxnsFresh'
  <1>1. \A i \in live \ S : i \in live' /\ db'[i] = db[i]
    BY DEF IInv, TypeOK, Remove
  <1>2. Touched(S) \ {JM} \subseteq dirty'
    BY DEF Remove
  <1> QED BY <1>1, <1>2, TxnsKept

(* A write of one document by SetScore or by an EXEC.                      *)
LEMMA WriteTxns ==
  ASSUME IInv, NEW j \in live, NEW M, NEW doc,
         UNCHANGED live,
         db' = [db EXCEPT ![j] = doc],
         Touched({j}) \ (M \cup {JM}) \subseteq dirty',
         \A k \in CM \ M : cm'[k] = cm[k],
         \A m \in M \cap CM : cm'[m].pc = "idle"
  PROVE  TxnsFresh'
  <1>1. \A i \in live \ {j} : i \in live' /\ db'[i] = db[i]
    BY DEF IInv, TypeOK
  <1>2. \A m \in M \cap CM : TxnFresh(cm[m])'
    BY DEF TxnFresh
  <1> QED BY <1>1, <1>2, TxnsKept

LEMMA WriteEnding ==
  ASSUME IInv, NEW j \in live, NEW doc,
         UNCHANGED <<live, jm>>,
         db' = [db EXCEPT ![j] = doc], doc.demand = db[j].demand,
         Touched({j}) \ CM \subseteq dirty'
  PROVE  EndingFresh'
  <1>1. \A i \in live : i \in live' /\ db'[i].demand = db[i].demand
    BY DEF IInv, TypeOK
  <1>2. \A i \in live \ {j} : db'[i] = db[i]
    BY DEF IInv, TypeOK
  <1> QED BY <1>1, <1>2, EndingKept

LEMMA ScoreInv ==
  ASSUME IInv, TypeOK', NEW j \in Job, NEW score \in Int, SetScore(j, score),
         UNCHANGED <<live, book, cm, jm>>
  PROVE  IInv'
  <1>1. CASE j \notin live
    BY <1>1, FrameInv DEF SetScore, IInv, Counts
  <1>2. CASE j \in live
    <2> DEFINE doc == [db[j] EXCEPT !.score = score]
    <2>0. db[j] \in Doc
      BY DEF IInv, TypeOK
    <2>1. /\ doc \in Doc
          /\ doc.round = db[j].round /\ doc.demand = db[j].demand
          /\ doc.amount = db[j].amount
      BY <2>0 DEF Doc
    <2>2. db' = [db EXCEPT ![j] = doc] /\ dirty' = Touched({j})
      BY <1>2 DEF SetScore
    <2> HIDE DEF doc
    <2>3. Counts'
      BY <1>2, <2>1, <2>2, CountsSame
    <2>4. TxnsFresh'
      <3>1. /\ Touched({j}) \ ({} \cup {JM}) \subseteq dirty'
            /\ \A k \in CM \ {} : cm'[k] = cm[k]
            /\ \A m \in {} \cap CM : cm'[m].pc = "idle"
        BY <2>2
      <3> QED BY <1>2, <2>2, <3>1, WriteTxns
    <2>5. EndingFresh'
      BY <1>2, <2>1, <2>2, WriteEnding
    <2> QED BY <2>3, <2>4, <2>5 DEF IInv, Counts
  <1> QED BY <1>1, <1>2

LEMMA InvStep == IInv /\ [Next]_vars => IInv'
  <1> SUFFICES ASSUME IInv, [Next]_vars
               PROVE  IInv'
    OBVIOUS
  <1> USE DEF jobVars
  <1>0. TypeOK /\ TypeOK'
    BY TypeStep DEF IInv
  <1>1. ASSUME Counts', TxnsFresh', EndingFresh'
        PROVE  IInv'
    BY <1>0, <1>1 DEF IInv, Counts
  <1>2. ASSUME NEW d \in Demand, NEW t \in TotalRound, JobRegist(d, t)
        PROVE  IInv'
    <2> DEFINE j == job_total_num
               doc == RegisteredDoc(d, t)
    <2>1. j \in Job /\ j \notin live /\ live' = live \cup {j}
      BY <1>2 DEF JobRegist
    <2>2. doc.round = -1 /\ doc.amount = 0 /\ doc.demand = 0
      BY DEF RegisteredDoc, NoDoc
    <2> HIDE DEF doc
    <2>3. db'[j] = doc /\ \A k \in Job \ {j} : db'[k] = db[k]
      BY <1>0, <1>2, <2>1 DEF JobRegist, TypeOK, doc
    <2>4. UNCHANGED <<book, cm, jm>> /\ dirty' = Touched({j})
      BY <1>2 DEF JobRegist
    <2>5. Counts'
      <3>1. Blanks'
        BY <2>1, <2>3 DEF IInv, Blanks
      <3>2. RoundsOpened'
        BY <1>0, <2>1, <2>2, <2>3 DEF IInv, RoundsOpened, TypeOK
      <3>3. AmountCountsClients'
        BY <1>0, <2>1, <2>2, <2>3, <2>4 DEF IInv, AmountCountsClients, TypeOK, Open
      <3>4. NoOverAllocation'
        BY <2>4 DEF IInv, NoOverAllocation
      <3> QED BY <3>1, <3>2, <3>3, <3>4 DEF Counts
    <2>6. TxnsFresh'
      <3>1. \A i \in live \ {j} : i \in live' /\ db'[i] = db[i]
        BY <1>0, <2>1, <2>3 DEF TypeOK
      <3>2. /\ Touched({j}) \ ({} \cup {JM}) \subseteq dirty'
            /\ \A k \in CM \ {} : cm'[k] = cm[k]
            /\ \A m \in {} \cap CM : m \in dirty' \/ TxnFresh(cm[m])'
        BY <2>4
      <3> QED BY <3>1, <3>2, TxnsKept
    <2>7. EndingFresh'
      BY <1>2, EndingIdle DEF JobRegist, Idle
    <2> QED BY <1>1, <2>5, <2>6, <2>7
  <1>3. ASSUME NEW j \in Job, NEW d \in Demand, JobRequest(j, d)
        PROVE  IInv'
    <2> DEFINE doc == Requested(db[j], d)
               page == [NoPage EXCEPT !.asked = d]
    <2>1. j \in live /\ db[j].round + 1 \in Round
      BY <1>3 DEF JobRequest
    <2>2. d \in Nat \ {0}
      BY Bounds
    <2>3. doc.round = db[j].round + 1 /\ doc.demand = d /\ doc.amount = 0
      BY <1>0 DEF TypeOK, Doc, Requested
    <2>4. doc \in Doc
      BY <1>0, <2>2, DocTypes DEF TypeOK
    <2>5. /\ page.asked = d /\ page.given = 0 /\ page.closed = FALSE
          /\ page \in Page
      BY <2>2 DEF NoPage, Page
    <2>6. /\ UNCHANGED <<live, cm>> /\ db' = [db EXCEPT ![j] = doc]
          /\ dirty' = Touched({j}) /\ WritePage(j, db[j].round + 1, page)
      BY <1>3 DEF JobRequest
    <2> HIDE DEF doc, page
    <2>7. Counts'
      <3>1. Open(doc)
        BY <2>2, <2>3 DEF Open
      <3>2. page.given <= page.asked /\ doc.amount = page.given
        BY <2>2, <2>3, <2>5
      <3>4. page.closed = ~Open(doc)
        BY <2>5, <3>1 DEF Open
      <3>3. doc.round = db[j].round + 1 /\ page.asked = doc.demand /\ ~page.closed
        BY <2>3, <2>5
      <3> QED BY <2>1, <2>4, <2>5, <2>6, <3>2, <3>3, <3>4, CountsWrite
    <2>8. TxnsFresh'
      <3>1. /\ Touched({j}) \ ({} \cup {JM}) \subseteq dirty'
            /\ \A k \in CM \ {} : cm'[k] = cm[k]
            /\ \A m \in {} \cap CM : cm'[m].pc = "idle"
        BY <2>6
      <3> QED BY <2>1, <2>6, <3>1, WriteTxns
    <2>9. EndingFresh'
      BY <1>3, EndingIdle DEF JobRequest, ThenEstimate, NoJm
    <2> QED BY <1>1, <2>7, <2>8, <2>9
  <1>4. ASSUME NEW j \in Job, NEW d \in Demand, JobRequestFinal(j, d)
        PROVE  IInv'
    <2>1. {j} \in SUBSET live /\ Remove({j}) /\ UNCHANGED <<book, cm>>
      BY <1>4 DEF JobRequestFinal
    <2>2. Counts' /\ TxnsFresh'
      BY <2>1, CountsRemove, RemoveTxns
    <2>3. EndingFresh'
      BY <1>4, EndingIdle DEF JobRequestFinal, ThenEstimate, NoJm
    <2> QED BY <1>1, <2>2, <2>3
  <1>5. ASSUME NEW j \in Job, NEW d \in Demand, JobRequestMissing(j, d)
        PROVE  IInv'
    <2>1. Counts' /\ TxnsFresh'
      BY <1>0, <1>5, FrameInv DEF JobRequestMissing
    <2>2. EndingFresh'
      BY <1>5, EndingIdle DEF JobRequestMissing, ThenEstimate, NoJm
    <2> QED BY <1>1, <2>1, <2>2
  <1>6. CASE EstimateRead
    <2>1. Counts' /\ TxnsFresh'
      BY <1>0, <1>6, FrameInv DEF EstimateRead
    <2>2. EndingFresh'
      BY <1>0, <1>6 DEF EstimateRead, EndingFresh, TypeOK, JmState
    <2> QED BY <1>1, <2>1, <2>2
  <1>7. CASE EstimateSkip
    <2>1. Counts' /\ TxnsFresh'
      BY <1>0, <1>7, FrameInv DEF EstimateSkip
    <2>2. EndingFresh'
      BY <1>7, EndingIdle DEF EstimateSkip, AwaitScheduler, NoJm
    <2> QED BY <1>1, <2>1, <2>2
  <1>8. CASE EstimateExec
    <2> DEFINE j == jm.job
               doc == Estimated(db[j], jm.service, jm.demand)
    <2>1. j \in live /\ j \in Job /\ jm.service \in Nat /\ jm.demand \in Nat
      BY <1>0, <1>8 DEF EstimateExec, IInv, EndingFresh, TypeOK, JmState
    <2>2. doc \in Doc
      BY <1>0, <2>1, DocTypes DEF TypeOK
    <2>3. /\ doc.round = db[j].round /\ doc.demand = db[j].demand
          /\ doc.amount = db[j].amount
      BY <1>0, <2>1 DEF TypeOK, Doc, Estimated
    <2>4. /\ UNCHANGED <<live, book, cm>> /\ db' = [db EXCEPT ![j] = doc]
          /\ dirty' = Touched({j}) \ {JM}
      BY <1>8 DEF EstimateExec
    <2> HIDE DEF doc
    <2>5. Counts'
      BY <2>1, <2>2, <2>3, <2>4, CountsSame
    <2>6. TxnsFresh'
      <3>1. /\ Touched({j}) \ ({} \cup {JM}) \subseteq dirty'
            /\ \A k \in CM \ {} : cm'[k] = cm[k]
            /\ \A m \in {} \cap CM : cm'[m].pc = "idle"
        BY <2>4
      <3> QED BY <2>1, <2>4, <3>1, WriteTxns
    <2>7. EndingFresh'
      BY <1>8, EndingIdle DEF EstimateExec, AwaitScheduler, NoJm
    <2> QED BY <1>1, <2>5, <2>6, <2>7
  <1>9. CASE EstimateRetry
    <2>1. Counts'
      BY <1>9, CountsFrame DEF EstimateRetry
    <2>2. TxnsFresh'
      BY <1>9, ConstantsAssumption
      DEF EstimateRetry, IInv, TxnsFresh, TxnFresh, ConstantsAssumption
    <2>3. EndingFresh'
      BY <1>0, <1>9, EndingIdle DEF EstimateRetry, TypeOK, JmState
    <2> QED BY <1>1, <2>1, <2>2, <2>3
  <1>10. ASSUME NEW j \in Job, EndRequestRead(j)
         PROVE  IInv'
    <2>1. Counts' /\ TxnsFresh'
      BY <1>0, <1>10, FrameInv DEF EndRequestRead
    <2>2. EndingFresh'
      BY <1>10 DEF EndRequestRead, EndingFresh, NoJm, Open
    <2> QED BY <1>1, <2>1, <2>2
  <1>11. CASE EndRequestExec
    <2> DEFINE j == jm.job
               doc == Ended(db[j], jm.demand)
               r == db[j].round
               page == ClosedPage(book[j][r])
    <2>1. /\ j \in live /\ j \in Job /\ jm.demand = db[j].demand /\ Open(db[j])
      BY <1>0, <1>11 DEF EndRequestExec, IInv, EndingFresh, TypeOK
    <2>2. r \in Round /\ db[j] \in Doc /\ jm.demand \in Nat
      BY <1>0, <2>1, OpenPage DEF TypeOK, JmState
    <2>3. /\ book[j][r] \in Page
          /\ book[j][r].asked = db[j].demand /\ book[j][r].given <= book[j][r].asked
      BY <2>1, OpenPage
    <2>4. doc \in Doc /\ page \in Page
      BY <2>2, <2>3, DocTypes, PageTypes
    <2>5. doc.round = r /\ doc.demand = db[j].demand /\ doc.amount = db[j].demand
      BY <2>1, <2>2 DEF Doc, Ended, Settled
    <2>6. /\ page.asked = book[j][r].asked /\ page.given = book[j][r].given
          /\ page.closed = TRUE
      BY <2>3 DEF Page, ClosedPage
    <2>7. /\ UNCHANGED <<live, cm>> /\ db' = [db EXCEPT ![j] = doc]
          /\ dirty' = Touched({j}) \ {JM} /\ WritePage(j, r, page)
      BY <1>11 DEF EndRequestExec
    <2> HIDE DEF doc, page
    <2>8. ~Open(doc)
      BY <2>2, <2>5 DEF Open, Doc
    <2>9. Counts'
      <3>1. /\ page.closed = ~Open(doc)
            /\ page.asked = doc.demand /\ page.given <= page.asked
            /\ IF page.closed THEN doc.amount = doc.demand ELSE doc.amount = page.given
        BY <2>3, <2>5, <2>6, <2>8
      <3> QED BY <2>1, <2>2, <2>4, <2>5, <2>7, <3>1, CountsWrite
    <2>10. TxnsFresh'
      <3>1. /\ Touched({j}) \ ({} \cup {JM}) \subseteq dirty'
            /\ \A k \in CM \ {} : cm'[k] = cm[k]
            /\ \A m \in {} \cap CM : cm'[m].pc = "idle"
        BY <2>7
      <3> QED BY <2>1, <2>7, <3>1, WriteTxns
    <2>11. EndingFresh'
      BY <1>11, EndingIdle DEF EndRequestExec, NoJm
    <2> QED BY <1>1, <2>9, <2>10, <2>11
  <1>12. CASE EndRequestRetry
    <2>1. Counts'
      BY <1>12, CountsFrame DEF EndRequestRetry
    <2>2. TxnsFresh'
      BY <1>12, ConstantsAssumption
      DEF EndRequestRetry, IInv, TxnsFresh, TxnFresh, ConstantsAssumption
    <2>3. EndingFresh'
      BY <1>12 DEF EndRequestRetry, IInv, EndingFresh, NoJm, Open
    <2> QED BY <1>1, <2>1, <2>2, <2>3
  <1>13. ASSUME NEW S \in SUBSET live, Remove(S), UNCHANGED <<book, cm, jm>>, Idle
         PROVE  IInv'
    <2>1. Counts' /\ TxnsFresh'
      BY <1>13, CountsRemove, RemoveTxns
    <2>2. EndingFresh'
      BY <1>13, EndingIdle DEF Idle
    <2> QED BY <1>1, <2>1, <2>2
  <1>14. ASSUME NEW j \in Job, JobFinish(j)
         PROVE  IInv'
    BY <1>13, <1>14 DEF JobFinish
  <1>15. CASE Prune
    <2>1. Prunable \in SUBSET live
      BY <1>0 DEF TypeOK, Prunable
    <2> QED BY <1>13, <1>15, <2>1 DEF Prune
  <1>16. CASE JobManagerRestart
    <2>1. /\ live' = {} /\ db' = [j \in Job |-> IF j \in live THEN NoDoc ELSE db[j]]
          /\ book' = [j \in Job |-> [r \in Round |-> NoPage]]
      BY <1>16 DEF JobManagerRestart, Remove
    <2>2. Blanks'
      BY <2>1 DEF IInv, Blanks
    <2>3. RoundsOpened' /\ AmountCountsClients'
      BY <2>1 DEF RoundsOpened, AmountCountsClients
    <2>4. NoOverAllocation'
      BY <2>1 DEF NoOverAllocation, NoPage
    <2>5. TxnsFresh'
      BY <1>16, RemoveTxns DEF JobManagerRestart
    <2>6. EndingFresh'
      BY <1>16, EndingIdle DEF JobManagerRestart, NoJm
    <2> QED BY <1>1, <2>2, <2>3, <2>4, <2>5, <2>6 DEF Counts
  <1>17. ASSUME UNCHANGED <<live, db, book, cm, dirty, jm>>
         PROVE  IInv'
    BY <1>0, <1>1, <1>17, FrameInv
  <1>18. ASSUME NEW j \in Job, FallSilent(j)
         PROVE  IInv'
    BY <1>17, <1>18 DEF FallSilent
  <1>19. ASSUME NEW c \in calls
         PROVE  c.job \in Job
    BY <1>0 DEF TypeOK, Call
  <1>20. ASSUME NEW c \in calls, ScRank(c)
         PROVE  IInv'
    <2>1. PICK score \in RegistScore(c.job) : SetScore(c.job, score)
      BY <1>20 DEF ScRank
    <2>2. score \in Int
      BY <1>19, Bounds DEF RegistScore
    <2> QED BY <1>0, <1>19, <1>20, <2>1, <2>2, ScoreInv DEF ScRank
  <1>21. ASSUME NEW c \in calls, ScPass(c) \/ ScMissing(c) \/ ScDemand(c)
         PROVE  IInv'
    BY <1>17, <1>21 DEF ScPass, ScMissing, ScDemand
  <1>22. CASE ScAmount \/ ScGone
    BY <1>17, <1>22 DEF ScAmount, ScGone
  <1>23. CASE ScScore
    <2> DEFINE score == IF sc.demand - sc.amount > 0 THEN -(sc.demand - sc.amount) ELSE 0
    <2>1. sc.call.job \in Job /\ score \in Int
      BY <1>0 DEF TypeOK, ScState, Call
    <2>2. SetScore(sc.call.job, score) /\ UNCHANGED <<live, book, cm, jm>>
      BY <1>23 DEF ScScore
    <2> QED BY <1>0, <2>1, <2>2, ScoreInv
  <1>24. ASSUME NEW m \in CM
         PROVE  m # JM /\ cm[m].job \in Job /\ cm[m] \in Txn
    BY <1>0, ConstantsAssumption DEF TypeOK, Txn, ConstantsAssumption
  (* A step of one client manager's transaction that does not commit.      *)
  <1>25. ASSUME NEW m \in CM, UNCHANGED <<live, db, book, jm>>,
                dirty' \in {dirty, dirty \ {m}},
                \A k \in CM \ {m} : cm'[k] = cm[k],
                m \in dirty' \/ TxnFresh(cm[m])'
         PROVE  IInv'
    <2>1. Counts'
      BY <1>25, CountsFrame
    <2>2. TxnsFresh'
      BY <1>25 DEF IInv, TxnsFresh, TxnFresh
    <2>3. EndingFresh'
      BY <1>24, <1>25 DEF IInv, EndingFresh, Open
    <2> QED BY <1>1, <2>1, <2>2, <2>3
  <1>26. ASSUME NEW m \in CM, NEW j \in live, StartTxn(m, j), UNCHANGED <<live, db>>
         PROVE  TxnFresh(cm[m])' /\ \A k \in CM \ {m} : cm'[k] = cm[k]
    BY <1>0, <1>26 DEF StartTxn, NoTxn, TxnFresh, TypeOK
  <1>27. ASSUME NEW m \in CM, cm' = [cm EXCEPT ![m] = NoTxn]
         PROVE  /\ cm'[m].pc = "idle" /\ TxnFresh(cm[m])'
                /\ \A k \in CM \ {m} : cm'[k] = cm[k]
    BY <1>0, <1>27 DEF NoTxn, TxnFresh, TypeOK
  <1>28. ASSUME NEW m \in CM, NEW j \in Job, AcceptAmount(m, j)
         PROVE  IInv'
    BY <1>25, <1>26, <1>28 DEF AcceptAmount
  <1>29. ASSUME NEW m \in CM, AcceptDemand(m)
         PROVE  IInv'
    <2>1. /\ cm'[m].pc = "exec" /\ cm'[m].job = cm[m].job
          /\ cm'[m].amount = cm[m].amount
          /\ cm'[m].demand = db[cm[m].job].demand /\ cm'[m].round = db[cm[m].job].round
          /\ \A k \in CM \ {m} : cm'[k] = cm[k]
      <3> DEFINE t == [cm[m] EXCEPT !.pc = "exec", !.demand = db[cm[m].job].demand,
                                    !.round = db[cm[m].job].round]
      <3>1. /\ t.pc = "exec" /\ t.job = cm[m].job /\ t.amount = cm[m].amount
            /\ t.demand = db[cm[m].job].demand /\ t.round = db[cm[m].job].round
        BY <1>24 DEF Txn
      <3>2. cm' = [cm EXCEPT ![m] = t]
        BY <1>29 DEF AcceptDemand
      <3> HIDE DEF t
      <3> QED BY <1>0, <3>1, <3>2 DEF TypeOK
    <2>2. m \notin dirty => TxnFresh(cm[m])
      BY DEF IInv, TxnsFresh
    <2>3. m \in dirty' \/ TxnFresh(cm[m])'
      BY <1>29, <2>1, <2>2 DEF AcceptDemand, TxnFresh
    <2> QED BY <1>25, <1>29, <2>1, <2>3 DEF AcceptDemand
  <1>30. ASSUME NEW m \in CM, AcceptRefuse(m)
         PROVE  IInv'
    BY <1>25, <1>27, <1>30 DEF AcceptRefuse, AbandonTxn
  <1>31. ASSUME NEW m \in CM, AcceptRetry(m)
         PROVE  IInv'
    BY <1>25, <1>26, <1>27, <1>31 DEF AcceptRetry
  <1>32. ASSUME NEW m \in CM, AcceptExec(m)
         PROVE  IInv'
    <2> DEFINE j == cm[m].job
               r == cm[m].round
               doc == Incremented(db[j], cm[m].amount, cm[m].demand)
               page == PageLetIn(book[j][r], db'[j])
    <2>1. TxnFresh(cm[m]) /\ cm[m].pc = "exec"
      BY <1>32 DEF AcceptExec, IInv, TxnsFresh
    <2>2. /\ j \in live /\ j \in Job /\ db[j] \in Doc
          /\ cm[m].amount = db[j].amount /\ cm[m].demand = db[j].demand
          /\ r = db[j].round /\ db[j].amount < db[j].demand
      BY <1>0, <1>24, <2>1 DEF TxnFresh, TypeOK
    <2>3. r \in Round
      BY <2>2, OpenPage DEF Open
    <2>4. /\ book[j][r] \in Page
          /\ book[j][r].asked = db[j].demand /\ book[j][r].closed = FALSE
          /\ book[j][r].given = db[j].amount
      BY <2>2, OpenPage DEF Open
    <2>5. doc \in Doc
      BY <1>24, <2>2, DocTypes DEF Txn
    <2>6. /\ doc.round = r /\ doc.demand = db[j].demand
          /\ doc.amount = db[j].amount + 1
      BY <2>2 DEF Doc, Incremented, Settled
    <2>7. /\ UNCHANGED <<live, jm>> /\ db' = [db EXCEPT ![j] = doc]
          /\ dirty' = Touched({j}) \ {m} /\ cm' = [cm EXCEPT ![m] = NoTxn]
          /\ WritePage(j, r, page)
      BY <1>32 DEF AcceptExec
    <2>8. db'[j] = doc
      BY <1>0, <2>2, <2>7 DEF TypeOK
    <2>9. /\ page.asked = db[j].demand /\ page.given = db[j].amount + 1
          /\ page.closed = ~Open(doc)
      BY <2>4, <2>8 DEF Page, PageLetIn
    <2>10. page \in Page
      BY <2>4, PageTypes
    <2> HIDE DEF doc, page
    <2>11. Counts'
      <3>1. doc.amount \in Nat /\ doc.demand \in Nat /\ doc.amount <= doc.demand
        BY <2>2, <2>5, <2>6 DEF Doc
      <3>2. ~Open(doc) => doc.amount = doc.demand
        BY <3>1 DEF Open
      <3>3. /\ page.asked = doc.demand /\ page.given <= page.asked
            /\ IF page.closed THEN doc.amount = doc.demand ELSE doc.amount = page.given
        BY <2>6, <2>9, <3>1, <3>2
      <3> QED BY <2>2, <2>3, <2>5, <2>6, <2>7, <2>9, <2>10, <3>3, CountsWrite
    <2>12. TxnsFresh'
      <3>1. /\ Touched({j}) \ ({m} \cup {JM}) \subseteq dirty'
            /\ \A k \in CM \ {m} : cm'[k] = cm[k]
            /\ \A k \in {m} \cap CM : cm'[k].pc = "idle"
        BY <1>27, <2>7
      <3> QED BY <2>2, <2>7, <3>1, WriteTxns
    <2>13. EndingFresh'
      <3>1. Touched({j}) \ CM \subseteq dirty'
        BY <2>7
      <3> QED BY <2>2, <2>6, <2>7, <3>1, WriteEnding
    <2> QED BY <1>1, <2>11, <2>12, <2>13
  <1>33. CASE UNCHANGED vars
    BY <1>17, <1>33 DEF vars
  <1> QED
    BY <1>2, <1>3, <1>4, <1>5, <1>6, <1>7, <1>8, <1>9, <1>10, <1>11, <1>12, <1>14,
       <1>15, <1>16, <1>18, <1>20, <1>21, <1>22, <1>23, <1>28, <1>29, <1>30, <1>31,
       <1>32, <1>33
    DEF Next, JobManagerStretch, SchedulerTake, SchedulerStretch, AcceptStep

THEOREM InvCorrect == Spec => []IInv
  <1> QED BY InitInv, InvStep, PTL DEF Spec

(* No round of any job is given more clients than it asked for, whatever   *)
(* the number of client managers and the interleaving of their optimistic  *)
(* transactions with end_request, new rounds, removals, pruning, scores    *)
(* and restarts of the job manager.                                        *)
THEOREM NeverOverAllocated == Spec => []NoOverAllocation
  <1>1. IInv => NoOverAllocation
    BY DEF IInv
  <1> QED BY <1>1, InvCorrect, PTL

(* In every reachable state the amount in the document of an open round is *)
(* the number of clients told they are in it, and a round is recorded as   *)
(* closed exactly when its document has no place left.                     *)
THEOREM AmountsCorrect == Spec => []AmountCountsClients
  <1>1. IInv => AmountCountsClients
    BY DEF IInv
  <1> QED BY <1>1, InvCorrect, PTL

-----------------------------------------------------------------------------
(* The estimate of the total demand.                                       *)

Estimating == jm.pc \in {"estimate", "estimating"}

EstimateCovers(doc) ==
  doc.round \in Round /\ doc.round < doc.total_round
    => doc.total_demand >= doc.attained_service + (IF Open(doc) THEN doc.demand ELSE 0)

LEMMA EstimateIs ==
  EstimateInv <=> /\ Estimating /\ jm.job \in live => jm.demand = db[jm.job].demand
                  /\ jm.pc = "estimating" /\ JM \notin dirty
                       => jm.service = db[jm.job].attained_service
                  /\ \A j \in live : ~ (Estimating /\ jm.job = j) => EstimateCovers(db[j])
  BY DEF EstimateInv, EstimateCoversRound, EstimateCovers, Estimating

LEMMA EstimateIsNext ==
  EstimateInv' <=>
    /\ Estimating' /\ jm'.job \in live' => jm'.demand = db'[jm'.job].demand
    /\ jm'.pc = "estimating" /\ JM \notin dirty'
         => jm'.service = db'[jm'.job].attained_service
    /\ \A j \in live' : ~ (Estimating' /\ jm'.job = j) => EstimateCovers(db'[j])
  BY DEF EstimateInv, EstimateCoversRound, EstimateCovers, Estimating

LEMMA EstimateInit == Init => EstimateInv
  BY DEF Init, EstimateInv, EstimateCoversRound, NoJm

LEMMA EstimateFrame ==
  ASSUME EstimateInv, UNCHANGED <<live, db, jm>>, JM \in dirty => JM \in dirty'
  PROVE  EstimateInv'
  BY EstimateIs, EstimateIsNext DEF Estimating

(* What covers a round covers it when a client more is let in or when it   *)
(* is closed; the service moves under the eyes of a transaction that       *)
(* estimates, which fails then.                                            *)
LEMMA EstimateWrite ==
  ASSUME IInv, EstimateInv, NEW j \in live, NEW doc,
         UNCHANGED live, db' = [db EXCEPT ![j] = doc],
         EstimateCovers(db[j]) => EstimateCovers(doc),
         doc.demand = db[j].demand,
         \/ UNCHANGED jm /\ Touched({j}) \ CM \subseteq dirty'
         \/ ~ Estimating /\ ~ Estimating'
  PROVE  EstimateInv'
  <1>1. j \in Job /\ JM \notin CM /\ jm.pc = "estimating" => jm.job \in live
    BY ConstantsAssumption DEF IInv, TypeOK, EndingFresh, ConstantsAssumption
  <1>2. db'[j] = doc /\ \A k \in live : k # j => db'[k] = db[k]
    BY DEF IInv, TypeOK
  <1>3. CASE UNCHANGED jm /\ Touched({j}) \ CM \subseteq dirty'
    <2>1. Estimating' = Estimating
      BY <1>3 DEF Estimating
    <2>2. Estimating' /\ jm'.job \in live' => jm'.demand = db'[jm'.job].demand
      BY <1>2, <1>3, <2>1, EstimateIs
    <2>3. ASSUME jm'.pc = "estimating", JM \notin dirty'
          PROVE  jm'.service = db'[jm'.job].attained_service
      <3>1. jm.job # j /\ JM \notin dirty
        BY <1>3, <2>3, ConstantsAssumption DEF Touched, Watching, ConstantsAssumption
      <3>2. jm.job \in live
        BY <1>3, <2>3 DEF IInv, EndingFresh
      <3> QED BY <1>2, <1>3, <2>3, <3>1, <3>2, EstimateIs
    <2>4. ASSUME NEW k \in live', ~ (Estimating' /\ jm'.job = k)
          PROVE  EstimateCovers(db'[k])
      BY <1>2, <1>3, <2>1, <2>4, EstimateIs
    <2> QED BY <2>2, <2>3, <2>4, EstimateIsNext
  <1>4. CASE ~ Estimating /\ ~ Estimating'
    <2>1. \A k \in live' : EstimateCovers(db'[k])
      BY <1>2, <1>4, EstimateIs
    <2> QED BY <1>4, <2>1, EstimateIsNext DEF Estimating
  <1> QED BY <1>3, <1>4

(* Jobs leave; the job manager estimates for none that is left.            *)
LEMMA EstimateRemove ==
  ASSUME IInv, EstimateInv, NEW S \in SUBSET live, Remove(S), ~ Estimating,
         Estimating' => jm'.pc = "estimate" /\ jm'.job \notin live'
  PROVE  EstimateInv'
  <1>1. \A k \in live' : k \in live /\ db'[k] = db[k]
    BY DEF IInv, TypeOK, Remove
  <1> QED BY <1>1, EstimateIs, EstimateIsNext DEF Estimating

(* A round that is still to come counts with its whole demand.             *)
LEMMA EstimatedCovers ==
  ASSUME NEW doc \in Doc
  PROVE  EstimateCovers(Estimated(doc, doc.attained_service, doc.demand))
  <1> DEFINE new == Estimated(doc, doc.attained_service, doc.demand)
             n == doc.total_round - doc.round
  <1>1. /\ new.round = doc.round /\ new.total_round = doc.total_round
        /\ new.attained_service = doc.attained_service
        /\ new.demand = doc.demand /\ new.amount = doc.amount
    BY DEF Doc, Estimated
  <1>2. /\ doc.total_round \in Nat /\ doc.round \in Int
        /\ doc.attained_service \in Nat /\ doc.demand \in Nat
    BY DEF Doc
  <1>3. ASSUME doc.round \in Round, doc.round < doc.total_round
        PROVE  new.total_demand >= doc.attained_service + doc.demand
    <2>1. n > 0 /\ n \in Nat /\ doc.total_round > 0
      BY <1>2, <1>3, Bounds
    <2>2. new.total_demand = doc.attained_service + n * doc.demand
      BY <2>1 DEF Doc, Estimated
    <2> HIDE DEF n, new
    <2>3. PICK k \in Nat : n = k + 1
      BY <2>1
    <2>4. n * doc.demand = k * doc.demand + doc.demand /\ k * doc.demand \in Nat
      BY <1>2, <2>3
    <2> QED BY <1>2, <2>2, <2>4
  <1>4. new.total_demand \in Nat
    <2>1. new \in Doc
      BY <1>2, DocTypes
    <2> QED BY <2>1 DEF Doc
  <1> HIDE DEF new
  <1>5. EstimateCovers(new)
    BY <1>1, <1>2, <1>3, <1>4 DEF EstimateCovers
  <1> QED BY <1>5 DEF new

LEMMA EstimateStep == IInv /\ EstimateInv /\ [Next]_vars => EstimateInv'
  <1> SUFFICES ASSUME IInv, EstimateInv, [Next]_vars
               PROVE  EstimateInv'
    OBVIOUS
  <1> USE DEF jobVars
  <1>0. TypeOK /\ JM \notin CM
    BY ConstantsAssumption DEF IInv, ConstantsAssumption
  <1>1. \A j \in live : j \in Job /\ db[j] \in Doc
    BY <1>0 DEF TypeOK
  <1>2. ASSUME NEW d \in Demand, NEW t \in TotalRound, JobRegist(d, t)
        PROVE  EstimateInv'
    <2> DEFINE j == job_total_num
    <2>1. /\ live' = live \cup {j} /\ j \in Job /\ UNCHANGED jm /\ ~ Estimating
          /\ db' = [db EXCEPT ![j] = RegisteredDoc(d, t)]
      BY <1>2 DEF JobRegist, Idle, Estimating
    <2>2. RegisteredDoc(d, t).round = -1 /\ -1 \notin Round
      BY Bounds DEF RegisteredDoc, NoDoc
    <2>3. db'[j].round \notin Round /\ \A k \in live : k # j => db'[k] = db[k]
      BY <1>0, <2>1, <2>2 DEF TypeOK
    <2>4. \A k \in live' : EstimateCovers(db'[k])
      <3>1. EstimateCovers(db'[j])
        BY <2>3 DEF EstimateCovers
      <3>2. \A k \in live : k # j => EstimateCovers(db'[k])
        BY <2>1, <2>3, EstimateIs
      <3> QED BY <2>1, <3>1, <3>2
    <2> QED BY <2>1, <2>4, EstimateIsNext DEF Estimating
  <1>3. ASSUME NEW j \in Job, NEW d \in Demand, JobRequest(j, d)
        PROVE  EstimateInv'
    <2>1. /\ UNCHANGED live /\ ~ Estimating
          /\ jm'.pc = "estimate" /\ jm'.job = j /\ jm'.demand = d
          /\ db' = [db EXCEPT ![j] = Requested(db[j], d)]
      BY <1>3 DEF JobRequest, Idle, Estimating, ThenEstimate, NoJm
    <2>2. db[j] \in Doc /\ Requested(db[j], d).demand = d
      BY <1>0 DEF TypeOK, Requested, Doc
    <2>3. db'[j].demand = d /\ \A k \in live : k # j => db'[k] = db[k]
      BY <1>0, <1>1, <2>1, <2>2 DEF TypeOK
    <2>4. \A k \in live' : k # j => EstimateCovers(db'[k])
      BY <2>1, <2>3, EstimateIs
    <2> QED BY <2>1, <2>3, <2>4, EstimateIsNext DEF Estimating
  <1>4. ASSUME NEW j \in Job, NEW d \in Demand, JobRequestFinal(j, d)
        PROVE  EstimateInv'
    <2>1. /\ {j} \in SUBSET live /\ Remove({j}) /\ ~ Estimating
          /\ jm'.pc = "estimate" /\ jm'.job = j /\ j \notin live'
      BY <1>4 DEF JobRequestFinal, Idle, Estimating, ThenEstimate, NoJm, Remove
    <2> QED BY <2>1, EstimateRemove
  <1>5. ASSUME NEW j \in Job, NEW d \in Demand, JobRequestMissing(j, d)
        PROVE  EstimateInv'
    <2>1. /\ UNCHANGED <<live, db>> /\ ~ Estimating
          /\ jm'.pc = "estimate" /\ jm'.job = j /\ j \notin live
      BY <1>5 DEF JobRequestMissing, Idle, Estimating, ThenEstimate, NoJm
    <2> QED BY <2>1, EstimateIs, EstimateIsNext DEF Estimating
  <1>6. CASE EstimateRead
    <2>1. /\ UNCHANGED <<live, db, dirty>> /\ jm.pc = "estimate" /\ jm.job \in live
          /\ jm'.pc = "estimating" /\ jm'.job = jm.job /\ jm'.demand = jm.demand
          /\ jm'.service = db[jm.job].attained_service
      BY <1>0, <1>6 DEF EstimateRead, TypeOK, JmState
    <2> QED BY <2>1, EstimateIs, EstimateIsNext DEF Estimating
  <1>7. CASE EstimateSkip
    <2>1. UNCHANGED <<live, db>> /\ jm.job \notin live /\ jm'.pc = "idle"
      BY <1>7 DEF EstimateSkip, AwaitScheduler, NoJm
    <2> QED BY <2>1, EstimateIs, EstimateIsNext DEF Estimating
  <1>8. CASE EstimateExec
    <2>0. PICK j \in live : j = jm.job
      BY <1>8 DEF EstimateExec, IInv, EndingFresh
    <2>1. /\ Estimating /\ UNCHANGED live /\ jm'.pc = "idle"
          /\ db' = [db EXCEPT ![j] = Estimated(db[j], jm.service, jm.demand)]
      BY <1>8, <2>0 DEF EstimateExec, Estimating, AwaitScheduler, NoJm
    <2>2. jm.service = db[j].attained_service /\ jm.demand = db[j].demand
      BY <1>8, <2>0, <2>1, EstimateIs DEF EstimateExec
    <2>3. PICK doc : doc = Estimated(db[j], db[j].attained_service, db[j].demand)
      OBVIOUS
    <2>4. db'[j] = doc /\ \A k \in live : k # j => db'[k] = db[k]
      BY <1>0, <1>1, <2>1, <2>2, <2>3 DEF TypeOK
    <2>5. EstimateCovers(doc)
      BY <1>1, <2>3, EstimatedCovers
    <2>6. \A k \in live' : EstimateCovers(db'[k])
      BY <2>0, <2>1, <2>4, <2>5, EstimateIs
    <2> QED BY <2>1, <2>6, EstimateIsNext DEF Estimating
  <1>9. CASE EstimateRetry
    <2>1. /\ UNCHANGED <<live, db>> /\ jm.pc = "estimating" /\ jm'.pc = "estimate"
          /\ jm'.job = jm.job /\ jm'.demand = jm.demand
      BY <1>0, <1>9 DEF EstimateRetry, TypeOK, JmState
    <2> QED BY <2>1, EstimateIs, EstimateIsNext DEF Estimating
  <1>10. ASSUME UNCHANGED <<live, db>>, ~ Estimating, ~ Estimating'
         PROVE  EstimateInv'
    BY <1>10, EstimateIs, EstimateIsNext DEF Estimating
  <1>11. ASSUME NEW j \in Job, EndRequestRead(j)
         PROVE  EstimateInv'
    BY <1>10, <1>11 DEF EndRequestRead, Idle, Estimating, NoJm
  <1>12. CASE EndRequestExec
    <2>0. PICK j \in live : j = jm.job
      BY <1>12 DEF EndRequestExec, IInv, EndingFresh
    <2>1. PICK doc : doc = Ended(db[j], jm.demand)
      OBVIOUS
    <2>2. /\ UNCHANGED live /\ ~ Estimating /\ ~ Estimating'
          /\ db' = [db EXCEPT ![j] = doc]
      BY <1>12, <2>0, <2>1 DEF EndRequestExec, Estimating, NoJm
    <2>3. jm.demand = db[j].demand /\ Open(db[j])
      BY <1>12, <2>0 DEF EndRequestExec, IInv, EndingFresh
    <2>4. /\ doc.round = db[j].round /\ doc.total_round = db[j].total_round
          /\ doc.total_demand = db[j].total_demand /\ doc.demand = db[j].demand
          /\ doc.amount = db[j].demand
          /\ doc.attained_service = db[j].attained_service + db[j].demand
      BY <1>1, <2>1, <2>3 DEF Doc, Ended, Settled
    <2>5. EstimateCovers(db[j]) => EstimateCovers(doc)
      BY <1>1, <2>3, <2>4 DEF EstimateCovers, Open, Doc
    <2> QED BY <2>2, <2>4, <2>5, EstimateWrite
  <1>13. CASE EndRequestRetry
    BY <1>10, <1>13 DEF EndRequestRetry, Estimating, NoJm
  <1>14. ASSUME NEW S \in SUBSET live, Remove(S), UNCHANGED jm, Idle
         PROVE  EstimateInv'
    BY <1>14, EstimateRemove DEF Idle, Estimating
  <1>15. ASSUME NEW j \in Job, JobFinish(j)
         PROVE  EstimateInv'
    BY <1>14, <1>15 DEF JobFinish
  <1>16. CASE Prune
    <2>1. Prunable \in SUBSET live
      BY <1>0 DEF TypeOK, Prunable
    <2> QED BY <1>14, <1>16, <2>1 DEF Prune
  <1>17. CASE JobManagerRestart
    <2>1. live' = {} /\ jm'.pc = "idle"
      BY <1>17 DEF JobManagerRestart, Remove, NoJm
    <2> QED BY <2>1, EstimateIsNext DEF Estimating
  <1>18. ASSUME NEW j \in Job, FallSilent(j)
         PROVE  EstimateInv'
    BY <1>18, EstimateFrame DEF FallSilent
  <1>19. ASSUME NEW j \in Job, NEW score, SetScore(j, score), UNCHANGED <<live, jm>>
         PROVE  EstimateInv'
    <2>1. CASE j \notin live
      BY <1>19, <2>1, EstimateFrame DEF SetScore
    <2>2. CASE j \in live
      <3>1. PICK doc : doc = [db[j] EXCEPT !.score = score]
        OBVIOUS
      <3>2. /\ doc.round = db[j].round /\ doc.total_round = db[j].total_round
            /\ doc.total_demand = db[j].total_demand /\ doc.demand = db[j].demand
            /\ doc.amount = db[j].amount /\ doc.attained_service = db[j].attained_service
        BY <1>1, <2>2, <3>1 DEF Doc
      <3>3. db' = [db EXCEPT ![j] = doc] /\ dirty' = Touched({j})
        BY <1>19, <2>2, <3>1 DEF SetScore
      <3>4. EstimateCovers(db[j]) => EstimateCovers(doc)
        BY <3>2 DEF EstimateCovers, Open
      <3> QED BY <1>19, <2>2, <3>2, <3>3, <3>4, EstimateWrite
    <2> QED BY <2>1, <2>2
  <1>20. ASSUME NEW c \in calls, ScRank(c)
         PROVE  EstimateInv'
    <2>1. c.job \in Job
      BY <1>0 DEF TypeOK, Call
    <2> QED BY <1>19, <1>20, <2>1 DEF ScRank
  <1>21. ASSUME NEW c \in calls, ScPass(c) \/ ScMissing(c) \/ ScDemand(c)
         PROVE  EstimateInv'
    BY <1>21, EstimateFrame DEF ScPass, ScMissing, ScDemand
  <1>22. CASE ScAmount \/ ScGone
    BY <1>22, EstimateFrame DEF ScAmount, ScGone
  <1>23. CASE ScScore
    <2>1. sc.call.job \in Job
      BY <1>0 DEF TypeOK, ScState, Call
    <2> QED BY <1>19, <1>23, <2>1 DEF ScScore
  <1>24. ASSUME NEW m \in CM,
                (\E j \in Job : AcceptAmount(m, j)) \/ AcceptDemand(m) \/ AcceptRefuse(m) \/ AcceptRetry(m)
         PROVE  EstimateInv'
    <2>1. UNCHANGED <<live, db, jm>> /\ (JM \in dirty => JM \in dirty')
      BY <1>0, <1>24 DEF AcceptAmount, AcceptDemand, AcceptRefuse, AcceptRetry, AbandonTxn
    <2> QED BY <2>1, EstimateFrame
  <1>25. ASSUME NEW m \in CM, AcceptExec(m)
         PROVE  EstimateInv'
    <2>0. TxnFresh(cm[m]) /\ cm[m].pc = "exec"
      BY <1>25 DEF AcceptExec, IInv, TxnsFresh
    <2>1. PICK j \in live : j = cm[m].job
      BY <2>0 DEF TxnFresh
    <2>2. PICK doc : doc = Incremented(db[j], db[j].amount, db[j].demand)
      OBVIOUS
    <2>3. /\ UNCHANGED <<live, jm>> /\ db' = [db EXCEPT ![j] = doc]
          /\ Touched({j}) \ CM \subseteq dirty'
      BY <2>0, <2>1, <2>2, <1>25 DEF AcceptExec, TxnFresh
    <2>4. /\ doc.round = db[j].round /\ doc.total_round = db[j].total_round
          /\ doc.total_demand = db[j].total_demand /\ doc.demand = db[j].demand
          /\ doc.amount = db[j].amount + 1
          /\ doc.attained_service = db[j].attained_service
               + (IF db[j].amount = db[j].demand - 1 THEN db[j].demand ELSE 0)
      BY <1>1, <2>2 DEF Doc, Incremented, Settled
    <2>5. Open(db[j])
      BY <2>0, <2>1 DEF TxnFresh, Open
    <2>6. EstimateCovers(db[j]) => EstimateCovers(doc)
      BY <1>1, <2>4, <2>5 DEF EstimateCovers, Open, Doc
    <2> QED BY <2>3, <2>4, <2>6, EstimateWrite
  <1>26. CASE UNCHANGED vars
    BY <1>26, EstimateFrame DEF vars
  <1> QED
    BY <1>2, <1>3, <1>4, <1>5, <1>6, <1>7, <1>8, <1>9, <1>11, <1>12, <1>13, <1>15,
       <1>16, <1>17, <1>18, <1>20, <1>21, <1>22, <1>23, <1>24, <1>25, <1>26
    DEF Next, JobManagerStretch, SchedulerTake, SchedulerStretch, AcceptStep

-----------------------------------------------------------------------------
(* What a step does to the documents, as far as ranks are concerned: every *)
(* step is one of these kinds.                                             *)

(* The documents that stay keep their scores, rounds and demands, and      *)
(* their amounts do not fall.                                              *)
Kept(jobs) == \A j \in jobs :
  /\ j \in live /\ j \in Job
  /\ db'[j].score = db[j].score /\ db'[j].round = db[j].round
  /\ db'[j].demand = db[j].demand /\ db[j].amount <= db'[j].amount

LEMMA KeptWrite ==
  ASSUME TypeOK, NEW j \in live, NEW doc, UNCHANGED live,
         db' = [db EXCEPT ![j] = doc],
         doc.score = db[j].score, doc.round = db[j].round, doc.demand = db[j].demand,
         db[j].amount <= doc.amount
  PROVE  Kept(live')
  <1>1. \A k \in live : k \in Job /\ db[k] \in Doc /\ db[k].amount <= db[k].amount
    BY DEF TypeOK, Doc
  <1>2. db'[j] = doc /\ \A k \in live : k # j => db'[k] = db[k]
    BY <1>1 DEF TypeOK
  <1> QED BY <1>1, <1>2 DEF Kept

LEMMA KeptSome ==
  ASSUME TypeOK, live' \subseteq live, \A k \in live' : db'[k] = db[k]
  PROVE  Kept(live')
  <1>1. \A k \in live : k \in Job /\ db[k].amount <= db[k].amount
    BY DEF TypeOK, Doc
  <1> QED BY <1>1 DEF Kept

LEMMA KeptRemove ==
  ASSUME TypeOK, NEW S \in SUBSET live, Remove(S)
  PROVE  live' \subseteq live /\ Kept(live')
  <1>1. live' \subseteq live /\ \A k \in live' : db'[k] = db[k]
    BY DEF TypeOK, Remove
  <1> QED BY <1>1, KeptSome

(* The commits of the job manager and of the client managers.              *)
LEMMA KeptCommits ==
  ASSUME IInv, EstimateExec \/ EndRequestExec \/ \E m \in CM : AcceptExec(m)
  PROVE  Kept(live') /\ live' = live
  <1>0. TypeOK /\ \A j \in live : j \in Job /\ db[j] \in Doc
    BY DEF IInv, TypeOK
  <1>1. CASE EstimateExec
    <2>0. PICK j \in live : j = jm.job
      BY <1>1 DEF EstimateExec, IInv, EndingFresh
    <2>1. PICK doc : doc = Estimated(db[j], jm.service, jm.demand)
      OBVIOUS
    <2>2. live' = live /\ db' = [db EXCEPT ![j] = doc]
      BY <1>1, <2>0, <2>1 DEF EstimateExec
    <2>3. /\ doc.score = db[j].score /\ doc.round = db[j].round
          /\ doc.demand = db[j].demand /\ db[j].amount <= doc.amount
      BY <1>0, <2>1 DEF Doc, Estimated
    <2> QED BY <1>0, <2>2, <2>3, KeptWrite
  <1>2. CASE EndRequestExec
    <2>0. PICK j \in live : j = jm.job
      BY <1>2 DEF EndRequestExec, IInv, EndingFresh
    <2>1. PICK doc : doc = Ended(db[j], jm.demand)
      OBVIOUS
    <2>2. live' = live /\ db' = [db EXCEPT ![j] = doc]
      BY <1>2, <2>0, <2>1 DEF EndRequestExec
    <2>3. jm.demand = db[j].demand /\ Open(db[j])
      BY <1>2, <2>0 DEF EndRequestExec, IInv, EndingFresh
    <2>4. /\ doc.score = db[j].score /\ doc.round = db[j].round
          /\ doc.demand = db[j].demand /\ db[j].amount <= doc.amount
      BY <1>0, <2>1, <2>3 DEF Doc, Ended, Settled, Open
    <2> QED BY <1>0, <2>2, <2>4, KeptWrite
  <1>3. ASSUME NEW m \in CM, AcceptExec(m)
        PROVE  Kept(live') /\ live' = live
    <2>0. TxnFresh(cm[m]) /\ cm[m].pc = "exec"
      BY <1>3 DEF AcceptExec, IInv, TxnsFresh
    <2>1. PICK j \in live : j = cm[m].job
      BY <2>0 DEF TxnFresh
    <2>2. PICK doc : doc = Incremented(db[j], cm[m].amount, cm[m].demand)
      OBVIOUS
    <2>3. live' = live /\ db' = [db EXCEPT ![j] = doc]
      BY <1>3, <2>1, <2>2 DEF AcceptExec
    <2>4. /\ doc.score = db[j].score /\ doc.round = db[j].round
          /\ doc.demand = db[j].demand /\ db[j].amount <= doc.amount
      BY <1>0, <2>2 DEF Doc, Incremented, Settled
    <2> QED BY <1>0, <2>3, <2>4, KeptWrite
  <1> QED BY <1>1, <1>2, <1>3

(* The steps that change neither documents nor what is registered, nor     *)
(* the scheduler.                                                          *)
LEMMA Elsewhere ==
  ASSUME TypeOK,
         \/ EstimateRead \/ EstimateRetry \/ EndRequestRetry
         \/ \E j \in Job : EndRequestRead(j) \/ FallSilent(j)
         \/ \E m \in CM, j \in Job : AcceptAmount(m, j)
         \/ \E m \in CM : AcceptDemand(m) \/ AcceptRefuse(m) \/ AcceptRetry(m)
         \/ UNCHANGED vars
  PROVE  /\ UNCHANGED <<live, db, calls, known, sc, restarts, job_total_num>>
         /\ Estimating' = Estimating /\ (Estimating => jm'.job = jm.job)
         /\ Kept(live')
  <1> USE DEF jobVars
  <1> DEFINE Same == UNCHANGED <<live, db, calls, known, sc, restarts, job_total_num>>
             JmSame == Estimating' = Estimating /\ (Estimating => jm'.job = jm.job)
  <1>0. jm \in JmState
    BY DEF TypeOK
  <1>1. ASSUME EstimateRead PROVE Same /\ JmSame
    <2>1. Same
      BY <1>1 DEF EstimateRead
    <2>2. jm.pc = "estimate" /\ jm'.pc = "estimating" /\ jm'.job = jm.job
      BY <1>0, <1>1 DEF EstimateRead, JmState
    <2> QED BY <2>1, <2>2 DEF Estimating
  <1>2. ASSUME EstimateRetry PROVE Same /\ JmSame
    <2>1. Same
      BY <1>2 DEF EstimateRetry
    <2>2. jm.pc = "estimating" /\ jm'.pc = "estimate" /\ jm'.job = jm.job
      BY <1>0, <1>2 DEF EstimateRetry, JmState
    <2> QED BY <2>1, <2>2 DEF Estimating
  <1>3. ASSUME EndRequestRetry PROVE Same /\ JmSame
    <2>1. Same
      BY <1>3 DEF EndRequestRetry
    <2>2. jm.pc = "ending" /\ (jm' = jm \/ jm' = NoJm)
      BY <1>3 DEF EndRequestRetry
    <2> QED BY <2>1, <2>2 DEF Estimating, NoJm
  <1>4. ASSUME NEW j \in Job, EndRequestRead(j)
        PROVE  Same /\ JmSame
    <2>1. Same
      BY <1>4 DEF EndRequestRead
    <2>2. jm.pc = "idle" /\ jm'.pc = "ending"
      BY <1>4 DEF EndRequestRead, NoJm, Idle
    <2> QED BY <2>1, <2>2 DEF Estimating
  <1>5. ASSUME Same, UNCHANGED jm
        PROVE  Same /\ JmSame
    BY <1>5 DEF Estimating
  <1>6. ASSUME NEW j \in Job, FallSilent(j)
        PROVE  Same /\ JmSame
    BY <1>5, <1>6 DEF FallSilent
  <1>7. ASSUME NEW m \in CM, NEW j \in Job, AcceptAmount(m, j)
        PROVE  Same /\ JmSame
    BY <1>5, <1>7 DEF AcceptAmount
  <1>8. ASSUME NEW m \in CM, AcceptDemand(m)
        PROVE  Same /\ JmSame
    <2>1. Same /\ UNCHANGED jm
      BY <1>8, Zenon DEF AcceptDemand
    <2> QED BY <1>5, <2>1
  <1>9. ASSUME NEW m \in CM, AcceptRefuse(m)
        PROVE  Same /\ JmSame
    BY <1>5, <1>9 DEF AcceptRefuse
  <1>10. ASSUME NEW m \in CM, AcceptRetry(m)
         PROVE  Same /\ JmSame
    BY <1>5, <1>10 DEF AcceptRetry
  <1>11. ASSUME UNCHANGED vars PROVE Same /\ JmSame
    <2>1. Same /\ UNCHANGED jm
      BY <1>11 DEF vars
    <2> QED BY <1>5, <2>1
  <1>12. Same /\ JmSame
    <2> HIDE DEF Same, JmSame
    <2>1. CASE EstimateRead \/ EstimateRetry \/ EndRequestRetry
      BY <2>1, <1>1, <1>2, <1>3 DEF Same, JmSame
    <2> QED BY <2>1, <1>4, <1>6, <1>7, <1>8, <1>9, <1>10, <1>11 DEF Same, JmSame
  <1> QED BY <1>12, KeptSome

-----------------------------------------------------------------------------
(* Ranks of the fifo scheduler.                                            *)

LEMMA FifoInit == Init => FifoInv
  <1> SUFFICES ASSUME Init PROVE FifoInv
    OBVIOUS
  <1>1. sc.pc = "idle" /\ known = {} /\ calls = {} /\ live = {}
    BY DEF Init, NoSc
  <1> QED BY <1>1 DEF FifoInv, RankedByNumber

LEMMA FifoFrame ==
  ASSUME RankedByNumber, UNCHANGED <<known, job_total_num>>, Kept(live'),
         \A c \in calls' : c.op = "regist" => c \in calls
  PROVE  RankedByNumber'
  <1>1. \A c \in calls' : c.op = "regist" => c.job < job_total_num'
    BY DEF RankedByNumber
  <1>2. \A j \in live' : db'[j].round # -1 => j \in known'
    BY DEF RankedByNumber, Kept
  <1>3. \A j \in live' \cap known' : db'[j].score = -1 - j
    BY DEF RankedByNumber, Kept
  <1> QED BY <1>1, <1>2, <1>3 DEF RankedByNumber

LEMMA FifoStep == IInv /\ FifoInv /\ [Next]_vars => FifoInv'
  <1> SUFFICES ASSUME IInv, FifoInv, [Next]_vars, Alg = "fifo"
               PROVE  sc'.pc = "idle" /\ (restarts' = 0 => RankedByNumber')
    BY DEF FifoInv
  <1> USE DEF jobVars
  <1>0. TypeOK /\ sc.pc = "idle" /\ (restarts = 0 => RankedByNumber)
    BY DEF IInv, FifoInv
  <1>1. ASSUME UNCHANGED <<sc, restarts, known, job_total_num>>, Kept(live'),
               \A c \in calls' : c.op = "regist" => c \in calls
        PROVE  sc'.pc = "idle" /\ (restarts' = 0 => RankedByNumber')
    BY <1>0, <1>1, FifoFrame
  <1>2. ASSUME NEW d \in Demand, NEW t \in TotalRound, JobRegist(d, t)
        PROVE  sc'.pc = "idle" /\ (restarts' = 0 => RankedByNumber')
    <2> DEFINE j == job_total_num
               call == [op |-> "regist", job |-> j, round |-> -1]
    <2>1. /\ live' = live \cup {j} /\ j \in Job /\ job_total_num' = j + 1
          /\ UNCHANGED <<sc, restarts, known>>
          /\ calls' = calls \cup {call}
          /\ db' = [db EXCEPT ![j] = RegisteredDoc(d, t)]
      BY <1>2 DEF JobRegist
    <2>2. SUFFICES ASSUME restarts = 0 PROVE RankedByNumber'
      BY <1>0, <2>1
    <2>3. RankedByNumber /\ j \notin known
      BY <1>0, <2>1, <2>2, Bounds DEF RankedByNumber
    <2>4. RegisteredDoc(d, t).round = -1
      BY DEF RegisteredDoc, NoDoc
    <2>5. db'[j].round = -1 /\ \A k \in live : k # j => db'[k] = db[k]
      BY <1>0, <2>1, <2>4 DEF TypeOK
    <2>6. \A k \in Job : k >= job_total_num' => k \notin known'
      BY <2>1, <2>3, Bounds DEF RankedByNumber
    <2>7. \A c \in calls' : c.op = "regist" => c.job < job_total_num'
      <3>1. call.job = j /\ j < j + 1
        BY <2>1, Bounds
      <3>2. \A c \in calls : c.job \in Job
        BY <1>0 DEF TypeOK, Call
      <3>3. ASSUME NEW c \in calls, c.op = "regist"
            PROVE  c.job < j + 1
        <4>1. c.job < j
          <5>1. \A e \in calls : e.op = "regist" => e.job < job_total_num
            BY <2>3 DEF RankedByNumber
          <5> QED BY <3>3, <5>1
        <4>2. Job \subseteq Nat
          BY Bounds
        <4>3. c.job \in Nat
          BY <3>2, <4>2
        <4>4. j \in Nat
          BY <2>1, <4>2
        <4> QED BY <4>1, <4>3, <4>4
      <3> HIDE DEF call
      <3> QED BY <2>1, <3>1, <3>3
    <2>8. \A k \in live' : db'[k].round # -1 => k \in known'
      BY <2>1, <2>3, <2>5 DEF RankedByNumber
    <2>9. \A k \in live' \cap known' : db'[k].score = -1 - k
      BY <2>1, <2>3, <2>5 DEF RankedByNumber
    <2> QED BY <2>6, <2>7, <2>8, <2>9 DEF RankedByNumber
  <1>3. ASSUME NEW j \in Job, NEW d \in Demand, JobRequest(j, d)
        PROVE  sc'.pc = "idle" /\ (restarts' = 0 => RankedByNumber')
    <2>1. /\ UNCHANGED <<live, sc, restarts, known, job_total_num, calls>>
          /\ j \in known /\ j \in live
          /\ db' = [db EXCEPT ![j] = Requested(db[j], d)]
      BY <1>3 DEF JobRequest
    <2>2. SUFFICES ASSUME restarts = 0 PROVE RankedByNumber'
      BY <1>0, <2>1
    <2>3. Requested(db[j], d).score = db[j].score
      BY <1>0 DEF TypeOK, Doc, Requested
    <2>4. db'[j].score = db[j].score /\ \A k \in live : k # j => db'[k] = db[k]
      BY <1>0, <2>1, <2>3 DEF TypeOK
    <2>5. RankedByNumber
      BY <1>0, <2>2
    <2>6. \A k \in live' : db'[k].round # -1 => k \in known'
      BY <2>1, <2>4, <2>5 DEF RankedByNumber
    <2>7. \A k \in live' \cap known' : db'[k].score = -1 - k
      BY <2>1, <2>4, <2>5 DEF RankedByNumber
    <2> QED BY <2>1, <2>5, <2>6, <2>7 DEF RankedByNumber
  <1>4. ASSUME NEW S \in SUBSET live, Remove(S),
               UNCHANGED <<sc, restarts, known, job_total_num, calls>>
        PROVE  sc'.pc = "idle" /\ (restarts' = 0 => RankedByNumber')
    BY <1>0, <1>1, <1>4, KeptRemove
  <1>5. ASSUME NEW j \in Job, NEW d \in Demand,
               JobRequestFinal(j, d) \/ JobRequestMissing(j, d)
        PROVE  sc'.pc = "idle" /\ (restarts' = 0 => RankedByNumber')
    <2>1. CASE JobRequestFinal(j, d)
      <3>1. {j} \in SUBSET live
        BY <2>1 DEF JobRequestFinal
      <3> QED BY <1>4, <2>1, <3>1 DEF JobRequestFinal
    <2>2. CASE JobRequestMissing(j, d)
      BY <1>0, <1>1, <2>2, KeptSome DEF JobRequestMissing
    <2> QED BY <1>5, <2>1, <2>2
  <1>6. CASE EstimateSkip \/ EstimateExec
    <2>1. \A c \in calls' : c.op = "regist" => c \in calls
      BY <1>6 DEF EstimateSkip, EstimateExec, AwaitScheduler
    <2>2. Kept(live')
      BY <1>0, <1>6, KeptSome, KeptCommits DEF EstimateSkip
    <2> QED BY <1>1, <1>6, <2>1, <2>2 DEF EstimateSkip, EstimateExec
  <1>7. CASE EndRequestExec \/ \E m \in CM : AcceptExec(m)
    <2>1. UNCHANGED <<sc, restarts, known, job_total_num, calls>>
      BY <1>7 DEF EndRequestExec, AcceptExec
    <2>2. Kept(live')
      BY <1>7, KeptCommits
    <2> QED BY <1>1, <2>1, <2>2
  <1>8. ASSUME NEW j \in Job, JobFinish(j)
        PROVE  sc'.pc = "idle" /\ (restarts' = 0 => RankedByNumber')
    <2>1. {j} \in SUBSET live
      BY <1>8 DEF JobFinish
    <2> QED BY <1>4, <1>8, <2>1 DEF JobFinish
  <1>9. CASE Prune
    <2>1. Prunable \in SUBSET live
      BY <1>0 DEF TypeOK, Prunable
    <2> QED BY <1>4, <1>9, <2>1 DEF Prune
  <1>10. CASE JobManagerRestart
    <2>1. sc' = sc /\ restarts' = restarts + 1 /\ restarts \in Nat
      BY <1>0, <1>10, Bounds DEF JobManagerRestart, TypeOK
    <2> QED BY <1>0, <2>1
  <1>11. ASSUME NEW c \in calls, ScRank(c)
         PROVE  sc'.pc = "idle" /\ (restarts' = 0 => RankedByNumber')
    <2> DEFINE j == c.job
    <2>1. /\ j \in live /\ c.op = "regist" /\ SetScore(j, -1 - j)
          /\ calls' = calls \ {c} /\ known' = known \cup {j}
          /\ UNCHANGED <<live, sc, restarts, job_total_num>>
      BY <1>11 DEF ScRank, Answer, RegistScore
    <2>2. SUFFICES ASSUME restarts = 0 PROVE RankedByNumber'
      BY <1>0, <2>1
    <2>3. RankedByNumber /\ j \in Job /\ j < job_total_num /\ db[j] \in Doc
      BY <1>0, <2>1, <2>2 DEF RankedByNumber, TypeOK
    <2>4. /\ db'[j].score = -1 - j /\ db'[j].round = db[j].round
          /\ \A k \in live : k # j => db'[k] = db[k]
      <3>1. PICK doc : doc = [db[j] EXCEPT !.score = -1 - j]
        OBVIOUS
      <3>2. doc.score = -1 - j /\ doc.round = db[j].round
        BY <2>3, <3>1 DEF Doc
      <3>3. db' = [db EXCEPT ![j] = doc]
        BY <2>1, <3>1 DEF SetScore
      <3> QED BY <1>0, <2>3, <3>2, <3>3 DEF TypeOK
    <2>5. \A k \in Job : k >= job_total_num' => k \notin known'
      BY <1>0, <2>1, <2>3, Bounds DEF RankedByNumber, TypeOK
    <2>6. \A e \in calls' : e.op = "regist" => e.job < job_total_num'
      BY <2>1, <2>3 DEF RankedByNumber
    <2>7. \A k \in live' : db'[k].round # -1 => k \in known'
      BY <2>1, <2>3, <2>4 DEF RankedByNumber
    <2>8. \A k \in live' \cap known' : db'[k].score = -1 - k
      BY <2>1, <2>3, <2>4 DEF RankedByNumber
    <2> QED BY <2>5, <2>6, <2>7, <2>8 DEF RankedByNumber
  <1>12. ASSUME NEW c \in calls, ScPass(c) \/ ScMissing(c)
         PROVE  sc'.pc = "idle" /\ (restarts' = 0 => RankedByNumber')
    <2>1. UNCHANGED <<live, db, sc, restarts, job_total_num, known>> /\ calls' \subseteq calls
      <3>1. CASE ScPass(c)
        <4>1. c.op # "regist"
          BY <3>1 DEF ScPass
        <4> QED BY <3>1, <4>1 DEF ScPass, Answer
      <3>2. CASE ScMissing(c)
        BY <3>2 DEF ScMissing
      <3> QED BY <1>12, <3>1, <3>2
    <2> QED BY <1>0, <1>1, <2>1, KeptSome
  <1>13. \A c \in calls : ~ ScDemand(c)
    BY DEF ScDemand
  <1>14. ~ ScAmount /\ ~ ScGone /\ ~ ScScore
    BY <1>0 DEF ScAmount, ScGone, ScScore
  <1> QED
    BY <1>0, <1>1, <1>2, <1>3, <1>5, <1>6, <1>7, <1>8, <1>9, <1>10, <1>11, <1>12, <1>13,
       <1>14, Elsewhere
    DEF Next, JobManagerStretch, SchedulerTake, SchedulerStretch, AcceptStep

-----------------------------------------------------------------------------
(* Ranks of the srsf scheduler.                                            *)

LEMMA SrsfInit == Init => SrsfInv
  BY DEF Init, SrsfInv

(* A rank stays right while the scheduler does nothing and clients are     *)
(* let in.                                                                 *)
LEMMA RankKept ==
  ASSUME TypeOK, TypeOK', UNCHANGED sc, NEW j \in live', Kept({j}), RankOf(j)
  PROVE  RankOf(j)'
  <1>1. /\ j \in Job /\ db'[j].score = db[j].score
        /\ db'[j].demand = db[j].demand /\ db[j].amount <= db'[j].amount
    BY DEF Kept
  <1>2. /\ db[j].score \in Int /\ db[j].demand \in Nat /\ db[j].amount \in Nat
        /\ db'[j].amount \in Nat /\ sc.amount \in Nat
    BY <1>1 DEF TypeOK, Doc, ScState
  <1>3. CASE sc.pc # "idle" /\ sc.call.job = j
    <2>1. sc.demand = db[j].demand /\ (sc.pc = "amount" => sc.amount <= db[j].amount)
      BY <1>3 DEF RankOf
    <2>2. sc.pc = "amount" => sc.amount <= db'[j].amount
      BY <1>1, <1>2, <2>1
    <2> QED BY <1>1, <1>3, <2>1, <2>2 DEF RankOf
  <1>4. CASE ~ (sc.pc # "idle" /\ sc.call.job = j)
    <2>1. -db[j].score \in (db[j].demand - db[j].amount) .. db[j].demand
      BY <1>4 DEF RankOf
    <2>2. -db'[j].score \in (db'[j].demand - db'[j].amount) .. db'[j].demand
      BY <1>1, <1>2, <2>1
    <2> QED BY <1>4, <2>2 DEF RankOf
  <1> QED BY <1>3, <1>4

LEMMA RanksFrame ==
  ASSUME TypeOK, TypeOK', \A j \in live : RequestsTaken(j) => RankOf(j), UNCHANGED sc,
         \A j \in live' : RequestsTaken(j)' => RequestsTaken(j) /\ Kept({j})
  PROVE  \A j \in live' : RequestsTaken(j)' => RankOf(j)'
  <1> SUFFICES ASSUME NEW j \in live', RequestsTaken(j)'
               PROVE  RankOf(j)'
    OBVIOUS
  <1>1. RequestsTaken(j) /\ Kept({j})
    OBVIOUS
  <1>2. RankOf(j)
    BY <1>1 DEF Kept
  <1> QED BY <1>1, <1>2, RankKept

(* Requests that are no longer known to the scheduler cannot be forgotten  *)
(* by a step that only adds calls and only ends an estimate with a call.   *)
LEMMA TakenFrame ==
  ASSUME NEW j \in live', Kept({j}), RequestsTaken(j)',
         \A c \in calls : c.op = "request" /\ c.job = j => c \in calls',
         Estimating /\ jm.job = j => Estimating' /\ jm'.job = j
  PROVE  RequestsTaken(j)
  <1>1. db[j].round = db'[j].round
    BY DEF Kept
  <1>2. db[j].round \in Round
    BY <1>1 DEF RequestsTaken, Round
  <1>3. \A c \in calls : c.op = "request" => c.job # j
    BY DEF RequestsTaken
  <1>4. jm.pc \in {"estimate", "estimating"} => jm.job # j
    BY DEF RequestsTaken, Estimating
  <1> QED BY <1>2, <1>3, <1>4 DEF RequestsTaken

LEMMA SrsfStep == IInv /\ SrsfInv /\ [Next]_vars => SrsfInv'
  <1> DEFINE Ranks == \A j \in live' : RequestsTaken(j)' => RankOf(j)'
  <1> SUFFICES ASSUME IInv, SrsfInv, [Next]_vars, Alg = "srsf"
               PROVE  Ranks
    BY DEF SrsfInv
  <1> USE DEF jobVars
  <1>0. TypeOK /\ TypeOK' /\ \A j \in live : RequestsTaken(j) => RankOf(j)
    BY TypeStep DEF IInv, SrsfInv
  <1> HIDE DEF Ranks
  <1>1. ASSUME UNCHANGED sc,
               \A j \in live' : RequestsTaken(j)' => RequestsTaken(j) /\ Kept({j})
        PROVE  Ranks
    BY <1>0, <1>1, RanksFrame DEF Ranks
  <1>2. ASSUME UNCHANGED sc, Kept(live'),
               \A c \in calls : c.op = "request" /\ c.job \in live' => c \in calls',
               Estimating /\ jm.job \in live' => Estimating' /\ jm'.job = jm.job
        PROVE  Ranks
    <2>1. ASSUME NEW j \in live', RequestsTaken(j)'
          PROVE  RequestsTaken(j) /\ Kept({j})
      <3>1. Kept({j})
        BY <1>2 DEF Kept
      <3> QED BY <1>2, <2>1, <3>1, TakenFrame
    <2> QED BY <1>1, <1>2, <2>1
  <1>3. ASSUME NEW d \in Demand, NEW t \in TotalRound, JobRegist(d, t)
        PROVE  Ranks
    <2>1. PICK new : new = job_total_num
      OBVIOUS
    <2>2. /\ live' = live \cup {new} /\ new \in Job /\ UNCHANGED <<sc, jm>>
          /\ calls \subseteq calls' /\ db' = [db EXCEPT ![new] = RegisteredDoc(d, t)]
      BY <1>3, <2>1 DEF JobRegist
    <2>3. db'[new].round = -1 /\ \A k \in live : k # new => db'[k] = db[k]
      BY <1>0, <2>2 DEF TypeOK, RegisteredDoc, NoDoc
    <2>4. ASSUME NEW j \in live', RequestsTaken(j)'
          PROVE  RequestsTaken(j) /\ Kept({j})
      <3>1. j # new
        BY <2>3, <2>4, Bounds DEF RequestsTaken
      <3>2. j \in live /\ j \in Job /\ db[j].amount \in Nat
        BY <1>0, <2>2, <3>1 DEF TypeOK, Doc
      <3>3. Kept({j})
        BY <2>3, <3>1, <3>2 DEF Kept
      <3>4. \A c \in calls : c \in calls'
        BY <2>2
      <3>5. Estimating /\ jm.job = j => Estimating' /\ jm'.job = j
        BY <2>2 DEF Estimating
      <3> QED BY <2>4, <3>3, <3>4, <3>5, TakenFrame
    <2> QED BY <1>1, <2>2, <2>4
  <1>4. ASSUME NEW j \in Job, NEW d \in Demand, JobRequest(j, d)
        PROVE  Ranks
    <2>1. /\ UNCHANGED <<live, sc, calls>> /\ jm.pc = "idle"
          /\ db' = [db EXCEPT ![j] = Requested(db[j], d)]
      BY <1>4 DEF JobRequest, Idle
    <2>2. jm'.pc = "estimate" /\ jm'.job = j
      BY <1>4 DEF JobRequest, ThenEstimate, NoJm
    <2>3. ASSUME NEW k \in live', RequestsTaken(k)'
          PROVE  RequestsTaken(k) /\ Kept({k})
      <3>1. k # j
        BY <2>2, <2>3 DEF RequestsTaken
      <3>2. k \in live /\ k \in Job /\ db[k].amount \in Nat /\ db'[k] = db[k]
        BY <1>0, <2>1, <3>1 DEF TypeOK, Doc
      <3>3. Kept({k})
        BY <3>2 DEF Kept
      <3> QED BY <2>1, <2>3, <3>3, TakenFrame DEF Estimating
    <2> QED BY <1>1, <2>1, <2>3
  <1>5. ASSUME NEW S \in SUBSET live, Remove(S), UNCHANGED <<sc, calls>>, Idle
        PROVE  Ranks
    <2>1. Kept(live')
      BY <1>0, <1>5, KeptRemove
    <2> QED BY <1>2, <1>5, <2>1 DEF Idle, Estimating
  <1>6. ASSUME NEW j \in Job, NEW d \in Demand,
               JobRequestFinal(j, d) \/ JobRequestMissing(j, d)
        PROVE  Ranks
    <2>1. CASE JobRequestFinal(j, d)
      <3>1. {j} \in SUBSET live
        BY <2>1 DEF JobRequestFinal
      <3> QED BY <1>5, <2>1, <3>1 DEF JobRequestFinal
    <2>2. CASE JobRequestMissing(j, d)
      <3>1. UNCHANGED <<live, db, sc, calls>> /\ jm.pc = "idle"
        BY <2>2 DEF JobRequestMissing, Idle
      <3>2. Kept(live')
        BY <1>0, <3>1, KeptSome
      <3> QED BY <1>2, <3>1, <3>2 DEF Estimating
    <2> QED BY <1>6, <2>1, <2>2
  <1>7. CASE EstimateSkip \/ EstimateExec
    <2>0. PICK call : call = [op |-> "request", job |-> jm.job, round |-> jm.round]
      OBVIOUS
    <2>1. UNCHANGED sc /\ calls' = calls \cup {call}
      BY <1>7, <2>0 DEF EstimateSkip, EstimateExec, AwaitScheduler
    <2>2. Kept(live')
      BY <1>0, <1>7, KeptSome, KeptCommits DEF EstimateSkip
    <2>3. ASSUME NEW k \in live', RequestsTaken(k)'
          PROVE  RequestsTaken(k) /\ Kept({k})
      <3>1. k # jm.job
        BY <2>0, <2>1, <2>3 DEF RequestsTaken
      <3>2. Kept({k})
        BY <2>2 DEF Kept
      <3>3. \A c \in calls : c \in calls'
        BY <2>1
      <3> QED BY <2>3, <3>1, <3>2, <3>3, TakenFrame
    <2> QED BY <1>1, <2>1, <2>3
  <1>8. CASE EndRequestExec \/ \E m \in CM : AcceptExec(m)
    <2>1. UNCHANGED <<sc, calls>>
      BY <1>8 DEF EndRequestExec, AcceptExec
    <2>2. Estimating => UNCHANGED jm
      BY <1>8 DEF EndRequestExec, AcceptExec, Estimating
    <2>3. Kept(live')
      BY <1>8, KeptCommits
    <2> QED BY <1>2, <2>1, <2>2, <2>3 DEF Estimating
  <1>9. CASE Prune
    <2>1. Prunable \in SUBSET live
      BY <1>0 DEF TypeOK, Prunable
    <2> QED BY <1>5, <1>9, <2>1 DEF Prune
  <1>10. CASE JobManagerRestart
    BY <1>10 DEF JobManagerRestart, Remove, Ranks
  <1>11. ASSUME NEW c \in calls, ScPass(c) \/ ScMissing(c)
         PROVE  Ranks
    <2>1. UNCHANGED <<live, db, sc, jm>> /\ calls' = calls \ {c}
      BY <1>11 DEF ScPass, ScMissing, Answer
    <2>2. ~ (c.op = "request" /\ c.job \in live')
      BY <1>11, <2>1 DEF ScPass, ScMissing
    <2>3. Kept(live')
      BY <1>0, <2>1, KeptSome
    <2> QED BY <1>2, <2>1, <2>2, <2>3 DEF Estimating
  <1>12. \A c \in calls : ~ ScRank(c)
    BY DEF ScRank
  <1>13. ASSUME NEW c \in calls, ScDemand(c)
         PROVE  Ranks
    <2>1. /\ UNCHANGED <<live, db, jm>> /\ calls' = calls \ {c} /\ sc.pc = "idle"
          /\ sc'.pc = "demand" /\ sc'.call = c /\ sc'.demand = db[c.job].demand
      BY <1>13 DEF ScDemand, NoSc
    <2>2. ASSUME NEW k \in live', RequestsTaken(k)'
          PROVE  RankOf(k)'
      <3>1. CASE k = c.job
        BY <2>1, <3>1 DEF RankOf
      <3>2. CASE k # c.job
        <4>1. RequestsTaken(k)
          BY <2>1, <2>2, <3>2 DEF RequestsTaken, Round
        <4>2. RankOf(k)
          BY <1>0, <2>1, <4>1
        <4> QED BY <2>1, <3>2, <4>2 DEF RankOf
      <3> QED BY <3>1, <3>2
    <2> QED BY <2>2 DEF Ranks
  <1>14. CASE ScAmount
    <2>1. /\ UNCHANGED <<live, db, jm, calls>> /\ sc.pc = "demand"
          /\ sc'.pc = "amount" /\ sc'.call = sc.call /\ sc'.demand = sc.demand
          /\ sc'.amount = db[sc.call.job].amount
      BY <1>0, <1>14 DEF ScAmount, TypeOK, ScState
    <2>2. ASSUME NEW k \in live', RequestsTaken(k)'
          PROVE  RankOf(k)'
      <3>1. RequestsTaken(k)
        BY <2>1, <2>2 DEF RequestsTaken, Round
      <3>2. RankOf(k) /\ db[k].amount \in Nat
        BY <1>0, <2>1, <3>1 DEF TypeOK, Doc
      <3>3. CASE k = sc.call.job
        <4>1. sc.demand = db[k].demand
          BY <2>1, <3>2, <3>3 DEF RankOf
        <4>2. sc'.amount <= db'[k].amount
          BY <2>1, <3>2, <3>3
        <4> QED BY <2>1, <3>3, <4>1, <4>2 DEF RankOf
      <3>4. CASE k # sc.call.job
        BY <2>1, <3>2, <3>4 DEF RankOf
      <3> QED BY <3>3, <3>4
    <2> QED BY <2>2 DEF Ranks
  <1>15. CASE ScGone
    <2>1. /\ UNCHANGED <<live, db, jm, calls>> /\ sc.call.job \notin live
          /\ sc'.pc = "idle"
      BY <1>15 DEF ScGone, NoSc
    <2>2. ASSUME NEW k \in live', RequestsTaken(k)'
          PROVE  RankOf(k)'
      <3>1. RequestsTaken(k)
        BY <2>1, <2>2 DEF RequestsTaken, Round
      <3>2. RankOf(k) /\ k # sc.call.job
        BY <1>0, <2>1, <3>1
      <3> QED BY <2>1, <3>2 DEF RankOf
    <2> QED BY <2>2 DEF Ranks
  <1>16. CASE ScScore
    <2>1. PICK j \in Job : j = sc.call.job
      BY <1>0 DEF TypeOK, ScState, Call
    <2>2. PICK score \in Int :
            score = IF sc.demand - sc.amount > 0 THEN -(sc.demand - sc.amount) ELSE 0
      BY <1>0 DEF TypeOK, ScState
    <2>3. /\ UNCHANGED <<live, jm, calls>> /\ sc.pc = "amount" /\ sc'.pc = "idle"
          /\ db' = IF j \in live THEN [db EXCEPT ![j].score = score] ELSE db
      BY <1>16, <2>1, <2>2 DEF ScScore, SetScore, NoSc
    <2>4. ASSUME NEW k \in live', RequestsTaken(k)'
          PROVE  RankOf(k)'
      <3>0. k \in live /\ k \in Job /\ db[k] \in Doc
        BY <1>0, <2>3 DEF TypeOK
      <3>1. CASE k = j
        <4>1. PICK doc : doc = [db[j] EXCEPT !.score = score]
          OBVIOUS
        <4>2. /\ doc.score = score /\ doc.demand = db[j].demand
              /\ doc.amount = db[j].amount /\ doc.round = db[j].round
          BY <3>0, <3>1, <4>1 DEF Doc
        <4>3. db'[j] = doc
          BY <1>0, <2>3, <3>0, <3>1, <4>1 DEF TypeOK
        <4>4. RequestsTaken(k)
          BY <2>3, <2>4, <3>1, <4>2, <4>3 DEF RequestsTaken, Round
        <4>5. sc.demand = db[j].demand /\ sc.amount <= db[j].amount
          BY <1>0, <2>1, <2>3, <3>0, <3>1, <4>4 DEF RankOf
        <4>6. db[j].demand \in Nat /\ db[j].amount \in Nat /\ sc.amount \in Nat
          BY <1>0, <3>0, <3>1 DEF TypeOK, Doc, ScState
        <4>7. -score \in (db[j].demand - db[j].amount) .. db[j].demand
          BY <2>2, <4>5, <4>6
        <4> QED BY <2>3, <3>1, <4>2, <4>3, <4>7 DEF RankOf
      <3>2. CASE k # j
        <4>1. db'[k] = db[k]
          BY <1>0, <2>3, <3>0, <3>2 DEF TypeOK
        <4>2. RequestsTaken(k)
          BY <2>3, <2>4, <4>1 DEF RequestsTaken, Round
        <4>3. RankOf(k)
          BY <1>0, <3>0, <4>2
        <4> QED BY <2>1, <2>3, <3>2, <4>1, <4>3 DEF RankOf
      <3> QED BY <3>1, <3>2
    <2> QED BY <2>4 DEF Ranks
  <1>17. ASSUME UNCHANGED <<live, db, calls, known, sc, restarts, job_total_num>>,
                Estimating' = Estimating /\ (Estimating => jm'.job = jm.job),
                Kept(live')
         PROVE  Ranks
    BY <1>2, <1>17
  <1>18. ASSUME NEW j \in Job, JobFinish(j)
         PROVE  Ranks
    <2>1. {j} \in SUBSET live
      BY <1>18 DEF JobFinish
    <2> QED BY <1>5, <1>18, <2>1 DEF JobFinish
  <1> QED
    BY <1>0, <1>18, <1>3, <1>4, <1>6, <1>7, <1>8, <1>9, <1>10, <1>11, <1>12, <1>13, <1>14,
       <1>15, <1>16, <1>17, Elsewhere
    DEF Next, JobManagerStretch, SchedulerTake, SchedulerStretch, AcceptStep

-----------------------------------------------------------------------------
(* What the ranks and the estimate rest on, in every reachable state.      *)

THEOREM EstimateAndRanks == Spec => [](IInv /\ EstimateInv /\ FifoInv /\ SrsfInv)
  <1> DEFINE All == IInv /\ EstimateInv /\ FifoInv /\ SrsfInv
  <1>1. Init => All
    BY InitInv, EstimateInit, FifoInit, SrsfInit
  <1>2. All /\ [Next]_vars => All'
    BY InvStep, EstimateStep, FifoStep, SrsfStep
  <1> QED BY <1>1, <1>2, PTL DEF Spec

(* The estimate of the total demand of a job within its announced rounds   *)
(* covers the service it has attained and the round that is open, unless   *)
(* the job manager is about to estimate, although clients close rounds     *)
(* while update_total_demand_estimate() is between its WATCH and its EXEC. *)
THEOREM EstimatesCover == Spec => []EstimateCoversRound
  <1>1. EstimateInv => EstimateCoversRound
    BY DEF EstimateInv
  <1> QED BY <1>1, EstimateAndRanks, PTL

(* The srsf scheduler, which reads demand and amount in two steps while    *)
(* rounds open and close, leaves no job with the score of an earlier round *)
(* once it has dealt with all its requests.                                *)
THEOREM ScoresTrackOpenRound == ASSUME Alg = "srsf" PROVE Spec => []ScoreTracksOpenRound
  <1>1. SrsfInv => ScoreTracksOpenRound
    <2> SUFFICES ASSUME SrsfInv, NEW j \in live, Ranked(j)
                 PROVE  -db[j].score \in (db[j].demand - db[j].amount) .. db[j].demand
      BY DEF ScoreTracksOpenRound
    <2>1. RequestsTaken(j) /\ ~ (sc.pc # "idle" /\ sc.call.job = j)
      BY DEF Ranked, RequestsTaken
    <2>2. RankOf(j)
      BY <2>1 DEF SrsfInv
    <2> QED BY <2>1, <2>2 DEF RankOf
  <1> QED BY <1>1, EstimateAndRanks, PTL

(* Under fifo the open jobs rank in the order of their registration as     *)
(* long as the job manager has not restarted: no round opens before the    *)
(* registration was ranked, because a job learns its id only then.         *)
THEOREM FifoOrder ==
  ASSUME Alg = "fifo"
  PROVE  Spec => [](restarts = 0 => OpenJobsInFifoOrder)
  <1>1. IInv /\ FifoInv => (restarts = 0 => OpenJobsInFifoOrder)
    <2> SUFFICES ASSUME IInv, RankedByNumber, NEW i \in live, NEW j \in live,
                        i < j, Open(db[i]), Open(db[j])
                 PROVE  db[i].score > db[j].score
      BY DEF FifoInv, OpenJobsInFifoOrder
    <2>1. ASSUME NEW k \in live, Open(db[k])
          PROVE  k \in Nat /\ db[k].score = -1 - k
      <3>1. k \in Job /\ db[k] \in Doc /\ AmountCountsClients
        BY DEF IInv, TypeOK
      <3>2. db[k].round # -1
        BY <2>1, <3>1 DEF AmountCountsClients, Open
      <3> QED BY <3>1, <3>2, Bounds DEF RankedByNumber
    <2> QED BY <2>1
  <1> QED BY <1>1, EstimateAndRanks, PTL

(* With no restart at all, this is the order that a run checks.            *)
THEOREM FifoOrderWithoutRestart ==
  ASSUME Alg = "fifo", MaxRestart = 0
  PROVE  Spec => []OpenJobsInFifoOrder
  <1>1. TypeOK => restarts = 0
    BY DEF TypeOK
  <1> QED BY <1>1, TypeCorrect, FifoOrder, PTL
=============================================================================
