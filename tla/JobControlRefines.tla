------------------------- MODULE JobControlRefines -------------------------
(***************************************************************************)
(* JobControl implements JobLedger, for every value of the constants: each *)
(* EXEC that succeeds is one step of the ledger, and everything else a     *)
(* process does with the database is a stutter.                            *)
(***************************************************************************)
EXTENDS JobControlProofs, Sums

LRound   == [j \in Job |-> db[j].round]
LLeft    == [j \in Job |-> db[j].demand - db[j].amount]
LService == [j \in Job |-> db[j].attained_service]
LSettled == [j \in Job |-> db[j].total_sched]

LEMMA View ==
  ASSUME NEW j \in Job
  PROVE  /\ LRound[j] = db[j].round
         /\ LLeft[j] = db[j].demand - db[j].amount
         /\ LService[j] = db[j].attained_service
         /\ LSettled[j] = db[j].total_sched
  BY DEF LRound, LLeft, LService, LSettled

(* The ledger's view of a write of one document.                           *)
LEMMA ViewWrite ==
  ASSUME TypeOK, NEW j \in Job, NEW doc, db' = [db EXCEPT ![j] = doc]
  PROVE  /\ LRound' = [LRound EXCEPT ![j] = doc.round]
         /\ LLeft' = [LLeft EXCEPT ![j] = doc.demand - doc.amount]
         /\ LService' = [LService EXCEPT ![j] = doc.attained_service]
         /\ LSettled' = [LSettled EXCEPT ![j] = doc.total_sched]
  BY DEF TypeOK, LRound, LLeft, LService, LSettled

LEMMA ViewSameRound ==
  ASSUME TypeOK, NEW j \in Job, NEW doc, db' = [db EXCEPT ![j] = doc],
         doc.round = db[j].round
  PROVE  UNCHANGED LRound
  BY DEF TypeOK, LRound

LEMMA ViewSameService ==
  ASSUME TypeOK, NEW j \in Job, NEW doc, db' = [db EXCEPT ![j] = doc],
         doc.attained_service = db[j].attained_service,
         doc.total_sched = db[j].total_sched
  PROVE  UNCHANGED <<LService, LSettled>>
  BY DEF TypeOK, LService, LSettled

LEMMA ViewSame ==
  ASSUME TypeOK, NEW j \in Job, NEW doc, db' = [db EXCEPT ![j] = doc],
         doc.round = db[j].round, doc.demand = db[j].demand,
         doc.amount = db[j].amount, doc.attained_service = db[j].attained_service,
         doc.total_sched = db[j].total_sched
  PROVE  UNCHANGED <<LRound, LLeft, LService, LSettled>>
  <1>1. UNCHANGED LRound /\ UNCHANGED <<LService, LSettled>>
    BY ViewSameRound, ViewSameService
  <1>2. UNCHANGED LLeft
    BY DEF TypeOK, LLeft
  <1> QED BY <1>1, <1>2

LEMMA ViewVars ==
  ASSUME UNCHANGED <<live, LRound, LLeft, LService, LSettled, book>>
  PROVE  UNCHANGED Ledger!ledgerVars
  BY DEF Ledger!ledgerVars, LRound, LLeft, LService, LSettled

LEMMA NotLast ==
  ASSUME NEW page \in Page, NEW doc, Open(doc)
  PROVE  PageLetIn(page, doc) = [page EXCEPT !.given = page.given + 1]
  BY DEF PageLetIn, Page

LEMMA LedgerStep ==
  ASSUME NEW j \in Job, Ledger!Enter(j) \/ Ledger!LetIn(j) \/ Ledger!EndEarly(j)
  PROVE  Ledger!Next
  BY DEF Ledger!Next

LEMMA LedgerInit == Init => Ledger!Init
  BY DEF Init, Ledger!Init, Ledger!Blank, NoDoc, NoPage

LEMMA RemoveLeaves ==
  ASSUME TypeOK, NEW S \in SUBSET live, Remove(S), UNCHANGED book
  PROVE  Ledger!Leave(S)
  BY DEF TypeOK, Remove, NoDoc, Ledger!Leave, Ledger!NoAccount

LEMMA RefineStep == IInv /\ [Next]_vars => [Ledger!Next]_(Ledger!ledgerVars)
  <1> SUFFICES ASSUME IInv, [Next]_vars
               PROVE  [Ledger!Next]_(Ledger!ledgerVars)
    OBVIOUS
  <1> USE DEF jobVars
  <1>0. TypeOK
    BY DEF IInv
  <1>1. ASSUME UNCHANGED <<live, db, book>>
        PROVE  UNCHANGED Ledger!ledgerVars
    BY <1>1 DEF Ledger!ledgerVars
  <1>2. ASSUME NEW d \in Demand, NEW t \in TotalRound, JobRegist(d, t)
        PROVE  Ledger!Next
    <2> DEFINE j == job_total_num
               doc == RegisteredDoc(d, t)
    <2>1. j \in Job /\ j \notin live /\ live' = live \cup {j} /\ UNCHANGED book
          /\ db' = [db EXCEPT ![j] = doc]
      BY <1>2 DEF JobRegist
    <2>2. db[j] = NoDoc
      BY <2>1 DEF IInv, Blanks
    <2>3. /\ doc.round = db[j].round /\ doc.demand = db[j].demand
          /\ doc.amount = db[j].amount
          /\ doc.attained_service = db[j].attained_service
          /\ doc.total_sched = db[j].total_sched
      BY <2>2 DEF RegisteredDoc, NoDoc
    <2> HIDE DEF doc
    <2>4. UNCHANGED <<LRound, LLeft, LService, LSettled>>
      BY <1>0, <2>1, <2>3, ViewSame
    <2>5. Ledger!Enter(j)
      BY <2>1, <2>4 DEF Ledger!Enter, LRound, LLeft, LService, LSettled
    <2> QED BY <2>1, <2>5 DEF Ledger!Next
  <1>3. ASSUME NEW j \in Job, NEW d \in Demand, JobRequest(j, d)
        PROVE  Ledger!Next
    <2> DEFINE doc == Requested(db[j], d)
    <2>1. /\ j \in live /\ db[j].round + 1 \in Round
          /\ UNCHANGED live /\ db' = [db EXCEPT ![j] = doc]
          /\ WritePage(j, db[j].round + 1, [NoPage EXCEPT !.asked = d])
      BY <1>3 DEF JobRequest
    <2>2. /\ doc.round = db[j].round + 1 /\ doc.demand = d /\ doc.amount = 0
          /\ doc.attained_service = db[j].attained_service
          /\ doc.total_sched = db[j].total_sched
          /\ d - 0 = d
      BY <1>0, Bounds DEF TypeOK, Doc, Requested
    <2> HIDE DEF doc
    <2>3. /\ LRound' = [LRound EXCEPT ![j] = LRound[j] + 1]
          /\ LLeft' = [LLeft EXCEPT ![j] = d]
          /\ UNCHANGED <<LService, LSettled>>
      <3>1. /\ LRound' = [LRound EXCEPT ![j] = doc.round]
            /\ LLeft' = [LLeft EXCEPT ![j] = doc.demand - doc.amount]
        BY <1>0, <2>1, ViewWrite
      <3>2. doc.round = LRound[j] + 1
        BY <2>2, View
      <3>3. doc.demand - doc.amount = d
        BY <2>2, Bounds
      <3>4. UNCHANGED <<LService, LSettled>>
        BY <1>0, <2>1, <2>2, ViewSameService
      <3> QED BY <3>1, <3>2, <3>3, <3>4, Zenon
    <2>4. /\ LRound[j] + 1 \in Round
          /\ WritePage(j, LRound[j] + 1, [Ledger!Blank EXCEPT !.asked = d])
      BY <2>1 DEF LRound, NoPage, Ledger!Blank
    <2>5. Ledger!NewRound(j, d)
      BY <2>1, <2>3, <2>4
      DEF Ledger!NewRound, Ledger!WritePage, WritePage, LRound, LLeft, LService, LSettled
    <2> QED BY <2>5 DEF Ledger!Next
  <1>4. ASSUME NEW S \in SUBSET live, Remove(S), UNCHANGED book
        PROVE  Ledger!Next
    BY <1>0, <1>4, RemoveLeaves DEF Ledger!Next
  <1>5. ASSUME NEW j \in Job, NEW d \in Demand, JobRequestFinal(j, d)
        PROVE  Ledger!Next
    BY <1>4, <1>5 DEF JobRequestFinal
  <1>6. CASE EstimateExec
    <2> DEFINE j == jm.job
               doc == Estimated(db[j], jm.service, jm.demand)
    <2>1. j \in live /\ j \in Job
      BY <1>0, <1>6 DEF EstimateExec, IInv, EndingFresh, TypeOK
    <2>2. /\ doc.round = db[j].round /\ doc.demand = db[j].demand
          /\ doc.amount = db[j].amount
          /\ doc.attained_service = db[j].attained_service
          /\ doc.total_sched = db[j].total_sched
      BY <1>0, <2>1 DEF TypeOK, Doc, Estimated
    <2>3. UNCHANGED <<live, book>> /\ db' = [db EXCEPT ![j] = doc]
      BY <1>6 DEF EstimateExec
    <2> HIDE DEF doc
    <2> QED BY <1>0, <2>1, <2>2, <2>3, ViewSame, ViewVars
  <1>7. CASE EndRequestExec
    <2>0. PICK j \in Job : j = jm.job
      BY <1>0, <1>7 DEF EndRequestExec, IInv, EndingFresh, TypeOK
    <2> DEFINE doc == Ended(db[j], jm.demand)
               r == db[j].round
    <2>1. j \in live /\ jm.demand = db[j].demand /\ Open(db[j])
          /\ db[j] \in Doc
      BY <1>0, <1>7, <2>0 DEF EndRequestExec, IInv, EndingFresh, TypeOK
    <2>2. book[j][r] \in Page /\ book[j][r].asked = db[j].demand
      BY <2>1, OpenPage
    <2>3. /\ doc.round = r /\ doc.demand = db[j].demand /\ doc.amount = db[j].demand
          /\ doc.attained_service = db[j].attained_service + book[j][r].asked
          /\ doc.total_sched = db[j].total_sched + 1
      BY <2>1, <2>2 DEF Doc, Ended, Settled
    <2>4. doc.demand - doc.amount = 0
      BY <2>1, <2>3 DEF Doc
    <2>5. /\ UNCHANGED live /\ db' = [db EXCEPT ![j] = doc]
          /\ WritePage(j, r, ClosedPage(book[j][r]))
      BY <1>7, <2>0 DEF EndRequestExec
    <2> HIDE DEF doc
    <2>6. /\ UNCHANGED LRound
          /\ LLeft' = [LLeft EXCEPT ![j] = 0]
          /\ LService' = [LService EXCEPT ![j] = LService[j] + book[j][r].asked]
          /\ LSettled' = [LSettled EXCEPT ![j] = LSettled[j] + 1]
      <3>1. /\ LLeft' = [LLeft EXCEPT ![j] = doc.demand - doc.amount]
            /\ LService' = [LService EXCEPT ![j] = doc.attained_service]
            /\ LSettled' = [LSettled EXCEPT ![j] = doc.total_sched]
        BY <1>0, <2>1, <2>5, ViewWrite
      <3>2. UNCHANGED LRound
        BY <1>0, <2>1, <2>3, <2>5, ViewSameRound
      <3>3. doc.attained_service = LService[j] + book[j][r].asked
            /\ doc.total_sched = LSettled[j] + 1
        BY <2>1, <2>3, View
      <3> QED BY <2>4, <3>1, <3>2, <3>3, Zenon
    <2>7. LLeft[j] > 0 /\ LRound[j] = r
      BY <2>1 DEF LLeft, LRound, Open, Doc
    <2>8. ClosedPage(book[j][r])
            = [book[j][r] EXCEPT !.given = book[j][r].given, !.closed = TRUE]
      BY <2>2 DEF ClosedPage, Page
    <2>9. Ledger!Close(j, book[j][LRound[j]].given)
      BY <2>5, <2>6, <2>7, <2>8
      DEF Ledger!Close, Ledger!WritePage, WritePage, LRound, LLeft, LService, LSettled
    <2>10. Ledger!EndEarly(j)
      BY <2>1, <2>5, <2>6, <2>7, <2>9
      DEF Ledger!EndEarly, LRound, LLeft
    <2> QED BY <2>1, <2>10, LedgerStep
  <1>8. ASSUME NEW j \in Job, JobFinish(j)
        PROVE  Ledger!Next
    BY <1>4, <1>8 DEF JobFinish
  <1>9. CASE Prune
    <2>1. Prunable \in SUBSET live
      BY <1>0 DEF TypeOK, Prunable
    <2> QED BY <1>4, <1>9, <2>1 DEF Prune
  <1>10. CASE JobManagerRestart
    <2>1. live' = {} /\ db' = [j \in Job |-> NoDoc]
          /\ book' = [j \in Job |-> [r \in Round |-> NoPage]]
      BY <1>10 DEF JobManagerRestart, Remove, IInv, Blanks
    <2>2. Ledger!Wipe
      BY <2>1 DEF Ledger!Wipe, Ledger!NoAccount, Ledger!Blank, NoDoc, NoPage
    <2> QED BY <2>2 DEF Ledger!Next
  <1>11. ASSUME NEW j \in Job, NEW score \in Int, SetScore(j, score),
                UNCHANGED <<live, book>>
         PROVE  UNCHANGED Ledger!ledgerVars
    <2>1. CASE j \notin live
      BY <1>1, <1>11, <2>1 DEF SetScore
    <2>2. CASE j \in live
      <3> DEFINE doc == [db[j] EXCEPT !.score = score]
      <3>1. /\ doc.round = db[j].round /\ doc.demand = db[j].demand
            /\ doc.amount = db[j].amount
            /\ doc.attained_service = db[j].attained_service
            /\ doc.total_sched = db[j].total_sched
        BY <1>0 DEF TypeOK, Doc
      <3>2. db' = [db EXCEPT ![j] = doc]
        BY <1>11, <2>2 DEF SetScore
      <3> HIDE DEF doc
      <3> QED BY <1>0, <1>11, <3>1, <3>2, ViewSame, ViewVars
    <2> QED BY <2>1, <2>2
  <1>12. ASSUME NEW c \in calls, ScRank(c)
         PROVE  UNCHANGED Ledger!ledgerVars
    <2>1. PICK score \in RegistScore(c.job) : SetScore(c.job, score)
      BY <1>12 DEF ScRank
    <2>2. c.job \in Job /\ score \in Int
      BY <1>0, Bounds DEF RegistScore, TypeOK, Call
    <2> QED BY <1>11, <1>12, <2>1, <2>2 DEF ScRank
  <1>13. CASE ScScore
    <2> DEFINE score == IF sc.demand - sc.amount > 0 THEN -(sc.demand - sc.amount) ELSE 0
    <2>1. sc.call.job \in Job /\ score \in Int
      BY <1>0 DEF TypeOK, ScState, Call
    <2>2. SetScore(sc.call.job, score) /\ UNCHANGED <<live, book>>
      BY <1>13 DEF ScScore
    <2> QED BY <1>11, <2>1, <2>2
  <1>14. ASSUME NEW m \in CM, AcceptExec(m)
         PROVE  Ledger!Next
    <2>0. PICK j \in Job : j = cm[m].job
      BY <1>0 DEF TypeOK, Txn
    <2> DEFINE r == db[j].round
               doc == Incremented(db[j], cm[m].amount, cm[m].demand)
               last == db[j].amount = db[j].demand - 1
               given == book[j][r].given + 1
    <2>1. TxnFresh(cm[m]) /\ cm[m].pc = "exec"
      BY <1>14 DEF AcceptExec, IInv, TxnsFresh
    <2>2. /\ j \in live /\ db[j] \in Doc /\ Open(db[j])
          /\ cm[m].amount = db[j].amount /\ cm[m].demand = db[j].demand
          /\ cm[m].round = r
      BY <1>0, <2>0, <2>1 DEF TxnFresh, TypeOK, Open
    <2>3. /\ book[j][r] \in Page /\ book[j][r].asked = db[j].demand
          /\ book[j][r].closed = FALSE
      BY <2>2, OpenPage
    <2>4. /\ doc.round = r /\ doc.demand = db[j].demand
          /\ doc.amount = db[j].amount + 1
          /\ doc.attained_service = db[j].attained_service
                                      + (IF last THEN book[j][r].asked ELSE 0)
          /\ doc.total_sched = db[j].total_sched + (IF last THEN 1 ELSE 0)
      BY <2>2, <2>3 DEF Doc, Incremented, Settled
    <2>5. /\ UNCHANGED live /\ db' = [db EXCEPT ![j] = doc] /\ db'[j] = doc
          /\ WritePage(j, r, PageLetIn(book[j][r], doc))
      BY <1>0, <1>14, <2>0, <2>2 DEF AcceptExec, TypeOK
    <2> HIDE DEF doc
    <2>6. Open(doc) <=> ~last
      BY <2>2, <2>4 DEF Open, Doc
    <2>7. doc.demand - doc.amount = LLeft[j] - 1
      <3>1. LLeft[j] = db[j].demand - db[j].amount
        BY <2>2, View
      <3>2. db[j].demand \in Nat /\ db[j].amount \in Nat
        BY <2>2 DEF Doc
      <3> QED BY <2>4, <3>1, <3>2
    <2>8. /\ UNCHANGED LRound
          /\ LLeft' = [LLeft EXCEPT ![j] = LLeft[j] - 1]
          /\ LService' = [LService EXCEPT ![j] = doc.attained_service]
          /\ LSettled' = [LSettled EXCEPT ![j] = doc.total_sched]
      <3>1. /\ LLeft' = [LLeft EXCEPT ![j] = doc.demand - doc.amount]
            /\ LService' = [LService EXCEPT ![j] = doc.attained_service]
            /\ LSettled' = [LSettled EXCEPT ![j] = doc.total_sched]
        BY <1>0, <2>2, <2>5, ViewWrite
      <3>2. UNCHANGED LRound
        BY <1>0, <2>2, <2>4, <2>5, ViewSameRound
      <3> QED BY <2>7, <3>1, <3>2, Zenon
    <2>9. LRound[j] = r /\ LLeft[j] > 0 /\ LLeft[j] \in Int
          /\ (LLeft[j] = 1 <=> last)
      BY <2>2, View DEF Open, Doc
    <2>10. CASE last
      <3>1. /\ LLeft[j] = 1
            /\ LLeft' = [LLeft EXCEPT ![j] = 0]
            /\ LService' = [LService EXCEPT ![j] = LService[j] + book[j][r].asked]
            /\ LSettled' = [LSettled EXCEPT ![j] = LSettled[j] + 1]
        <4>1. LLeft[j] = 1 /\ LLeft[j] - 1 = 0
          BY <2>9, <2>10
        <4>2. doc.attained_service = LService[j] + book[j][r].asked
              /\ doc.total_sched = LSettled[j] + 1
          BY <2>2, <2>4, <2>10, View
        <4> QED BY <2>8, <4>1, <4>2, Zenon
      <3>2. WritePage(j, r, [book[j][r] EXCEPT !.given = given, !.closed = TRUE])
        BY <2>3, <2>5, <2>6, <2>10 DEF PageLetIn
      <3>3. Ledger!Close(j, book[j][LRound[j]].given + 1)
        BY <2>9, <3>1, <3>2
        DEF Ledger!Close, Ledger!WritePage, WritePage, LRound, LLeft, LService, LSettled
      <3>4. Ledger!LetIn(j)
        BY <2>2, <2>5, <2>8, <2>9, <3>1, <3>3 DEF Ledger!LetIn, LRound, LLeft
      <3> QED BY <2>2, <3>4, LedgerStep
    <2>11. CASE ~last
      <3>1. LLeft[j] > 1
        BY <2>9, <2>11
      <3>2. doc.attained_service = db[j].attained_service
            /\ doc.total_sched = db[j].total_sched
        BY <2>2, <2>4, <2>11 DEF Doc
      <3>3. UNCHANGED <<LService, LSettled>>
        BY <1>0, <2>2, <2>5, <3>2, ViewSameService
      <3>4. PageLetIn(book[j][r], doc) = [book[j][r] EXCEPT !.given = given]
        <4>1. Open(doc)
          BY <2>6, <2>11
        <4> QED BY <2>3, <4>1, NotLast, Zenon
      <3>5. WritePage(j, r, [book[j][r] EXCEPT !.given = given])
        BY <2>5, <3>4
      <3>6. Ledger!LetIn(j)
        BY <2>2, <2>5, <2>8, <2>9, <3>1, <3>5, <3>3
        DEF Ledger!LetIn, Ledger!WritePage, WritePage, LRound, LLeft, LService, LSettled
      <3> QED BY <2>2, <3>6, LedgerStep
    <2> QED BY <2>10, <2>11
  <1>15. CASE \/ EstimateRead \/ EstimateSkip \/ EstimateRetry \/ EndRequestRetry
              \/ ScAmount \/ ScGone
    BY <1>1, <1>15 DEF EstimateRead, EstimateSkip, EstimateRetry, EndRequestRetry,
       ScAmount, ScGone
  <1>16. ASSUME NEW j \in Job, NEW d \in Demand, JobRequestMissing(j, d)
         PROVE  UNCHANGED Ledger!ledgerVars
    BY <1>1, <1>16 DEF JobRequestMissing
  <1>17. ASSUME NEW j \in Job, EndRequestRead(j) \/ FallSilent(j)
         PROVE  UNCHANGED Ledger!ledgerVars
    BY <1>1, <1>17 DEF EndRequestRead, FallSilent
  <1>18. ASSUME NEW c \in calls, ScPass(c) \/ ScMissing(c) \/ ScDemand(c)
         PROVE  UNCHANGED Ledger!ledgerVars
    BY <1>1, <1>18 DEF ScPass, ScMissing, ScDemand
  <1>19. ASSUME NEW m \in CM, NEW j \in Job, AcceptAmount(m, j)
         PROVE  UNCHANGED Ledger!ledgerVars
    BY <1>1, <1>19 DEF AcceptAmount
  <1>20. ASSUME NEW m \in CM, AcceptDemand(m) \/ AcceptRefuse(m) \/ AcceptRetry(m)
         PROVE  UNCHANGED Ledger!ledgerVars
    BY <1>1, <1>20 DEF AcceptDemand, AcceptRefuse, AcceptRetry
  <1>21. CASE UNCHANGED vars
    BY <1>1, <1>21 DEF vars
  <1> QED
    BY <1>2, <1>3, <1>5, <1>6, <1>7, <1>8, <1>9, <1>10, <1>12, <1>13, <1>14, <1>15,
       <1>16, <1>17, <1>18, <1>19, <1>20, <1>21
    DEF Next, JobManagerStretch, SchedulerTake, SchedulerStretch, AcceptStep

(* The database of JobControl keeps the ledger of rounds: whatever         *)
(* processes and transactions interleave, their effect is that of single   *)
(* steps which let clients in while places are left and settle a round     *)
(* once, when it has none left.                                            *)
THEOREM KeepsLedger == Spec => ImplementsLedger
  <1> QED BY LedgerInit, RefineStep, InvCorrect, PTL DEF Spec, ImplementsLedger, Ledger!Spec

-----------------------------------------------------------------------------
(* What the jobs have attained is what the ledger settled.                 *)

AskedOf(j)  == [r \in Round |-> book[j][r].asked]
Attained(j) == SumOf(AskedOf(j), ClosedRounds(j))

(* ServiceIsClosedRounds and the bound on closed rounds, for one job.      *)
Tallies(j) ==
  /\ \A r \in ClosedRounds(j) : r <= db[j].round
  /\ db[j].total_sched = Cardinality(ClosedRounds(j))
  /\ db[j].attained_service = Attained(j)

LEMMA ClosedFinite ==
  TypeOK => \A j \in Job :
              /\ IsFiniteSet(ClosedRounds(j)) /\ Cardinality(ClosedRounds(j)) \in Nat
              /\ \A r \in Round : AskedOf(j)[r] \in Nat
              /\ Attained(j) \in Nat
  <1> SUFFICES ASSUME TypeOK, NEW j \in Job
               PROVE  /\ IsFiniteSet(ClosedRounds(j)) /\ Cardinality(ClosedRounds(j)) \in Nat
                      /\ \A r \in Round : AskedOf(j)[r] \in Nat
                      /\ Attained(j) \in Nat
    OBVIOUS
  <1>1. IsFiniteSet(Round)
    BY Bounds, FS_Interval DEF Round
  <1>2. ClosedRounds(j) \subseteq Round
    BY DEF ClosedRounds
  <1>3. IsFiniteSet(ClosedRounds(j)) /\ Cardinality(ClosedRounds(j)) \in Nat
    BY <1>1, <1>2, FS_Subset, FS_CardinalityType
  <1>4. \A r \in Round : AskedOf(j)[r] \in Nat
    BY DEF TypeOK, Page, AskedOf
  <1>5. Attained(j) \in Nat
    BY <1>2, <1>3, <1>4, SumType DEF Attained
  <1> QED BY <1>3, <1>4, <1>5

LEMMA ServiceSum ==
  TypeOK => \A j \in Job :
              MapThenSumSet(LAMBDA r : book[j][r].asked, ClosedRounds(j)) = Attained(j)
  <1> SUFFICES ASSUME TypeOK, NEW j \in Job
               PROVE  MapThenSumSet(LAMBDA r : book[j][r].asked, ClosedRounds(j)) = Attained(j)
    OBVIOUS
  <1> DEFINE S == ClosedRounds(j)
             f == AskedOf(j)
             P(F) == F = [s \in SUBSET S |->
                            IF s = {} THEN 0
                            ELSE book[j][CHOOSE x \in s : TRUE].asked
                                 + F[s \ {CHOOSE x \in s : TRUE}]]
  <1>0. IsFiniteSet(S) /\ S \subseteq Round /\ \A r \in S : f[r] \in Nat
    BY ClosedFinite DEF ClosedRounds
  <1>1. ASSUME NEW F PROVE Adds(F, f, S) <=> P(F)
    <2>1. \A s \in SUBSET S : s # {} => (CHOOSE x \in s : TRUE) \in Round
      <3> HIDE DEF S
      <3> QED BY <1>0
    <2>2. \A s \in SUBSET S : s # {} =>
            f[CHOOSE x \in s : TRUE] = book[j][CHOOSE x \in s : TRUE].asked
      <3> HIDE DEF S
      <3> QED BY <2>1 DEF AskedOf
    <2> HIDE DEF f, S
    <2>3. [s \in SUBSET S |-> IF s = {} THEN 0
                              ELSE f[CHOOSE x \in s : TRUE] + F[s \ {CHOOSE x \in s : TRUE}]]
          = [s \in SUBSET S |-> IF s = {} THEN 0
                                ELSE book[j][CHOOSE x \in s : TRUE].asked
                                     + F[s \ {CHOOSE x \in s : TRUE}]]
      BY <2>2
    <2> QED BY <2>3 DEF Adds
  <1> HIDE DEF S
  <1>2. MapThenSumSet(LAMBDA r : book[j][r].asked, S) = (CHOOSE F : P(F))[S]
    BY Zenon DEF MapThenSumSet, MapThenFoldSet
  <1> HIDE DEF f
  <1>3. Adds(CHOOSE F : P(F), f, S)
    <2>1. \E F : Adds(F, f, S)
      BY <1>0, AddsExists
    <2>2. \E F : P(F)
      <3> HIDE DEF P
      <3> QED BY <1>1, <2>1
    <2>3. P(CHOOSE F : P(F))
      <3> HIDE DEF P
      <3> QED BY <2>2
    <2> HIDE DEF P
    <2> QED BY <1>1, <2>3
  <1>4. PICK F : Adds(F, f, S) /\ SumOf(f, S) = F[S]
    BY <1>0, SumAdds
  <1>5. (CHOOSE G : P(G))[S] = F[S]
    <2> DEFINE H == CHOOSE G : P(G)
    <2>1. Adds(H, f, S)
      BY <1>3
    <2> HIDE DEF H
    <2>2. \A s \in SUBSET S : F[s] = H[s]
      BY <1>0, <1>4, <2>1, AddsSame
    <2> QED BY <2>2 DEF H
  <1> QED BY <1>2, <1>4, <1>5 DEF Attained, S, f

AllTally ==
  /\ \A j \in Job : j >= job_total_num => j \notin live /\ ClosedRounds(j) = {}
  /\ \A j \in live : Tallies(j)

LEMMA ServiceIs == TypeOK => (ServiceInv <=> AllTally)
  <1> SUFFICES ASSUME TypeOK PROVE ServiceInv <=> AllTally
    OBVIOUS
  <1>1. \A j \in live :
          MapThenSumSet(LAMBDA r : book[j][r].asked, ClosedRounds(j)) = Attained(j)
    BY ServiceSum DEF TypeOK
  <1> QED BY <1>1 DEF ServiceInv, ServiceIsClosedRounds, Tallies, AllTally

LEMMA ServiceIsNext == TypeOK' => (ServiceInv' <=> AllTally')
  BY ServiceIs, PTL

(* What a step may do to the record of a job: settle nothing, or close the *)
(* round that is open.                                                     *)
SettlesNothing(j) ==
  /\ db'[j].total_sched = db[j].total_sched
  /\ db'[j].attained_service = db[j].attained_service
  /\ db[j].round <= db'[j].round
  /\ \A r \in Round : /\ book'[j][r].closed = book[j][r].closed
                      /\ book[j][r].closed => book'[j][r].asked = book[j][r].asked

SettlesRound(j, r) ==
  /\ r \in Round /\ r = db[j].round /\ r = db'[j].round
  /\ ~ book[j][r].closed /\ book'[j][r].closed
  /\ db'[j].total_sched = db[j].total_sched + 1
  /\ db'[j].attained_service = db[j].attained_service + book[j][r].asked
  /\ \A q \in Round : /\ book'[j][q].asked = book[j][q].asked
                      /\ q # r => book'[j][q].closed = book[j][q].closed

LEMMA TallyKept ==
  ASSUME TypeOK, TypeOK', NEW j \in Job, Tallies(j), SettlesNothing(j)
  PROVE  Tallies(j)'
  <1>1. ClosedRounds(j)' = ClosedRounds(j)
    BY DEF SettlesNothing, ClosedRounds
  <1>2. \A r \in ClosedRounds(j) : AskedOf(j)[r] \in Nat /\ AskedOf(j)[r] = AskedOf(j)'[r]
    BY ClosedFinite DEF SettlesNothing, ClosedRounds, AskedOf
  <1>3. Attained(j)' = Attained(j)
    BY <1>1, <1>2, ClosedFinite, SumSame DEF Attained
  <1>4. \A r \in ClosedRounds(j) : r <= db'[j].round
    <2>1. db[j].round \in Int /\ db'[j].round \in Int
      BY DEF TypeOK, Doc
    <2>2. \A r \in ClosedRounds(j) : r \in Int
      BY Bounds DEF ClosedRounds
    <2> QED BY <2>1, <2>2 DEF Tallies, SettlesNothing
  <1> QED BY <1>1, <1>3, <1>4 DEF Tallies, SettlesNothing

LEMMA TallySettled ==
  ASSUME TypeOK, TypeOK', NEW j \in Job, Tallies(j), NEW r, SettlesRound(j, r)
  PROVE  Tallies(j)'
  <1> DEFINE S == ClosedRounds(j)
             T == ClosedRounds(j)'
  <1>1. r \in Round /\ r \notin S /\ T = S \cup {r} /\ S = T \ {r} /\ T \subseteq Round
    BY DEF SettlesRound, ClosedRounds
  <1>2. AskedOf(j)' = AskedOf(j) /\ AskedOf(j)[r] = book[j][r].asked
    BY <1>1 DEF AskedOf, SettlesRound
  <1>3. IsFiniteSet(S) /\ \A q \in T : AskedOf(j)[q] \in Nat
    BY <1>1, ClosedFinite
  <1>4. Cardinality(T) = Cardinality(S) + 1 /\ IsFiniteSet(T)
    BY <1>1, <1>3, FS_AddElement
  <1>5. SumOf(AskedOf(j), T) = AskedOf(j)[r] + SumOf(AskedOf(j), S)
    <2> HIDE DEF S, T
    <2> QED BY <1>1, <1>3, <1>4, SumRemove
  <1>6. Attained(j)' = Attained(j) + book[j][r].asked
    <2>1. Attained(j) \in Nat /\ book[j][r].asked \in Nat
      BY <1>1, <1>2, ClosedFinite
    <2> QED BY <1>2, <1>5, <2>1 DEF Attained
  <1>7. \A q \in T : q <= db'[j].round
    <2>1. r <= r
      BY <1>1, Bounds
    <2> QED BY <1>1, <2>1 DEF Tallies, SettlesRound
  <1> QED BY <1>4, <1>6, <1>7 DEF Tallies, SettlesRound

(* Every step of the ledger settles nothing of a job, or its open round.   *)
LEMMA PageWritten ==
  ASSUME TypeOK, NEW j \in Job, NEW r \in Round, NEW page, WritePage(j, r, page)
  PROVE  /\ book'[j][r] = page
         /\ \A q \in Round : q # r => book'[j][q] = book[j][q]
         /\ \A k \in Job : k # j => book'[k] = book[k]
  <1>1. book \in [Job -> [Round -> Page]] /\ book[j] \in [Round -> Page]
    BY DEF TypeOK
  <1>2. PICK pages : pages = [book[j] EXCEPT ![r] = page]
    OBVIOUS
  <1>3. book' = [book EXCEPT ![j] = pages]
    BY <1>2 DEF WritePage
  <1> QED BY <1>1, <1>2, <1>3

LEMMA NothingSettled ==
  ASSUME TypeOK, NEW j \in Job,
         db'[j].total_sched = db[j].total_sched,
         db'[j].attained_service = db[j].attained_service,
         db'[j].round = db[j].round, book'[j] = book[j]
  PROVE  SettlesNothing(j)
  <1>1. db[j].round <= db[j].round
    BY DEF TypeOK, Doc
  <1> QED BY <1>1 DEF SettlesNothing

(* Close of the ledger.                                                    *)
Closes(k, given) ==
  /\ LService' = [LService EXCEPT ![k] = LService[k] + book[k][LRound[k]].asked]
  /\ LSettled' = [LSettled EXCEPT ![k] = LSettled[k] + 1]
  /\ WritePage(k, LRound[k], [book[k][LRound[k]] EXCEPT !.given = given, !.closed = TRUE])

LEMMA LedgerCloses ==
  ASSUME IInv, NEW k \in live, Open(db[k]), NEW given, Closes(k, given),
         UNCHANGED LRound, NEW j \in live
  PROVE  SettlesNothing(j) \/ SettlesRound(j, db[j].round)
  <1> DEFINE r == db[k].round
             page == [book[k][r] EXCEPT !.given = given, !.closed = TRUE]
  <1>0. TypeOK /\ j \in Job /\ k \in Job
    BY DEF IInv, TypeOK
  <1>1. r \in Round /\ book[k][r] \in Page /\ book[k][r].closed = FALSE
    BY OpenPage
  <1>2. /\ LService' = [LService EXCEPT ![k] = LService[k] + book[k][LRound[k]].asked]
        /\ LSettled' = [LSettled EXCEPT ![k] = LSettled[k] + 1]
        /\ WritePage(k, LRound[k], [book[k][LRound[k]] EXCEPT !.given = given, !.closed = TRUE])
    BY DEF Closes
  <1>3. LRound[k] = r
    BY <1>0, View
  <1>4. /\ book'[k][r] = page
        /\ \A q \in Round : q # r => book'[k][q] = book[k][q]
        /\ \A i \in Job : i # k => book'[i] = book[i]
    BY <1>0, <1>1, <1>2, <1>3, PageWritten
  <1>5. page.closed = TRUE /\ page.asked = book[k][r].asked
    BY <1>1 DEF Page
  <1>6. db'[j].round = db[j].round
    BY <1>0 DEF LRound
  <1>7. CASE j # k
    <2>1. LService'[j] = LService[j] /\ LSettled'[j] = LSettled[j]
      BY <1>0, <1>2, <1>7 DEF LService, LSettled
    <2>2. /\ db'[j].total_sched = db[j].total_sched
          /\ db'[j].attained_service = db[j].attained_service
      BY <1>0, <2>1 DEF LService, LSettled
    <2> QED BY <1>0, <1>4, <1>6, <1>7, <2>2, NothingSettled
  <1>8. CASE j = k
    <2>1. /\ LService'[j] = LService[j] + book[j][r].asked
          /\ LSettled'[j] = LSettled[j] + 1
      BY <1>0, <1>2, <1>3, <1>8 DEF LService, LSettled
    <2>2. /\ db'[j].total_sched = db[j].total_sched + 1
          /\ db'[j].attained_service = db[j].attained_service + book[j][r].asked
      BY <1>0, <2>1 DEF LService, LSettled
    <2> HIDE DEF page
    <2>3. \A q \in Round : /\ book'[j][q].asked = book[j][q].asked
                           /\ q # r => book'[j][q].closed = book[j][q].closed
      BY <1>4, <1>5, <1>8
    <2> QED BY <1>1, <1>4, <1>5, <1>6, <1>8, <2>2, <2>3 DEF SettlesRound
  <1> QED BY <1>7, <1>8

LEMMA LedgerSettles ==
  ASSUME IInv, [Next]_vars, NEW j \in live, j \in live',
         \A r \in ClosedRounds(j) : r <= db[j].round
  PROVE  SettlesNothing(j) \/ SettlesRound(j, db[j].round)
  <1>0. TypeOK /\ j \in Job
    BY DEF IInv, TypeOK
  <1>1. [Ledger!Next]_(Ledger!ledgerVars)
    BY RefineStep
  <1>2. ASSUME UNCHANGED <<LRound, LService, LSettled, book>>
        PROVE  SettlesNothing(j)
    <2>1. /\ db'[j].total_sched = db[j].total_sched
          /\ db'[j].attained_service = db[j].attained_service
          /\ db'[j].round = db[j].round
      BY <1>0, <1>2 DEF LRound, LService, LSettled
    <2> QED BY <1>0, <1>2, <2>1, NothingSettled
  <1>3. ASSUME NEW k \in Job, Ledger!Enter(k)
        PROVE  SettlesNothing(j)
    BY <1>2, <1>3 DEF Ledger!Enter, LRound, LService, LSettled
  <1>4. ASSUME UNCHANGED Ledger!ledgerVars
        PROVE  SettlesNothing(j)
    BY <1>2, <1>4 DEF Ledger!ledgerVars, LRound, LService, LSettled
  <1>5. ASSUME NEW k \in Job, NEW d \in Demand, Ledger!NewRound(k, d)
        PROVE  SettlesNothing(j)
    <2> DEFINE r == db[k].round + 1
    <2>0. LRound[k] = db[k].round /\ db[j].round \in Int /\ db[k].round \in Int
      BY <1>0, View DEF TypeOK, Doc
    <2>1. /\ r \in Round /\ LRound' = [LRound EXCEPT ![k] = r]
          /\ UNCHANGED <<LService, LSettled>>
          /\ WritePage(k, r, [Ledger!Blank EXCEPT !.asked = d])
      BY <1>5, <2>0
      DEF Ledger!NewRound, Ledger!WritePage, WritePage, LRound, LService, LSettled
    <2>2. /\ book'[k][r] = [Ledger!Blank EXCEPT !.asked = d]
          /\ \A q \in Round : q # r => book'[k][q] = book[k][q]
          /\ \A i \in Job : i # k => book'[i] = book[i]
      BY <1>0, <2>1, PageWritten
    <2>3. /\ db'[j].total_sched = db[j].total_sched
          /\ db'[j].attained_service = db[j].attained_service
      BY <1>0, <2>1 DEF LService, LSettled
    <2>4. CASE j # k
      <3>1. db'[j].round = db[j].round
        BY <1>0, <2>1, <2>4 DEF LRound
      <3> QED BY <1>0, <2>2, <2>3, <2>4, <3>1, NothingSettled
    <2>5. CASE j = k
      <3>1. db'[j].round = r
        BY <1>0, <2>1, <2>5 DEF LRound
      <3>2. book'[j][r].closed = FALSE
        BY <2>2, <2>5 DEF Ledger!Blank
      <3>3. book[j][r].closed = FALSE
        <4>1. book[j][r] \in Page
          BY <1>0, <2>1 DEF TypeOK
        <4>2. ~ (r <= db[j].round)
          BY <2>0, <2>5
        <4>3. r \notin ClosedRounds(j)
          BY <4>2
        <4> QED BY <2>1, <4>1, <4>3 DEF ClosedRounds, Page
      <3>4. db[j].round <= db'[j].round
        BY <2>0, <2>5, <3>1
      <3> QED BY <2>2, <2>3, <2>5, <3>2, <3>3, <3>4 DEF SettlesNothing
    <2> QED BY <2>4, <2>5
  <1>6. ASSUME NEW k \in Job, Ledger!LetIn(k)
        PROVE  SettlesNothing(j) \/ SettlesRound(j, db[j].round)
    <2>0. k \in live /\ LLeft[k] > 0 /\ LLeft[k] = db[k].demand - db[k].amount
          /\ LRound[k] = db[k].round /\ UNCHANGED LRound
      BY <1>6, View DEF Ledger!LetIn, LLeft, LRound
    <2>1. Open(db[k])
      BY <1>0, <2>0 DEF Open, TypeOK, Doc
    <2>2. ASSUME NEW given, Closes(k, given)
          PROVE  SettlesNothing(j) \/ SettlesRound(j, db[j].round)
      BY <2>0, <2>1, <2>2, LedgerCloses
    <2>3. CASE /\ WritePage(k, LRound[k], [book[k][LRound[k]] EXCEPT !.given =
                                             book[k][LRound[k]].given + 1])
               /\ UNCHANGED <<LService, LSettled>>
      <3> DEFINE r == db[k].round
                 page == [book[k][r] EXCEPT !.given = book[k][r].given + 1]
      <3>1. r \in Round /\ book[k][r] \in Page
        BY <2>0, <2>1, OpenPage
      <3>2. /\ book'[k][r] = page
            /\ \A q \in Round : q # r => book'[k][q] = book[k][q]
            /\ \A i \in Job : i # k => book'[i] = book[i]
        BY <1>0, <2>0, <2>3, <3>1, PageWritten
      <3>3. page.closed = book[k][r].closed /\ page.asked = book[k][r].asked
        BY <3>1 DEF Page
      <3>4. /\ db'[j].total_sched = db[j].total_sched
            /\ db'[j].attained_service = db[j].attained_service
            /\ db'[j].round = db[j].round
        BY <1>0, <2>0, <2>3 DEF LRound, LService, LSettled
      <3> HIDE DEF page
      <3>5. CASE j # k
        BY <1>0, <3>2, <3>4, <3>5, NothingSettled
      <3>6. CASE j = k
        <4>1. db[j].round <= db'[j].round
          BY <1>0, <3>4 DEF TypeOK, Doc
        <4> QED BY <3>2, <3>3, <3>4, <3>6, <4>1 DEF SettlesNothing
      <3> QED BY <3>5, <3>6
    <2>4. \/ Closes(k, book[k][LRound[k]].given + 1)
          \/ /\ WritePage(k, LRound[k], [book[k][LRound[k]] EXCEPT !.given =
                                           book[k][LRound[k]].given + 1])
             /\ UNCHANGED <<LService, LSettled>>
      BY <1>6 DEF Ledger!LetIn, Ledger!Close, Ledger!WritePage, WritePage, Closes,
         LRound, LService, LSettled
    <2> QED BY <2>2, <2>3, <2>4
  <1>7. ASSUME NEW k \in Job, Ledger!EndEarly(k)
        PROVE  SettlesNothing(j) \/ SettlesRound(j, db[j].round)
    <2>0. k \in live /\ LLeft[k] > 0 /\ LLeft[k] = db[k].demand - db[k].amount
          /\ UNCHANGED LRound
      BY <1>7, View DEF Ledger!EndEarly, LLeft, LRound
    <2>1. Open(db[k])
      BY <1>0, <2>0 DEF Open, TypeOK, Doc
    <2>2. Closes(k, book[k][LRound[k]].given)
      BY <1>7 DEF Ledger!EndEarly, Ledger!Close, Ledger!WritePage, WritePage, Closes,
         LRound, LService, LSettled
    <2> QED BY <2>0, <2>1, <2>2, LedgerCloses
  <1>8. ASSUME NEW js \in SUBSET live, Ledger!Leave(js)
        PROVE  SettlesNothing(j)
    <2>1. j \notin js /\ UNCHANGED book
      BY <1>8 DEF Ledger!Leave
    <2>2. /\ db'[j].total_sched = db[j].total_sched
          /\ db'[j].attained_service = db[j].attained_service
          /\ db'[j].round = db[j].round
      BY <1>0, <1>8, <2>1 DEF Ledger!Leave, Ledger!NoAccount
    <2> QED BY <1>0, <2>1, <2>2, NothingSettled
  <1>9. ~ Ledger!Wipe
    BY DEF Ledger!Wipe
  <1> QED BY <1>1, <1>3, <1>4, <1>5, <1>6, <1>7, <1>8, <1>9 DEF Ledger!Next

(* What a step may do to the ids: hand out the next one, start again, or   *)
(* neither; and the pages of a job without document stay closed to it.     *)
Registers ==
  LET new == job_total_num IN
  /\ new \in Job /\ new \notin live
  /\ job_total_num' = new + 1 /\ live' = live \cup {new}
  /\ UNCHANGED book
  /\ db'[new].total_sched = 0 /\ db'[new].attained_service = 0

StartsAgain == live' = {} /\ book' = [j \in Job |-> [r \in Round |-> NoPage]]

HandsOutNone ==
  /\ UNCHANGED job_total_num /\ live' \subseteq live
  /\ \A j \in Job \ live : book'[j] = book[j]

LEMMA Numbering == IInv /\ [Next]_vars => Registers \/ StartsAgain \/ HandsOutNone
  <1> SUFFICES ASSUME IInv, [Next]_vars
               PROVE  Registers \/ StartsAgain \/ HandsOutNone
    OBVIOUS
  <1> USE DEF jobVars
  <1>0. TypeOK
    BY DEF IInv
  <1>1. ASSUME UNCHANGED <<job_total_num, book>>, live' \subseteq live
        PROVE  HandsOutNone
    BY <1>1 DEF HandsOutNone
  <1>2. ASSUME UNCHANGED <<job_total_num, live>>, NEW j \in live, NEW r, NEW page,
               WritePage(j, r, page)
        PROVE  HandsOutNone
    <2>1. PICK pages : pages = [book[j] EXCEPT ![r] = page]
      OBVIOUS
    <2>2. book' = [book EXCEPT ![j] = pages]
      BY <1>2, <2>1 DEF WritePage
    <2>3. \A i \in Job \ live : book'[i] = book[i]
      BY <1>0, <2>2 DEF TypeOK
    <2> QED BY <1>2, <2>3 DEF HandsOutNone
  <1>3. ASSUME NEW d \in Demand, NEW t \in TotalRound, JobRegist(d, t)
        PROVE  Registers
    <2> DEFINE new == job_total_num
    <2>1. /\ new \in Job /\ new \notin live
          /\ job_total_num' = new + 1 /\ live' = live \cup {new}
          /\ UNCHANGED book /\ db' = [db EXCEPT ![new] = RegisteredDoc(d, t)]
      BY <1>3 DEF JobRegist
    <2>2. RegisteredDoc(d, t).total_sched = 0 /\ RegisteredDoc(d, t).attained_service = 0
      BY DEF RegisteredDoc, NoDoc
    <2>3. db'[new] = RegisteredDoc(d, t)
      BY <1>0, <2>1 DEF TypeOK
    <2> QED BY <2>1, <2>2, <2>3 DEF Registers
  <1>4. ASSUME NEW j \in Job, NEW d \in Demand, JobRequest(j, d)
        PROVE  HandsOutNone
    BY <1>2, <1>4 DEF JobRequest
  <1>5. ASSUME NEW S, Remove(S), UNCHANGED <<job_total_num, book>>
        PROVE  HandsOutNone
    BY <1>1, <1>5 DEF Remove
  <1>6. ASSUME NEW j \in Job, NEW d \in Demand,
               JobRequestFinal(j, d) \/ JobRequestMissing(j, d)
        PROVE  HandsOutNone
    BY <1>1, <1>5, <1>6 DEF JobRequestFinal, JobRequestMissing
  <1>7. ASSUME NEW j \in Job, EndRequestRead(j) \/ JobFinish(j) \/ FallSilent(j)
        PROVE  HandsOutNone
    BY <1>1, <1>5, <1>7 DEF EndRequestRead, JobFinish, FallSilent
  <1>8. CASE EstimateRead \/ EstimateSkip \/ EstimateExec \/ EstimateRetry \/ EndRequestRetry
    BY <1>1, <1>8 DEF EstimateRead, EstimateSkip, EstimateExec, EstimateRetry, EndRequestRetry
  <1>9. CASE EndRequestExec
    <2>1. jm.job \in live
      BY <1>9 DEF EndRequestExec, IInv, EndingFresh
    <2> QED BY <1>2, <1>9, <2>1 DEF EndRequestExec
  <1>10. CASE Prune
    BY <1>5, <1>10 DEF Prune
  <1>11. CASE JobManagerRestart
    BY <1>11 DEF JobManagerRestart, Remove, StartsAgain
  <1>12. ASSUME NEW c \in calls, SchedulerTake(c)
         PROVE  HandsOutNone
    BY <1>1, <1>12 DEF SchedulerTake, ScRank, ScPass, ScMissing, ScDemand
  <1>13. CASE SchedulerStretch
    BY <1>1, <1>13 DEF SchedulerStretch, ScAmount, ScGone, ScScore
  <1>14. ASSUME NEW m \in CM, NEW j \in Job, AcceptAmount(m, j)
         PROVE  HandsOutNone
    BY <1>1, <1>14 DEF AcceptAmount
  <1>15. ASSUME NEW m \in CM, AcceptDemand(m) \/ AcceptRefuse(m) \/ AcceptRetry(m)
         PROVE  HandsOutNone
    BY <1>1, <1>15 DEF AcceptDemand, AcceptRefuse, AcceptRetry
  <1>16. ASSUME NEW m \in CM, AcceptExec(m)
         PROVE  HandsOutNone
    <2>1. cm[m].job \in live
      BY <1>16 DEF AcceptExec, IInv, TxnsFresh, TxnFresh
    <2> QED BY <1>2, <1>16, <2>1 DEF AcceptExec
  <1>17. CASE UNCHANGED vars
    BY <1>1, <1>17 DEF vars
  <1> QED
    BY <1>3, <1>4, <1>6, <1>7, <1>8, <1>9, <1>10, <1>11, <1>12, <1>13, <1>14, <1>15,
       <1>16, <1>17
    DEF Next, JobManagerStretch, AcceptStep

LEMMA ServiceInit == Init => ServiceInv
  <1> SUFFICES ASSUME Init PROVE ServiceInv
    OBVIOUS
  <1>1. \A j \in Job : ClosedRounds(j) = {}
    BY DEF Init, ClosedRounds, NoPage
  <1> QED BY <1>1 DEF Init, ServiceInv, ServiceIsClosedRounds

LEMMA ServiceStep == IInv /\ ServiceInv /\ [Next]_vars => ServiceInv'
  <1> SUFFICES ASSUME IInv, ServiceInv, [Next]_vars PROVE AllTally'
    BY TypeStep, ServiceIsNext DEF IInv
  <1>0. TypeOK /\ TypeOK' /\ AllTally
    BY TypeStep, ServiceIs DEF IInv
  <1>1. ASSUME NEW j \in live, j \in live'
        PROVE  Tallies(j)'
    <2>1. j \in Job /\ Tallies(j)
      BY <1>0 DEF AllTally, TypeOK
    <2>2. SettlesNothing(j) \/ SettlesRound(j, db[j].round)
      BY <1>1, <2>1, LedgerSettles DEF Tallies
    <2> QED BY <1>0, <2>1, <2>2, TallyKept, TallySettled
  <1>2. CASE Registers
    <2>1. PICK new \in Job : new = job_total_num
      BY <1>2 DEF Registers
    <2>2. /\ new \notin live /\ job_total_num' = new + 1 /\ live' = live \cup {new}
          /\ UNCHANGED book
          /\ db'[new].total_sched = 0 /\ db'[new].attained_service = 0
      BY <1>2, <2>1 DEF Registers
    <2>3. \A j \in Job : ClosedRounds(j)' = ClosedRounds(j)
      BY <2>2 DEF ClosedRounds
    <2>4. new >= new /\ \A j \in Job : j >= new + 1 => j >= new /\ j # new
      BY Bounds
    <2>5. ClosedRounds(new)' = {}
      BY <1>0, <2>1, <2>3, <2>4 DEF AllTally
    <2>6. Attained(new)' = 0 /\ Cardinality(ClosedRounds(new)') = 0
      BY <2>5, SumEmpty, FS_EmptySet DEF Attained
    <2>7. Tallies(new)'
      BY <2>2, <2>5, <2>6 DEF Tallies
    <2>8. \A j \in Job : j >= job_total_num' => j \notin live' /\ ClosedRounds(j)' = {}
      BY <1>0, <2>1, <2>2, <2>3, <2>4 DEF AllTally
    <2> QED BY <1>1, <2>2, <2>7, <2>8 DEF AllTally
  <1>3. CASE StartsAgain
    <2>1. \A j \in Job : ClosedRounds(j)' = {}
      BY <1>3 DEF StartsAgain, ClosedRounds, NoPage
    <2> QED BY <1>3, <2>1 DEF AllTally, StartsAgain
  <1>4. CASE HandsOutNone
    <2>1. ASSUME NEW j \in Job, j >= job_total_num'
          PROVE  j \notin live' /\ ClosedRounds(j)' = {}
      <3>1. j \notin live /\ ClosedRounds(j) = {}
        BY <1>0, <1>4, <2>1 DEF AllTally, HandsOutNone
      <3>2. book'[j] = book[j]
        BY <1>4, <3>1 DEF HandsOutNone
      <3>3. ClosedRounds(j)' = ClosedRounds(j)
        BY <3>2 DEF ClosedRounds
      <3> QED BY <1>4, <3>1, <3>3 DEF HandsOutNone
    <2>2. live' \subseteq live
      BY <1>4 DEF HandsOutNone
    <2> QED BY <1>1, <2>1, <2>2 DEF AllTally
  <1> QED BY <1>2, <1>3, <1>4, Numbering

(* The whole inductive invariant of the control of jobs, in every          *)
(* reachable state: counts, transactions, service, estimate and ranks.     *)
THEOREM ControlInvariant == Spec => []ControlInv
  <1>1. Init => ControlInv
    BY InitInv, ServiceInit, EstimateInit, FifoInit, SrsfInit DEF ControlInv
  <1>2. ControlInv /\ [Next]_vars => ControlInv'
    BY InvStep, ServiceStep, EstimateStep, FifoStep, SrsfStep DEF ControlInv
  <1> QED BY <1>1, <1>2, PTL DEF Spec

(* The service a job has attained and the number of its scheduling         *)
(* intervals are those of the rounds that were closed, each counted once,  *)
(* whether the last client or end_request() closed them, and however their *)
(* transactions interleave; a round that the next request cut off is not   *)
(* counted.                                                                *)
THEOREM ServiceCorrect == Spec => []ServiceIsClosedRounds
  <1>1. ControlInv => ServiceIsClosedRounds
    BY DEF ControlInv, ServiceInv
  <1> QED BY <1>1, ControlInvariant, PTL
=============================================================================
