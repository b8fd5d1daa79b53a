--------------------------- MODULE EvalRoundProofs ---------------------------
(***************************************************************************)
(* Proofs about EvalRound: results are of the current attempt, and what    *)
(* the parameter server registers at the executor is a TaskStream, for any *)
(* number of clients, rounds and faults.                                   *)
(***************************************************************************)
EXTENDS EvalRound, TLAPS

(* Events in an event queue.                                               *)
LEMMA EventsOf ==
  /\ EventOf(4) = "update_model" /\ EventOf(3) = "client_train"
  /\ EventOf(2) = "upload_model" /\ EventOf(1) = "shut_down"
<1> QED  BY DEF EventOf

(* The number of rounds is a number.                                       *)
LEMMA Total == TotalRound \in Nat
<1> QED  BY RoundAssumption

LEMMA InvInit == Init => RoundInv
<1> SUFFICES ASSUME Init PROVE RoundInv
  OBVIOUS
<1>1. TypeOK
  <2>1. /\ cur \in 1 .. TotalRound + 1 /\ aggregated \in 0 .. TotalRound
        /\ told \in [Client -> 0 .. TotalRound]
    BY Total DEF Init
  <2>2. queue \in [Client -> 0 .. 4] /\ doing \in [Client -> {"away", "waiting"} \cup Event]
    BY DEF Init
  <2> QED  BY <2>1, <2>2 DEF Init, TypeOK
<1>2. ServerInv
  BY RoundAssumption DEF Init, ServerInv, ResultsOfAttempt
<1>3. ASSUME NEW c \in Client PROVE ClientInv(c)
  BY DEF Init, ClientInv
<1> QED  BY <1>1, <1>2, <1>3 DEF RoundInv

(* A member whose step is taken gets the event that follows it.            *)
LEMMA NextEvent ==
  ASSUME RoundInv, NEW c \in Client, LockFree, doing[c] \in Event, Takes(c)
  PROVE  /\ phase = "exec" /\ started /\ res <= Demand
         /\ queue[c] \in 1 .. 3 /\ c \in fetched /\ c \notin sent
         /\ Goes(EventOf(queue[c])) \in {"away"} \cup Event
         /\ doing[c] = "upload_model" <=> queue[c] = 1
         /\ queue[c] # 1 => Goes(EventOf(queue[c])) = EventOf(queue[c])
         /\ queue[c] = 1 => Goes(EventOf(queue[c])) = "away"
<1>1. started /\ queue[c] \in 1 .. 3 /\ doing[c] = EventOf(queue[c] + 1) /\ res <= Demand
  BY DEF RoundInv, ClientInv, TypeOK, Takes
<1>2. phase = "exec"
  BY <1>1 DEF RoundInv, ServerInv, LockFree
<1>3. doing[c] # "away"
  BY DEF Event
<1>4. c \in fetched /\ c \notin sent
  BY <1>1, <1>3 DEF RoundInv, ClientInv, Delivered
<1>5. CASE queue[c] = 3
  BY <1>1, <1>2, <1>4, <1>5, EventsOf DEF Goes, Event
<1>6. CASE queue[c] = 2
  BY <1>1, <1>2, <1>4, <1>6, EventsOf DEF Goes, Event
<1>7. CASE queue[c] = 1
  BY <1>1, <1>2, <1>4, <1>7, EventsOf DEF Goes, Event
<1> QED  BY <1>1, <1>5, <1>6, <1>7

(* A member that pings gets the first of its four events.                  *)
LEMMA FirstEvent ==
  ASSUME RoundInv, NEW c \in Client, PingAnswered(c)
  PROVE  phase = "exec" /\ started /\ queue[c] = 4 /\ EventOf(queue[c]) = "update_model"
<1>1. started /\ LockFree /\ queue[c] = 4
  BY DEF PingAnswered, RoundInv, ClientInv
<1>2. phase = "exec"
  BY <1>1 DEF RoundInv, ServerInv, LockFree
<1> QED  BY <1>1, <1>2, EventsOf

LEMMA TypeStep == RoundInv /\ [Next]_vars => TypeOK'
<1> SUFFICES ASSUME RoundInv, [Next]_vars PROVE TypeOK'
  OBVIOUS
<1>0. TypeOK
  BY DEF RoundInv
<1> USE RoundAssumption
<1>1. CASE StartRequest \/ ReRegister
  <2>1. /\ phase' \in {"start", "sched", "done"} /\ notified' \in BOOLEAN /\ open' \in BOOLEAN
        /\ started' = FALSE /\ members' = 0 /\ res' = 0
        /\ UNCHANGED <<cur, queue, sent, aggregated, fetched, doing, told>>
    BY <1>0, <1>1 DEF StartRequest, ReRegister, Reset, TypeOK, clients, heard
  <2>2. faults' \in Nat
    BY <1>0, <1>1 DEF StartRequest, ReRegister, Fault, TypeOK
  <2> QED  BY <1>0, <2>1, <2>2 DEF TypeOK
<1>2. CASE ExecStart \/ ExecStartFails \/ LoopEnds \/ Shutdown
  <2>1. /\ phase' \in {"exec", "done", "exited"} /\ notified' \in BOOLEAN /\ started' \in BOOLEAN
        /\ UNCHANGED <<cur, members, res, queue, sent, aggregated, open, fetched, doing, told>>
    BY <1>0, <1>2 DEF ExecStart, ExecStartFails, LoopEnds, Shutdown, TypeOK, clients, heard
  <2>2. faults' \in Nat
    BY <1>0, <1>2 DEF ExecStart, ExecStartFails, LoopEnds, Shutdown, Fault, TypeOK
  <2> QED  BY <1>0, <2>1, <2>2 DEF TypeOK
<1>3. ASSUME NEW n \in {0, 1}, phase \in {"sched", "exec"}, CloseAttempt(n), faults' \in Nat
      PROVE  TypeOK'
  <2>1. /\ queue' \in [Client -> 0 .. 4] /\ sent' = {} /\ fetched' = {} /\ phase' = "start"
        /\ notified' = FALSE /\ open' = FALSE /\ UNCHANGED <<started, members, res, clients>>
    BY <1>3 DEF CloseAttempt, Clear, Register
  <2>2. cur' = cur + n /\ aggregated' = aggregated + n
    BY <1>3 DEF CloseAttempt, Register
  <2>3. cur <= TotalRound /\ cur = aggregated + 1
    BY <1>3 DEF RoundInv, ServerInv
  <2>4. cur' \in 1 .. TotalRound + 1 /\ aggregated' \in 0 .. TotalRound
    BY <1>0, <2>2, <2>3, Total DEF TypeOK
  <2> QED  BY <1>0, <1>3, <2>1, <2>4 DEF TypeOK, clients
<1>11. ASSUME NEW n \in {0, 1}, phase \in {"sched", "exec"}, CloseFails(n)
       PROVE  TypeOK'
  <2>1. /\ queue' \in [Client -> 0 .. 4] /\ phase' = "done" /\ notified' = FALSE
        /\ faults' = faults + 1 /\ UNCHANGED <<cur, started, members, res, fetched, clients>>
    BY <1>11 DEF CloseFails, Clear, Fault
  <2>2. cur <= TotalRound /\ cur = aggregated + 1
    BY <1>11 DEF RoundInv, ServerInv
  <2>3. sent' \subseteq Client /\ open' \in BOOLEAN /\ aggregated' \in {aggregated, aggregated + n}
    BY <1>0, <1>11 DEF CloseFails, Register, heard, TypeOK
  <2>4. aggregated' \in 0 .. TotalRound
    BY <1>0, <2>2, <2>3, Total DEF TypeOK
  <2>5. faults' \in Nat
    BY <1>0, <2>1 DEF TypeOK
  <2>6. UNCHANGED <<cur, started, members, res, fetched, doing, told>>
    BY <2>1 DEF clients
  <2> QED  BY <1>0, <2>1, <2>3, <2>4, <2>5, <2>6 DEF TypeOK
<1>4. ASSUME NEW c \in Client, CheckIn(c) PROVE TypeOK'
  BY <1>0, <1>4 DEF TypeOK, CheckIn, heard
<1>5. ASSUME NEW c \in Client, PingAnswered(c) PROVE TypeOK'
  <2>1. phase = "exec" /\ queue[c] = 4 /\ EventOf(queue[c]) = "update_model"
    BY <1>5, FirstEvent
  <2>2. cur \in 0 .. TotalRound
    BY <1>0, <2>1 DEF RoundInv, ServerInv, TypeOK
  <2> QED  BY <1>0, <1>5, <2>1, <2>2 DEF TypeOK, PingAnswered, Event, heard
<1>6. ASSUME NEW c \in Client, PingRefused(c) \/ CompleteRefused(c) \/ Leave(c) PROVE TypeOK'
  BY <1>0, <1>6 DEF TypeOK, PingRefused, CompleteRefused, Leave, server, heard, Fault
<1>7. ASSUME NEW c \in Client, Complete(c) PROVE TypeOK'
  <2>1. /\ queue[c] \in 1 .. 3 /\ Goes(EventOf(queue[c])) \in {"away"} \cup Event
    BY <1>7, NextEvent DEF Complete
  <2>2. res' \in Nat /\ sent' \subseteq Client
    BY <1>0, <1>7 DEF Complete, Counted, TypeOK
  <2>3. notified' \in BOOLEAN
    BY <1>0, <1>7 DEF Complete, TypeOK, Enough
  <2>4. queue' \in [Client -> 0 .. 4] /\ doing' \in [Client -> {"away", "waiting"} \cup Event]
    BY <1>0, <1>7, <2>1 DEF Complete, TypeOK
  <2> QED  BY <1>0, <1>7, <2>2, <2>3, <2>4 DEF Complete, TypeOK
<1>8. ASSUME NEW c \in Client, UploadCut(c) PROVE TypeOK'
  BY <1>0, <1>8 DEF UploadCut, Counted, Fault, TypeOK
<1>9. CASE UNCHANGED vars
  BY <1>0, <1>9 DEF vars, server, clients, heard, TypeOK
<1>10. CASE Main
  <2>1. CASE CloseRound \/ SchedTimeout \/ ExecTimeout \/ StuckTimeout
    <3>1. faults' \in Nat
      BY <1>0, <2>1 DEF TypeOK, CloseRound, SchedTimeout, ExecTimeout, StuckTimeout, Fault
    <3> QED  BY <1>3, <2>1, <3>1 DEF CloseRound, SchedTimeout, ExecTimeout, StuckTimeout, Stuck
  <2>2. CASE CloseRoundFails \/ TimedOutFails
    BY <1>11, <2>2 DEF CloseRoundFails, TimedOutFails
  <2> QED  BY <1>1, <1>2, <1>10, <2>1, <2>2 DEF Main
<1> QED
  BY <1>4, <1>5, <1>6, <1>7, <1>8, <1>9, <1>10 DEF Next, Call

(* The attempt is over, or the server is: all places are free.             *)
LEMMA AttemptOver ==
  ASSUME RoundInv, NEW n \in {0, 1}, phase \in {"sched", "exec"}, CloseAttempt(n) \/ CloseFails(n)
  PROVE  ServerInv' /\ \A c \in Client : ClientInv(c)'
<1>1. /\ ResultsOfAttempt /\ cur = aggregated + 1
      /\ queue' = [c \in Client |-> 0] /\ doing' = doing /\ res' = res
  BY DEF RoundInv, ServerInv, CloseAttempt, CloseFails, Clear, clients
<1>2. ServerInv'
  <2>1. CASE CloseAttempt(n)
    <3>1. /\ phase' = "start" /\ sent' = {} /\ fetched' = {} /\ ~open'
          /\ cur' = cur + n /\ aggregated' = aggregated + n
      BY <2>1 DEF CloseAttempt, Register
    <3>2. cur' = aggregated' + 1
      BY <1>1, <3>1 DEF RoundInv, TypeOK
    <3> QED  BY <1>1, <3>1, <3>2 DEF ServerInv, ResultsOfAttempt
  <2>2. CASE CloseFails(n)
    <3>1. /\ phase' = "done" /\ faults' = faults + 1 /\ UNCHANGED <<cur, fetched, started>>
          /\ (sent' = {} \/ sent' = sent) /\ aggregated' \in {aggregated, aggregated + n}
      BY <2>2 DEF CloseFails, Register, heard, Fault
    <3>2. faults' > 0 /\ aggregated' \in {cur' - 1, cur'} /\ ResultsOfAttempt'
      BY <1>1, <3>1 DEF RoundInv, TypeOK, ResultsOfAttempt
    <3> QED  BY <3>1, <3>2 DEF ServerInv
  <2> QED  BY <2>1, <2>2
<1>3. ASSUME NEW c \in Client PROVE ClientInv(c)'
  BY <1>1 DEF ClientInv, Delivered, Event
<1> QED  BY <1>2, <1>3

(* So it is when the main coroutine ends its attempt.                      *)
LEMMA Closes ==
  ASSUME RoundInv,
         \/ CloseRound \/ SchedTimeout \/ ExecTimeout \/ StuckTimeout
         \/ CloseRoundFails \/ TimedOutFails
  PROVE  ServerInv' /\ \A c \in Client : ClientInv(c)'
<1>1. \E n \in {0, 1} : phase \in {"sched", "exec"} /\ (CloseAttempt(n) \/ CloseFails(n))
  BY DEF CloseRound, SchedTimeout, ExecTimeout, StuckTimeout, Stuck, CloseRoundFails, TimedOutFails
<1> QED  BY <1>1, AttemptOver

LEMMA ServerStep == RoundInv /\ [Next]_vars => ServerInv'
<1> SUFFICES ASSUME RoundInv, [Next]_vars PROVE ServerInv'
  OBVIOUS
<1>0. TypeOK /\ ServerInv
  BY DEF RoundInv
<1> USE RoundAssumption
<1>1. CASE StartRequest \/ ReRegister
  BY <1>0, <1>1 DEF StartRequest, ReRegister, Reset, Fault, heard, ServerInv, ResultsOfAttempt, TypeOK
<1>2. CASE ExecStart
  BY <1>0, <1>2 DEF ExecStart, heard, ServerInv, ResultsOfAttempt, TypeOK
<1>3. CASE ExecStartFails
  BY <1>0, <1>3 DEF ExecStartFails, Fault, heard, ServerInv, ResultsOfAttempt, TypeOK
<1>11. CASE LoopEnds \/ Shutdown
  BY <1>0, <1>11 DEF LoopEnds, Shutdown, heard, ServerInv, ResultsOfAttempt, TypeOK
<1>4. CASE \/ CloseRound \/ SchedTimeout \/ ExecTimeout \/ StuckTimeout
           \/ CloseRoundFails \/ TimedOutFails
  BY <1>4, Closes
<1>5. ASSUME NEW c \in Client, CheckIn(c) PROVE ServerInv'
  BY <1>0, <1>5 DEF CheckIn, LockFree, heard, ServerInv, ResultsOfAttempt, TypeOK
<1>6. ASSUME NEW c \in Client, PingAnswered(c) PROVE ServerInv'
  <2>1. phase = "exec"
    BY <1>6, FirstEvent
  <2> QED  BY <1>0, <1>6, <2>1 DEF PingAnswered, heard, ServerInv, ResultsOfAttempt
<1>7. ASSUME NEW c \in Client, PingRefused(c) \/ CompleteRefused(c) \/ Leave(c) PROVE ServerInv'
  BY <1>0, <1>7 DEF PingRefused, CompleteRefused, Leave, Fault, server, heard, ServerInv,
     ResultsOfAttempt, TypeOK
<1>8. ASSUME NEW c \in Client, Complete(c) PROVE ServerInv'
  <2>1. phase = "exec" /\ started /\ res <= Demand /\ c \in fetched
    BY <1>8, NextEvent DEF Complete
  <2>2. res' \in Nat /\ res <= res' /\ res' <= Demand + 1 /\ sent' \subseteq fetched
    BY <1>0, <1>8, <2>1 DEF Complete, Counted, TypeOK, ServerInv, ResultsOfAttempt
  <2>3. notified' => res' >= Demand
    BY <1>0, <1>8, <2>1, <2>2 DEF Complete, Enough, TypeOK, ServerInv
  <2>4. UNCHANGED <<phase, started, fetched, cur, aggregated, open>>
    BY <1>8 DEF Complete
  <2> QED  BY <1>0, <2>1, <2>2, <2>3, <2>4 DEF ServerInv, ResultsOfAttempt
<1>9. ASSUME NEW c \in Client, UploadCut(c) PROVE ServerInv'
  <2>1. phase = "exec" /\ started /\ res <= Demand /\ c \in fetched
    <3>1. doing[c] \in Event /\ LockFree /\ Takes(c)
      BY <1>9 DEF UploadCut, Event
    <3> QED  BY <3>1, NextEvent
  <2>2. res' = res + 1 /\ sent' \subseteq fetched
    BY <1>0, <1>9, <2>1 DEF UploadCut, Counted, ServerInv, ResultsOfAttempt
  <2>3. UNCHANGED <<phase, notified, started, fetched, cur, aggregated, open>>
    BY <1>9 DEF UploadCut
  <2> QED  BY <1>0, <2>1, <2>2, <2>3 DEF ServerInv, ResultsOfAttempt, TypeOK
<1>10. CASE UNCHANGED vars
  BY <1>0, <1>10 DEF vars, server, heard, ServerInv, ResultsOfAttempt
<1> QED
  BY <1>1, <1>2, <1>3, <1>4, <1>5, <1>6, <1>7, <1>8, <1>9, <1>10, <1>11 DEF Next, Main, Call

LEMMA ClientStep == RoundInv /\ [Next]_vars => \A c \in Client : ClientInv(c)'
<1> SUFFICES ASSUME RoundInv, [Next]_vars, NEW c \in Client PROVE ClientInv(c)'
  OBVIOUS
<1>0. TypeOK /\ ServerInv /\ ClientInv(c)
  BY DEF RoundInv
<1>1. CASE UNCHANGED <<queue, doing, sent, fetched>>
  BY <1>0, <1>1 DEF ClientInv, Delivered
<1>2. CASE \/ CloseRound \/ SchedTimeout \/ ExecTimeout \/ StuckTimeout
           \/ CloseRoundFails \/ TimedOutFails
  BY <1>2, Closes
<1>3. ASSUME NEW d \in Client, CheckIn(d) PROVE ClientInv(c)'
  <2>1. sent = {}
    BY <1>0, <1>3 DEF CheckIn, LockFree, ServerInv
  <2> QED  BY <1>0, <1>3, <2>1 DEF CheckIn, ClientInv, Event, heard, TypeOK
<1>4. ASSUME NEW d \in Client, PingAnswered(d) PROVE ClientInv(c)'
  <2>1. queue[d] = 4 /\ EventOf(queue[d]) = "update_model"
    BY <1>4, FirstEvent
  <2>2. CASE c = d
    <3>1. queue'[c] = 3 /\ doing'[c] = EventOf(4) /\ doing'[c] = "update_model"
          /\ c \in fetched' /\ sent' = sent
      BY <1>0, <1>4, <2>1, <2>2 DEF PingAnswered, heard, TypeOK
    <3>2. c \notin sent
      BY <1>0, <2>1, <2>2 DEF ClientInv, Delivered
    <3> QED  BY <3>1, <3>2 DEF ClientInv
  <2>3. CASE c # d
    BY <1>0, <1>4, <2>3 DEF PingAnswered, ClientInv, Delivered, heard, TypeOK
  <2> QED  BY <2>2, <2>3
<1>5. ASSUME NEW d \in Client, PingRefused(d) \/ CompleteRefused(d) \/ Leave(d) PROVE ClientInv(c)'
  <2>1. /\ doing' = [doing EXCEPT ![d] = "away"] /\ UNCHANGED <<queue, sent, fetched>>
    BY <1>5 DEF PingRefused, CompleteRefused, Leave, server, heard
  <2>2. doing'[c] = "away" \/ doing'[c] = doing[c]
    BY <1>0, <2>1 DEF TypeOK
  <2> QED  BY <1>0, <2>1, <2>2 DEF ClientInv, Delivered, Event
<1>6. ASSUME NEW d \in Client, Complete(d) PROVE ClientInv(c)'
  <2>1. /\ queue[d] \in 1 .. 3 /\ d \in fetched /\ d \notin sent
        /\ doing[d] = "upload_model" <=> queue[d] = 1
        /\ queue[d] # 1 => Goes(EventOf(queue[d])) = EventOf(queue[d])
        /\ queue[d] = 1 => Goes(EventOf(queue[d])) = "away"
        /\ Goes(EventOf(queue[d])) \in {"away"} \cup Event
    BY <1>6, NextEvent DEF Complete
  <2>2. CASE c = d
    <3>1. /\ queue'[c] = queue[c] - 1 /\ doing'[c] = Goes(EventOf(queue[c]))
          /\ fetched' = fetched /\ (sent' = sent \/ doing[c] = "upload_model")
      BY <1>0, <1>6, <2>2 DEF Complete, TypeOK
    <3>2. CASE queue[c] = 1
      BY <2>1, <2>2, <3>1, <3>2 DEF ClientInv, Delivered
    <3>3. CASE queue[c] # 1
      <4>1. queue[c] - 1 \in 1 .. 2 /\ (queue[c] - 1) + 1 = queue[c]
        BY <2>1, <2>2, <3>3
      <4>2. doing'[c] # "waiting"
        BY <2>1, <2>2, <3>1 DEF Event
      <4>3. c \notin sent'
        BY <2>1, <2>2, <3>1, <3>3
      <4> QED  BY <2>1, <2>2, <3>1, <3>3, <4>1, <4>2, <4>3 DEF ClientInv
    <3> QED  BY <3>2, <3>3
  <2>3. CASE c # d
    <3>1. /\ queue'[c] = queue[c] /\ doing'[c] = doing[c] /\ fetched' = fetched
          /\ (c \in sent' => c \in sent)
      BY <1>0, <1>6, <2>3 DEF Complete, Counted, TypeOK
    <3> QED  BY <1>0, <3>1 DEF ClientInv, Delivered
  <2> QED  BY <2>2, <2>3
<1>7. ASSUME NEW d \in Client, UploadCut(d) PROVE ClientInv(c)'
  <2>1. queue[d] = 1 /\ d \in fetched
    <3>1. doing[d] \in Event /\ LockFree /\ Takes(d) /\ doing[d] = "upload_model"
      BY <1>7 DEF UploadCut, Event
    <3> QED  BY <3>1, NextEvent
  <2>2. CASE c = d
    <3>1. queue'[c] = 1 /\ doing'[c] = "away" /\ c \in fetched'
      BY <1>0, <1>7, <2>1, <2>2 DEF UploadCut, TypeOK
    <3> QED  BY <3>1 DEF ClientInv, Delivered, Event
  <2>3. CASE c # d
    <3>1. /\ queue'[c] = queue[c] /\ doing'[c] = doing[c] /\ fetched' = fetched
          /\ (c \in sent' => c \in sent)
      BY <1>0, <1>7, <2>3 DEF UploadCut, Counted, TypeOK
    <3> QED  BY <1>0, <3>1 DEF ClientInv, Delivered
  <2> QED  BY <2>2, <2>3
<1>8. CASE \/ StartRequest \/ ReRegister \/ ExecStart \/ ExecStartFails
           \/ LoopEnds \/ Shutdown \/ UNCHANGED vars
  BY <1>1, <1>8 DEF StartRequest, ReRegister, ExecStart, ExecStartFails, LoopEnds, Shutdown,
     vars, server, heard, clients
<1> QED
  BY <1>2, <1>3, <1>4, <1>5, <1>6, <1>7, <1>8 DEF Next, Main, Call

LEMMA InvStep == RoundInv /\ [Next]_vars => RoundInv'
<1>1. RoundInv /\ [Next]_vars => TypeOK' /\ ServerInv' /\ \A c \in Client : ClientInv(c)'
  BY TypeStep, ServerStep, ClientStep
<1> QED  BY <1>1 DEF RoundInv

(* The state is well formed.                                               *)
THEOREM RoundTypeCorrect == Spec => []TypeOK
<1>1. RoundInv => TypeOK
  BY DEF RoundInv
<1> QED  BY InvInit, InvStep, <1>1, PTL DEF Spec

(* A result is taken only from a client that was sent the model in this    *)
(* attempt, and at most one more than demanded.                            *)
THEOREM RoundResults == Spec => []ResultsOfAttempt
<1>1. RoundInv => ResultsOfAttempt
  BY DEF RoundInv, ServerInv
<1> QED  BY InvInit, InvStep, <1>1, PTL DEF Spec

THEOREM RoundInvariant == Spec => []RoundInv
<1> QED  BY InvInit, InvStep, PTL DEF Spec

-----------------------------------------------------------------------------
(* The tasks registered at the executor are a TaskStream.                  *)

count == IF open THEN res ELSE 0

LEMMA StreamInit == Init => Stream!Init
<1> QED  BY DEF Init, Stream!Init, PS

(* The executor hears that an attempt is over.                             *)
LEMMA Registers ==
  ASSUME RoundInv, NEW n \in {0, 1}, phase \in {"sched", "exec"}, Register(n),
         n = 1 => res >= Demand
  PROVE  Stream!Next
<1>1. cur <= TotalRound /\ cur = aggregated + 1 /\ open /\ aggregated \in Nat
  BY DEF RoundInv, ServerInv, TypeOK
<1>2. sent' = {} /\ open' = FALSE /\ aggregated' = aggregated + n
  BY DEF Register
<1>3. CASE n = 1
  BY <1>1, <1>2, <1>3 DEF Stream!Next, Stream!Aggregate, Stream!NewAttempt, Stream!Open, PS
<1>4. CASE n = 0
  <2>1. aggregated' = aggregated
    BY <1>1, <1>2, <1>4
  <2> QED  BY <1>1, <1>2, <2>1 DEF Stream!Next, Stream!RoundFail, Stream!NewAttempt, Stream!Open, PS
<1> QED  BY <1>3, <1>4

LEMMA StreamStep == RoundInv /\ [Next]_vars => [Stream!Next]_(Stream!streamVars)
<1> SUFFICES ASSUME RoundInv, [Next]_vars PROVE [Stream!Next]_(Stream!streamVars)
  OBVIOUS
<1>0. TypeOK /\ ServerInv
  BY DEF RoundInv
(* A step that leaves round, results and count.                            *)
<1>1. ASSUME aggregated' = aggregated, sent' = sent, count' = count
      PROVE  UNCHANGED Stream!streamVars
  BY <1>1 DEF Stream!streamVars, count
<1>2. CASE StartRequest \/ ReRegister \/ ExecStart \/ ExecStartFails \/ LoopEnds \/ Shutdown
  <2>1. aggregated' = aggregated /\ sent' = sent
    BY <1>2 DEF StartRequest, ReRegister, ExecStart, ExecStartFails, LoopEnds, Shutdown, heard
  <2>2. count' = count
    <3>1. CASE StartRequest \/ ReRegister
      BY <1>0, <3>1 DEF StartRequest, ReRegister, Reset, heard, count, ServerInv
    <3>2. CASE ExecStart \/ ExecStartFails \/ LoopEnds \/ Shutdown
      BY <3>2 DEF ExecStart, ExecStartFails, LoopEnds, Shutdown, heard, count
    <3> QED  BY <1>2, <3>1, <3>2
  <2> QED  BY <1>1, <2>1, <2>2
<1>3. ASSUME NEW c \in Client,
             CheckIn(c) \/ PingAnswered(c) \/ PingRefused(c) \/ CompleteRefused(c) \/ Leave(c)
      PROVE  UNCHANGED Stream!streamVars
  <2>1. aggregated' = aggregated /\ sent' = sent /\ res' = res /\ open' = open
    BY <1>3 DEF CheckIn, PingAnswered, PingRefused, CompleteRefused, Leave, server, heard
  <2> QED  BY <1>1, <2>1 DEF count
(* A result is counted, in the open attempt.                               *)
<1>4. ASSUME NEW c \in Client, NEW known \in BOOLEAN, c \notin sent, phase = "exec",
             res <= Demand, Counted(c, known), UNCHANGED <<aggregated, open>>
      PROVE  Stream!Train(PS, c) \/ Stream!TrainLost(PS)
  <2>1. cur <= TotalRound /\ cur = aggregated + 1 /\ open
    BY <1>0, <1>4 DEF ServerInv
  <2>2. CASE known = TRUE
    <3>1. sent' = sent \cup {c} /\ res' = res + 1
      BY <1>4, <2>2 DEF Counted
    <3> QED  BY <1>4, <2>1, <3>1 DEF Stream!Train, Stream!Open, PS
  <2>3. CASE known = FALSE
    <3>1. sent' = sent /\ res' = res + 1
      BY <1>4, <2>3 DEF Counted
    <3> QED  BY <1>4, <2>1, <3>1 DEF Stream!TrainLost, Stream!Open, PS
  <2> QED  BY <2>2, <2>3
<1>5. ASSUME NEW c \in Client, NEW known \in BOOLEAN, doing[c] \in Event, LockFree, Takes(c),
             Counted(c, known), UNCHANGED <<aggregated, open>>
      PROVE  Stream!Next
  <2>1. phase = "exec" /\ res <= Demand /\ c \notin sent
    BY <1>5, NextEvent
  <2>2. Stream!Train(PS, c) \/ Stream!TrainLost(PS)
    BY <1>4, <1>5, <2>1
  <2> QED  BY <2>2 DEF Stream!Next, PS
<1>6. ASSUME NEW c \in Client, Complete(c) PROVE [Stream!Next]_(Stream!streamVars)
  <2>1. CASE doing[c] = "upload_model"
    <3>1. Counted(c, TRUE) /\ UNCHANGED <<aggregated, open>> /\ LockFree /\ Takes(c)
      BY <1>6, <2>1 DEF Complete
    <3> QED  BY <1>5, <2>1, <3>1 DEF Event
  <2>2. CASE doing[c] # "upload_model"
    <3>1. UNCHANGED <<aggregated, open, sent, res>>
      BY <1>6, <2>2 DEF Complete
    <3> QED  BY <1>1, <3>1 DEF count
  <2> QED  BY <2>1, <2>2
<1>7. ASSUME NEW c \in Client, UploadCut(c) PROVE Stream!Next
  <2>1. /\ doing[c] \in Event /\ LockFree /\ Takes(c) /\ UNCHANGED <<aggregated, open>>
        /\ Counted(c, TRUE) \/ Counted(c, FALSE)
    BY <1>7 DEF UploadCut, Event
  <2> QED  BY <1>5, <2>1
<1>8. CASE CloseRound \/ CloseRoundFails
  <2>1. phase = "exec" /\ res >= Demand
    BY <1>0, <1>8 DEF CloseRound, CloseRoundFails, ServerInv
  <2>2. Register(1) \/ UNCHANGED <<heard, res>>
    BY <1>8 DEF CloseRound, CloseRoundFails, CloseAttempt, CloseFails
  <2>3. CASE Register(1)
    BY <2>1, <2>3, Registers
  <2>4. CASE UNCHANGED <<heard, res>>
    BY <1>1, <2>4 DEF heard, count
  <2> QED  BY <2>2, <2>3, <2>4
<1>9. CASE SchedTimeout \/ ExecTimeout \/ StuckTimeout \/ TimedOutFails
  <2>1. phase \in {"sched", "exec"}
    BY <1>9 DEF SchedTimeout, ExecTimeout, StuckTimeout, Stuck, TimedOutFails
  <2>2. Register(0) \/ UNCHANGED <<heard, res>>
    BY <1>9 DEF SchedTimeout, ExecTimeout, StuckTimeout, TimedOutFails, CloseAttempt, CloseFails
  <2>3. CASE Register(0)
    BY <2>1, <2>3, Registers
  <2>4. CASE UNCHANGED <<heard, res>>
    BY <1>1, <2>4 DEF heard, count
  <2> QED  BY <2>2, <2>3, <2>4
<1>10. CASE UNCHANGED vars
  <2>1. aggregated' = aggregated /\ sent' = sent /\ res' = res /\ open' = open
    BY <1>10 DEF vars, server, heard
  <2> QED  BY <1>1, <2>1 DEF count
<1> QED
  BY <1>2, <1>3, <1>6, <1>7, <1>8, <1>9, <1>10 DEF Next, Main, Call

(* What the parameter server registers at the executor is a TaskStream,    *)
(* with its clients leaving and its time limits passing whenever they like *)
(* and with itself failing in the middle of an attempt.                    *)
THEOREM RoundImplementsStream == Spec => StreamSpec
<1> QED  BY InvInit, InvStep, StreamInit, StreamStep, PTL DEF Spec, StreamSpec, Stream!Spec
=============================================================================
