------------------------- MODULE ParameterServerProofs -------------------------
(***************************************************************************)
(* Proofs about ParameterServer, for any number of clients, leaves, jobs,  *)
(* rounds and faults: clients train on parameters that were posted for     *)
(* their round, aggregates hold results of their round only, and every     *)
(* push that was taken is accounted for.                                   *)
(***************************************************************************)
EXTENDS ParameterServer, Sums

(* The constants and the sets made of them.                                *)
LEMMA Constants ==
  /\ 0 \in Inc /\ Round \subseteq Nat /\ -1 \notin Round
  /\ 0 \in 0 .. Trials /\ 0 .. 3 = {0, 1, 2, 3}
  /\ NoParam \in Param /\ NoAgg \in Agg /\ NoPart \in Part
  /\ NoFlush.pc = "idle" /\ Idle.pc = "idle"
  /\ \A c \in Client : LeafOf[c] \in Leaf
<1>1. 0 \in Inc /\ Round \subseteq Nat /\ -1 \notin Round
  BY ServerAssumption DEF Inc, Round
<1>2. \A c \in Client : LeafOf[c] \in Leaf
  BY ServerAssumption
<1>3. 0 \in 0 .. Trials /\ 0 .. 3 = {0, 1, 2, 3}
  BY ServerAssumption
<1> QED  BY <1>1, <1>2, <1>3 DEF NoParam, Param, NoAgg, Agg, NoPart, Part, NoFlush, Idle

(* Assignments to one field of a record.                                   *)
LEMMA BusyWith ==
  ASSUME NEW s \in Busy
  PROVE  /\ \A pc \in {"told", "fetch", "reply", "have"} : [s EXCEPT !.pc = pc] \in Busy
         /\ \A code \in 0 .. 3 : [s EXCEPT !.code = code] \in Busy
         /\ \A param \in Param : [s EXCEPT !.param = param] \in Busy
         /\ \A trial \in 0 .. Trials : [s EXCEPT !.trial = trial] \in Busy
  BY DEF Busy

LEMMA JobWith ==
  ASSUME NEW s \in JobState
  PROVE  /\ \A pc \in {"ready", "putting", "waiting", "gone"} : [s EXCEPT !.pc = pc] \in JobState
         /\ \A r \in Round : [s EXCEPT !.round = r] \in JobState
         /\ \A d \in Nat : [s EXCEPT !.demand = d] \in JobState
         /\ \A trial \in 0 .. Trials : [s EXCEPT !.trial = trial] \in JobState
  BY DEF JobState

(* An assignment to one place of a table.                                  *)
LEMMA TableWith ==
  ASSUME NEW S, NEW T, NEW U, NEW f \in [S -> [T -> U]], NEW x \in S, NEW y \in T, NEW v \in U
  PROVE  [f EXCEPT ![x][y] = v] \in [S -> [T -> U]]
  OBVIOUS

LEMMA Tables ==
  /\ \A f \in [Leaf -> [Job -> Part]], l \in Leaf, j \in Job, v \in Part :
       [f EXCEPT ![l][j] = v] \in [Leaf -> [Job -> Part]]
  /\ \A f \in [Leaf -> [Job -> Param]], l \in Leaf, j \in Job, v \in Param :
       [f EXCEPT ![l][j] = v] \in [Leaf -> [Job -> Param]]
  /\ \A f \in [Job -> [Round -> Nat]], j \in Job, r \in Round, n \in Nat :
       [f EXCEPT ![j][r] = @ + n] \in [Job -> [Round -> Nat]]
<1>1. ASSUME NEW f \in [Job -> [Round -> Nat]], NEW j \in Job, NEW r \in Round, NEW n \in Nat
      PROVE  [f EXCEPT ![j][r] = @ + n] \in [Job -> [Round -> Nat]]
  <2>1. f[j][r] + n \in Nat
    OBVIOUS
  <2> QED  BY <2>1
<1> QED  BY <1>1, TableWith

(* Results are added to an aggregate.                                      *)
LEMMA AggWith ==
  ASSUME NEW a \in Agg, NEW m, m.cnt \in Nat, m.from \subseteq Source
  PROVE  /\ RootUpdated(a, m) \in Agg
         /\ RootUpdated(a, m).round = a.round
         /\ RootUpdated(a, m).cnt = a.cnt + m.cnt
         /\ RootUpdated(a, m).from = a.from \cup m.from
<1> DEFINE n == m.cnt
           from == m.from
<1>1. a.cnt + n \in Nat /\ a.from \cup from \in SUBSET Source
  BY DEF Agg
<1>2. \A k \in Nat : [a EXCEPT !.cnt = k] \in Agg
  BY DEF Agg
<1>3. \A b \in Agg, g \in SUBSET Source : [b EXCEPT !.from = g] \in Agg
  BY DEF Agg
<1>4. RootUpdated(a, m) = [[a EXCEPT !.cnt = a.cnt + n] EXCEPT !.from = a.from \cup from]
  BY DEF RootUpdated
<1>5. [[a EXCEPT !.cnt = a.cnt + n] EXCEPT !.from = a.from \cup from] \in Agg
  BY <1>1, <1>2, <1>3
<1>6. DOMAIN a = {"round", "demand", "cnt", "from"}
  BY DEF Agg
<1> QED  BY <1>4, <1>5, <1>6

LEMMA PartWith ==
  ASSUME NEW e \in Part, NEW r \in Round, NEW src \in Source
  PROVE  /\ LeafUpdated(e, r, src) \in Part
         /\ LeafUpdated(e, r, src).round = r
         /\ e.round = r => /\ LeafUpdated(e, r, src).cnt = e.cnt + 1
                           /\ LeafUpdated(e, r, src).from = e.from \cup {src}
         /\ e.round # r => /\ LeafUpdated(e, r, src).cnt = 1
                           /\ LeafUpdated(e, r, src).from = {src}
<1>1. CASE e.round = r
  <2>1. e.cnt + 1 \in Nat /\ e.from \cup {src} \in SUBSET Source
    BY DEF Part
  <2>2. \A m \in Nat : [e EXCEPT !.cnt = m] \in Part
    BY DEF Part
  <2>3. \A b \in Part, g \in SUBSET Source : [b EXCEPT !.from = g] \in Part
    BY DEF Part
  <2>4. LeafUpdated(e, r, src)
          = [[e EXCEPT !.cnt = e.cnt + 1] EXCEPT !.from = e.from \cup {src}]
    BY <1>1 DEF LeafUpdated
  <2>5. DOMAIN e = {"round", "cnt", "from"}
    BY DEF Part
  <2>6. LeafUpdated(e, r, src) \in Part
    <3>1. [e EXCEPT !.cnt = e.cnt + 1] \in Part
      BY <2>1, <2>2
    <3> QED  BY <2>1, <2>3, <2>4, <3>1
  <2>7. /\ LeafUpdated(e, r, src).round = e.round
        /\ LeafUpdated(e, r, src).cnt = e.cnt + 1
        /\ LeafUpdated(e, r, src).from = e.from \cup {src}
    BY <2>4, <2>5
  <2> QED  BY <1>1, <2>6, <2>7
<1>2. CASE e.round # r
  <2>1. LeafUpdated(e, r, src) = [round |-> r, cnt |-> 1, from |-> {src}]
    BY <1>2 DEF LeafUpdated
  <2>2. 1 \in Nat /\ {src} \in SUBSET Source /\ r \in Round \cup {-1}
    OBVIOUS
  <2> QED  BY <1>2, <2>1, <2>2 DEF Part
<1> QED  BY <1>1, <1>2

-----------------------------------------------------------------------------
(* Type correctness.                                                       *)

LEMMA TypeInit == Init => TypeOK
<1> SUFFICES ASSUME Init PROVE TypeOK
  OBVIOUS
<1>1. NewState(0) \in JobState
  BY Constants, ServerAssumption DEF NewState, JobState
<1> QED  BY <1>1, Constants DEF Init, TypeOK

(* What a discard adds to the history is a count.                          *)
LEMMA DropType ==
  ASSUME TypeOK, NEW j \in Job, NEW e, e.round \in Round \cup {-1}, e.cnt \in Nat, Drop(j, e)
  PROVE  dropped' \in [Job -> [Round -> Nat]]
<1>1. CASE e.round = -1
  BY <1>1 DEF Drop, TypeOK
<1>2. CASE e.round # -1
  <2>1. dropped' = [dropped EXCEPT ![j][e.round] = @ + e.cnt]
    BY <1>2 DEF Drop
  <2>2. dropped \in [Job -> [Round -> Nat]] /\ e.round \in Round
    BY <1>2 DEF TypeOK
  <2> QED  BY <2>1, <2>2, Tables
<1> QED  BY <1>1, <1>2

(* A failed put leaves the job in a state of the job library.              *)
LEMMA PutFailedType ==
  ASSUME NEW s \in JobState
  PROVE  /\ PutFailed(s) \in JobState
         /\ PutFailed(s).round = s.round
  BY ServerAssumption DEF PutFailed, JobState

(* The calls of the job libraries, and expiry at the root.                 *)
LEMMA JobTypes ==
  ASSUME TypeOK, ParamInv, NEW j \in Job,
         \/ NewJob(j) \/ RootPut(j) \/ JobPutLost(j) \/ JobGetDone(j) \/ JobGetError(j)
         \/ JobDelete(j) \/ EvictBoard(j) \/ EvictAgg(j)
         \/ \E r \in Round, d \in Demand : StartRound(j, r, d)
  PROVE  TypeOK'
<1> USE Constants, ServerAssumption
<1>0. job[j] \in JobState /\ job[j].inc \in Inc /\ job[j].demand \in Nat
      /\ agg[j] \in Agg /\ agg[j].round \in Round \cup {-1} /\ agg[j].cnt \in Nat
  BY DEF TypeOK, JobState, Agg
<1>1. CASE NewJob(j)
  <2>1. job[j].inc + 1 \in Inc
    BY <1>0, <1>1 DEF NewJob, Inc
  <2>2. NewState(job[j].inc + 1) \in JobState
    BY <2>1 DEF NewState, JobState
  <2> QED  BY <1>1, <2>2 DEF NewJob, TypeOK
<1>2. CASE RootPut(j)
  <2>1. job[j].round \in Round
    BY <1>0, <1>2 DEF RootPut, ParamInv, JobState
  <2>2. job' \in [Job -> JobState]
    <3>1. [job[j] EXCEPT !.pc = "waiting"] \in JobState
      BY <1>0 DEF JobState
    <3>2. PutFailed(job[j]) \in JobState
      BY <1>0, PutFailedType
    <3> QED  BY <1>2, <3>1, <3>2 DEF RootPut, TypeOK
  <2>3. board' \in [Job -> Param] /\ agg' \in [Job -> Agg]
    <3>1. [round |-> job[j].round, inc |-> job[j].inc] \in Param
      BY <1>0, <2>1 DEF Param
    <3>2. [round |-> job[j].round, demand |-> job[j].demand, cnt |-> 0, from |-> {}] \in Agg
      BY <1>0, <2>1 DEF Agg
    <3> QED  BY <1>2, <3>1, <3>2 DEF RootPut, TypeOK
  <2>4. dropped' \in [Job -> [Round -> Nat]]
    BY <1>0, <1>2, DropType DEF RootPut
  <2>5. posted' \subseteq Job \X Round \X Inc
    BY <1>0, <1>2, <2>1 DEF RootPut, TypeOK
  <2>6. losses' \in Nat
    BY <1>2 DEF RootPut, TypeOK
  <2> QED  BY <1>2, <2>2, <2>3, <2>4, <2>5, <2>6 DEF RootPut, TypeOK
<1>3. CASE JobPutLost(j)
  <2>1. PutFailed(job[j]) \in JobState
    BY <1>0, PutFailedType
  <2> QED  BY <1>3, <2>1 DEF JobPutLost, TypeOK
<1>4. CASE JobGetDone(j) \/ JobGetError(j)
  <2>1. [job[j] EXCEPT !.pc = "ready"] \in JobState
    BY <1>0 DEF JobState
  <2> QED  BY <1>4, <2>1 DEF JobGetDone, JobGetError, TypeOK
<1>5. CASE JobDelete(j)
  <2>1. [job[j] EXCEPT !.pc = "gone"] \in JobState
    BY <1>0 DEF JobState
  <2>2. dropped' \in [Job -> [Round -> Nat]]
    BY <1>0, <1>5, DropType DEF JobDelete
  <2> QED  BY <1>5, <2>1, <2>2 DEF JobDelete, TypeOK
<1>6. CASE EvictBoard(j)
  BY <1>6 DEF EvictBoard, TypeOK
<1>7. CASE EvictAgg(j)
  <2>1. dropped' \in [Job -> [Round -> Nat]]
    BY <1>0, <1>7, DropType DEF EvictAgg
  <2>2. losses' \in Nat
    BY <1>7 DEF EvictAgg, TypeOK
  <2>3. agg' \in [Job -> Agg]
    BY <1>7 DEF EvictAgg, TypeOK
  <2> QED  BY <1>7, <2>1, <2>2, <2>3 DEF EvictAgg, TypeOK
<1>8. ASSUME NEW r \in Round, NEW d \in Demand, StartRound(j, r, d) PROVE TypeOK'
  <2>1. [job[j] EXCEPT !.pc = "putting", !.round = r, !.demand = d, !.trial = 0] \in JobState
    BY <1>0 DEF JobState
  <2> QED  BY <1>8, <2>1 DEF StartRound, TypeOK
<1> QED  BY <1>1, <1>2, <1>3, <1>4, <1>5, <1>6, <1>7, <1>8

(* A client in a handler or a task is one for a job and a round.           *)
LEMMA BusyClient ==
  ASSUME TypeOK, NEW c \in Client, client[c] # Idle
  PROVE  /\ client[c] \in Busy /\ client[c].job \in Job /\ client[c].round \in Round
         /\ client[c].param \in Param /\ client[c].trial \in 0 .. Trials
<1>1. client[c] \in Busy
  BY DEF TypeOK
<1> QED  BY <1>1 DEF Busy

(* The calls of the clients, and the answers to them.                      *)
LEMMA ClientTypes ==
  ASSUME TypeOK, ParamInv, OnlyPostedParams, NEW c \in Client,
         \/ \E j \in Job : Accepted(c, j)
         \/ LeafGet(c) \/ RootGet(c) \/ RootGetFail(c) \/ LeafReply(c) \/ ClientDrop(c)
         \/ LeafPush(c)
  PROVE  TypeOK'
<1> USE Constants, ServerAssumption
<1> DEFINE s == client[c]
           l == LeafOf[c]
<1>1. ASSUME NEW j \in Job, Accepted(c, j) PROVE TypeOK'
  <2>1. job[j].round \in Round /\ job[j].inc \in Inc
    BY <1>1 DEF Accepted, ParamInv, TypeOK, JobState
  <2>2. Told(j) \in Busy
    BY <2>1 DEF Told, Busy
  <2> QED  BY <1>1, <2>2 DEF Accepted, TypeOK
<1>2. CASE LeafGet(c)
  <2>1. s \in Busy /\ s.job \in Job
    BY <1>2, BusyClient DEF LeafGet
  <2>2. cache[l][s.job] \in Param
    BY <2>1 DEF TypeOK
  <2>3. Have(s, cache[l][s.job]) \in Busy /\ [s EXCEPT !.pc = "fetch"] \in Busy
    BY <2>1, <2>2 DEF Have, Busy
  <2>4. client' \in [Client -> Busy \cup {Idle}]
    BY <1>2, <2>3 DEF LeafGet, TypeOK
  <2> QED  BY <1>2, <2>4 DEF LeafGet, TypeOK
<1>3. CASE RootGet(c)
  <2>1. s \in Busy /\ s.job \in Job
    BY <1>3, BusyClient DEF RootGet
  <2>2. board[s.job] \in Param
    BY <2>1 DEF TypeOK
  <2>3. RootAnswer(board[s.job], s.round).code \in 0 .. 3
        /\ RootAnswer(board[s.job], s.round).param \in Param
    BY <2>2 DEF RootAnswer
  <2>4. [s EXCEPT !.pc = "reply", !.code = RootAnswer(board[s.job], s.round).code,
                  !.param = RootAnswer(board[s.job], s.round).param] \in Busy
    BY <2>1, <2>3 DEF Busy
  <2> QED  BY <1>3, <2>4 DEF RootGet, TypeOK
<1>4. CASE RootGetFail(c)
  <2>1. s \in Busy
    BY <1>4, BusyClient DEF RootGetFail
  <2>2. [s EXCEPT !.pc = "reply", !.code = 3] \in Busy
    BY <2>1 DEF Busy
  <2> QED  BY <1>4, <2>2 DEF RootGetFail, TypeOK
<1>5. CASE LeafReply(c)
  <2>1. s \in Busy /\ s.job \in Job /\ s.round \in Round /\ s.param \in Param
    BY <1>5, BusyClient DEF LeafReply
  <2>2. [s.param EXCEPT !.round = s.round] \in Param /\ Have(s, s.param) \in Busy
    BY <2>1 DEF Param, Have, Busy
  <2>3. client' \in [Client -> Busy \cup {Idle}]
    BY <1>5, <2>2 DEF LeafReply, TypeOK
  <2>4. cache' \in [Leaf -> [Job -> Param]]
    <3>1. \/ cache' = cache
          \/ cache' = [cache EXCEPT ![l][s.job] = [s.param EXCEPT !.round = s.round]]
      BY <1>5 DEF LeafReply
    <3>2. cache \in [Leaf -> [Job -> Param]] /\ l \in Leaf
      BY DEF TypeOK
    <3> DEFINE u == [s.param EXCEPT !.round = s.round]
    <3>3. u \in Param /\ s.job \in Job
      BY <2>1, <2>2
    <3> HIDE DEF s, l, u
    <3>4. [cache EXCEPT ![l][s.job] = u] \in [Leaf -> [Job -> Param]]
      BY <3>2, <3>3
    <3> QED  BY <3>1, <3>2, <3>4 DEF u
  <2> QED  BY <1>5, <2>3, <2>4 DEF LeafReply, TypeOK
<1>6. CASE ClientDrop(c)
  BY <1>6 DEF ClientDrop, TypeOK
<1>7. CASE LeafPush(c)
  <2> DEFINE e == part[l][s.job]
             src == [client |-> c, round |-> s.param.round, inc |-> s.param.inc]
  <2>1. s \in Busy /\ s.job \in Job /\ s.round \in Round /\ s.param \in Param
        /\ s.trial \in 0 .. Trials
    BY <1>7, BusyClient DEF LeafPush
  <2>2. e \in Part /\ e.round \in Round \cup {-1} /\ e.cnt \in Nat
    BY <2>1 DEF TypeOK, Part
  <2>3. src \in Source
    <3>1. s.param.round = s.round
      BY <1>7 DEF LeafPush, OnlyPostedParams
    <3> QED  BY <2>1, <3>1 DEF Source, Param
  <2>4. LeafUpdated(e, s.round, src) \in Part
    BY <2>1, <2>2, <2>3, PartWith
  <2>5. part' \in [Leaf -> [Job -> Part]]
    <3>1. part' = part
          \/ part' = [part EXCEPT ![l][s.job] = LeafUpdated(e, s.round, src)]
      BY <1>7 DEF LeafPush
    <3>2. part \in [Leaf -> [Job -> Part]] /\ l \in Leaf
      BY DEF TypeOK
    <3> DEFINE u == LeafUpdated(e, s.round, src)
    <3>3. u \in Part /\ s.job \in Job
      BY <2>1, <2>4
    <3> HIDE DEF s, l, u
    <3>4. [part EXCEPT ![l][s.job] = u] \in [Leaf -> [Job -> Part]]
      BY <3>2, <3>3
    <3> QED  BY <3>1, <3>2, <3>4 DEF u
  <2>6. taken' \in [Job -> [Round -> Nat]]
    <3>1. taken' = taken
          \/ taken' = [taken EXCEPT ![s.job][s.round] = @ + 1]
      BY <1>7 DEF LeafPush
    <3>2. taken \in [Job -> [Round -> Nat]]
      BY DEF TypeOK
    <3> HIDE DEF s
    <3>3. taken[s.job][s.round] \in Nat
      BY <2>1, <3>2
    <3>4. taken[s.job][s.round] + 1 \in Nat
      BY <3>3
    <3> QED  BY <2>1, <3>1, <3>2, <3>4
  <2>7. dropped' \in [Job -> [Round -> Nat]]
    <3>1. dropped' = dropped \/ Drop(s.job, e)
      BY <1>7 DEF LeafPush
    <3> QED  BY <2>1, <2>2, <3>1, DropType DEF TypeOK
  <2>8. client' \in [Client -> Busy \cup {Idle}]
    <3>1. s.trial + 1 < Trials => s.trial + 1 \in 0 .. Trials
      BY <2>1
    <3>2. s.trial + 1 < Trials => [s EXCEPT !.trial = @ + 1] \in Busy
      BY <2>1, <3>1, BusyWith
    <3>3. \/ client' = [client EXCEPT ![c] = Idle]
          \/ s.trial + 1 < Trials /\ client' = [client EXCEPT ![c].trial = @ + 1]
      BY <1>7 DEF LeafPush
    <3>4. client \in [Client -> Busy \cup {Idle}]
      BY DEF TypeOK
    <3>5. CASE client' = [client EXCEPT ![c] = Idle]
      BY <3>4, <3>5
    <3>6. CASE s.trial + 1 < Trials /\ client' = [client EXCEPT ![c].trial = @ + 1]
      <4> DEFINE n == [s EXCEPT !.trial = @ + 1]
      <4>1. n \in Busy /\ client' = [client EXCEPT ![c] = n]
        BY <3>2, <3>6
      <4> HIDE DEF n
      <4> QED  BY <3>4, <4>1
    <3> QED  BY <3>3, <3>5, <3>6
  <2> QED  BY <1>7, <2>5, <2>6, <2>7, <2>8 DEF LeafPush, TypeOK
<1> QED  BY <1>1, <1>2, <1>3, <1>4, <1>5, <1>6, <1>7

(* A leaf that holds the lock of its store pushes an entry of it.          *)
LEMMA BusyFlush ==
  ASSUME TypeOK, FlushInv, NEW l \in Leaf, flush[l].pc # "idle"
  PROVE  /\ flush[l] \in Flush /\ flush[l].job \in Job
         /\ flush[l].msg = part[l][flush[l].job] /\ flush[l].msg \in Part
         /\ flush[l].msg.round \in Round /\ flush[l].msg.cnt \in Nat
         /\ flush[l].msg.from \subseteq Source
<1>1. flush[l] \in Flush
  BY Constants DEF TypeOK
<1> QED  BY <1>1 DEF Flush, FlushInv, Part

(* The eviction routine of a leaf.                                         *)
LEMMA LeafTypes ==
  ASSUME TypeOK, FlushInv, NEW l \in Leaf,
         \/ \E j \in Job : LeafFlush(l, j) \/ EvictCache(l, j)
         \/ RootPush(l) \/ FlushFail(l) \/ FlushDone(l)
  PROVE  TypeOK'
<1> USE Constants, ServerAssumption
<1>1. ASSUME NEW j \in Job, LeafFlush(l, j) PROVE TypeOK'
  <2>1. [pc |-> "sent", job |-> j, msg |-> part[l][j]] \in Flush
    BY DEF TypeOK, Flush
  <2> QED  BY <1>1, <2>1 DEF LeafFlush, TypeOK
<1>2. ASSUME NEW j \in Job, EvictCache(l, j) PROVE TypeOK'
  <2>1. cache' \in [Leaf -> [Job -> Param]]
    BY <1>2 DEF EvictCache, TypeOK
  <2> QED  BY <1>2, <2>1 DEF EvictCache, TypeOK
<1>3. CASE RootPush(l)
  <2> DEFINE j == flush[l].job
             m == flush[l].msg
  <2>1. flush[l] \in Flush /\ j \in Job /\ m \in Part /\ m.round \in Round /\ m.cnt \in Nat
        /\ m.from \subseteq Source
    BY <1>3, BusyFlush DEF RootPush
  <2>2. RootUpdated(agg[j], m) \in Agg
    <3>1. agg[j] \in Agg
      BY <2>1 DEF TypeOK
    <3> QED  BY <2>1, <3>1, AggWith
  <2>3. agg' \in [Job -> Agg]
    BY <1>3, <2>1, <2>2 DEF RootPush, TypeOK
  <2>4. dropped' \in [Job -> [Round -> Nat]]
    <3>1. dropped' = dropped \/ Drop(j, m)
      BY <1>3 DEF RootPush
    <3> QED  BY <2>1, <3>1, DropType DEF TypeOK
  <2>5. [flush[l] EXCEPT !.pc = "done"] \in Flush
    BY <2>1 DEF Flush
  <2> QED  BY <1>3, <2>3, <2>4, <2>5 DEF RootPush, TypeOK
<1>4. CASE FlushFail(l) \/ FlushDone(l)
  <2>1. /\ flush[l].job \in Job
        /\ flush[l].msg.round \in Round /\ flush[l].msg.cnt \in Nat
    BY <1>4, BusyFlush DEF FlushFail, FlushDone
  <2>2. part' \in [Leaf -> [Job -> Part]] /\ flush' \in [Leaf -> Flush \cup {NoFlush}]
    <3>1. Cleared(l)
      BY <1>4 DEF FlushFail, FlushDone
    <3> QED  BY <2>1, <3>1, Tables DEF Cleared, TypeOK
  <2>3. dropped' \in [Job -> [Round -> Nat]]
    <3>1. dropped' = dropped \/ Drop(flush[l].job, flush[l].msg)
      BY <1>4 DEF FlushFail, FlushDone
    <3> QED  BY <2>1, <3>1, DropType DEF TypeOK
  <2>4. losses' \in Nat
    BY <1>4 DEF FlushFail, FlushDone, TypeOK
  <2> QED  BY <1>4, <2>2, <2>3, <2>4 DEF FlushFail, FlushDone, TypeOK
<1> QED  BY <1>1, <1>2, <1>3, <1>4

LEMMA TypeStep == ServerInv /\ [Next]_vars => TypeOK'
<1> SUFFICES ASSUME ServerInv, [Next]_vars PROVE TypeOK'
  OBVIOUS
<1>0. TypeOK /\ ParamInv /\ FlushInv /\ OnlyPostedParams
  BY DEF ServerInv
<1>1. CASE UNCHANGED vars
  BY <1>0, <1>1 DEF vars, TypeOK
<1> QED
  BY <1>0, <1>1, JobTypes, ClientTypes, LeafTypes DEF Next

-----------------------------------------------------------------------------
(* Which steps change which part of the state.                             *)

JobCall(j) == NewJob(j) \/ JobPutLost(j) \/ JobGetDone(j) \/ JobGetError(j)
              \/ \E r \in Round, d \in Demand : StartRound(j, r, d)

LEMMA Frame ==
  ASSUME [Next]_vars
  PROVE
  /\ job' = job \/ \E j \in Job : JobCall(j) \/ RootPut(j) \/ JobDelete(j)
  /\ board' = board \/ \E j \in Job : RootPut(j) \/ JobDelete(j) \/ EvictBoard(j)
  /\ posted' = posted \/ \E j \in Job : RootPut(j)
  /\ agg' = agg \/ (\E j \in Job : RootPut(j) \/ JobDelete(j) \/ EvictAgg(j))
                \/ \E l \in Leaf : RootPush(l)
  /\ cache' = cache \/ (\E c \in Client : LeafReply(c))
                    \/ \E l \in Leaf, j \in Job : EvictCache(l, j)
  /\ client' = client
     \/ \E c \in Client : \/ \E j \in Job : Accepted(c, j)
                          \/ LeafGet(c) \/ RootGet(c) \/ RootGetFail(c) \/ LeafReply(c)
                          \/ ClientDrop(c) \/ LeafPush(c)
  /\ part' = part \/ (\E c \in Client : LeafPush(c))
                  \/ \E l \in Leaf : FlushFail(l) \/ FlushDone(l)
  /\ flush' = flush
     \/ \E l \in Leaf : \/ \E j \in Job : LeafFlush(l, j)
                        \/ RootPush(l) \/ FlushFail(l) \/ FlushDone(l)
<1>1. CASE UNCHANGED vars
  BY <1>1 DEF vars
<1>2. ASSUME NEW j \in Job, RootPut(j) \/ JobDelete(j) \/ EvictBoard(j) \/ EvictAgg(j)
      PROVE  UNCHANGED <<cache, part, flush, client>>
             /\ (~RootPut(j) => posted' = posted)
             /\ (EvictBoard(j) => UNCHANGED <<job, agg>>)
             /\ (EvictAgg(j) => UNCHANGED <<job, board>>)
  BY <1>2 DEF RootPut, JobDelete, EvictBoard, EvictAgg
<1>3. ASSUME NEW j \in Job, JobCall(j)
      PROVE  UNCHANGED <<board, agg, cache, part, flush, client, posted>>
  BY <1>3 DEF JobCall, NewJob, JobPutLost, JobGetDone, JobGetError, StartRound
<1>4. ASSUME NEW c \in Client,
             \/ \E j \in Job : Accepted(c, j)
             \/ LeafGet(c) \/ RootGet(c) \/ RootGetFail(c) \/ LeafReply(c)
             \/ ClientDrop(c) \/ LeafPush(c)
      PROVE  UNCHANGED <<job, board, agg, flush, posted>>
             /\ (part' = part \/ LeafPush(c)) /\ (cache' = cache \/ LeafReply(c))
  BY <1>4 DEF Accepted, LeafGet, RootGet, RootGetFail, LeafReply, ClientDrop, LeafPush
<1>5. ASSUME NEW l \in Leaf, NEW j \in Job, LeafFlush(l, j) \/ EvictCache(l, j)
      PROVE  UNCHANGED <<job, board, agg, part, client, posted>>
             /\ (LeafFlush(l, j) => cache' = cache) /\ (EvictCache(l, j) => flush' = flush)
  BY <1>5 DEF LeafFlush, EvictCache
<1>6. ASSUME NEW l \in Leaf, RootPush(l) \/ FlushFail(l) \/ FlushDone(l)
      PROVE  UNCHANGED <<job, board, cache, client, posted>>
             /\ (RootPush(l) => part' = part) /\ (~RootPush(l) => agg' = agg)
  BY <1>6 DEF RootPush, FlushFail, FlushDone
<1>7. CASE \E j \in Job : \/ NewJob(j) \/ RootPut(j) \/ JobPutLost(j) \/ JobGetDone(j)
                          \/ JobGetError(j) \/ JobDelete(j) \/ EvictBoard(j) \/ EvictAgg(j)
                          \/ \E r \in Round, d \in Demand : StartRound(j, r, d)
  <2>1. PICK j \in Job : JobCall(j) \/ RootPut(j) \/ JobDelete(j) \/ EvictBoard(j) \/ EvictAgg(j)
    BY <1>7 DEF JobCall
  <2>2. CASE JobCall(j)
    BY <1>3, <2>2
  <2>3. CASE ~JobCall(j)
    BY <1>2, <2>1, <2>3
  <2> QED  BY <2>2, <2>3
<1>8. CASE \E c \in Client : \/ \E j \in Job : Accepted(c, j)
                             \/ LeafGet(c) \/ RootGet(c) \/ RootGetFail(c) \/ LeafReply(c)
                             \/ ClientDrop(c) \/ LeafPush(c)
  BY <1>4, <1>8
<1>9. CASE \E l \in Leaf : \E j \in Job : LeafFlush(l, j) \/ EvictCache(l, j)
  BY <1>5, <1>9
<1>10. CASE \E l \in Leaf : RootPush(l) \/ FlushFail(l) \/ FlushDone(l)
  BY <1>6, <1>10
<1> QED
  BY <1>1, <1>7, <1>8, <1>9, <1>10 DEF Next

-----------------------------------------------------------------------------
(* What is posted, and what clients train on.                              *)

(* A job that puts parameters or waits for results has a round.            *)
LEMMA JobRoundStep ==
  ASSUME ServerInv, [Next]_vars, NEW i \in Job, job'[i].pc \in {"putting", "waiting"}
  PROVE  job'[i].round # -1
<1>0. job \in [Job -> JobState] /\ (job[i].pc \in {"putting", "waiting"} => job[i].round # -1)
  BY DEF ServerInv, TypeOK, ParamInv
<1>1. CASE job' = job
  BY <1>0, <1>1
<1>2. ASSUME NEW j \in Job, JobPutLost(j) \/ RootPut(j) PROVE job'[i].round # -1
  <2>1. job[j].pc = "putting"
    BY <1>2 DEF JobPutLost, RootPut
  <2>2. \/ job' = [job EXCEPT ![j].pc = "waiting"]
        \/ job' = [job EXCEPT ![j] = PutFailed(job[j])]
    BY <1>2 DEF JobPutLost, RootPut
  <2>3. PutFailed(job[j]).round = job[j].round
    BY <1>0, PutFailedType
  <2>4. job'[i].round = job[i].round /\ (i # j => job'[i] = job[i])
    BY <1>0, <2>2, <2>3 DEF JobState
  <2> QED  BY <1>0, <2>1, <2>4
<1>3. ASSUME NEW j \in Job, NewJob(j) PROVE job'[i].round # -1
  <2>1. job'[j].pc = "ready" /\ (i # j => job'[i] = job[i])
    BY <1>0, <1>3 DEF NewJob, NewState
  <2> QED  BY <1>0, <2>1
<1>4. ASSUME NEW j \in Job, JobGetDone(j) \/ JobGetError(j) \/ JobDelete(j) PROVE job'[i].round # -1
  <2>1. \E pc \in {"ready", "gone"} : job' = [job EXCEPT ![j].pc = pc]
    BY <1>4 DEF JobGetDone, JobGetError, JobDelete
  <2>2. job'[j].pc \in {"ready", "gone"} /\ (i # j => job'[i] = job[i])
    BY <1>0, <2>1 DEF JobState
  <2> QED  BY <1>0, <2>2
<1>5. ASSUME NEW j \in Job, NEW r \in Round, NEW d \in Demand, StartRound(j, r, d)
      PROVE  job'[i].round # -1
  <2>1. job'[j].round = r /\ (i # j => job'[i] = job[i])
    BY <1>0, <1>5 DEF StartRound, JobState
  <2> QED  BY <1>0, <2>1, Constants
<1> QED
  BY <1>1, <1>2, <1>3, <1>4, <1>5, Frame DEF JobCall

(* Posted parameters stay posted.                                          *)
LEMMA PostedStay ==
  ASSUME [Next]_vars
  PROVE  posted \subseteq posted'
  BY Frame DEF RootPut

(* The root's store.                                                       *)
LEMMA BoardStep ==
  ASSUME ServerInv, [Next]_vars, NEW i \in Job
  PROVE  WasPosted(i, board[i])'
<1>0. TypeOK /\ WasPosted(i, board[i])
  BY DEF ServerInv, ParamInv
<1>1. CASE board'[i] = board[i]
  BY <1>0, <1>1, PostedStay DEF WasPosted
<1>2. CASE board'[i] = NoParam
  BY <1>2 DEF WasPosted, NoParam
<1>3. ASSUME NEW j \in Job, RootPut(j), i = j PROVE WasPosted(i, board[i])'
  <2>1. board'[i] = [round |-> job[i].round, inc |-> job[i].inc]
    BY <1>0, <1>3 DEF RootPut, TypeOK
  <2> QED  BY <1>3, <2>1 DEF RootPut, WasPosted
<1>4. board'[i] = board[i] \/ board'[i] = NoParam \/ RootPut(i)
  BY <1>0, Frame DEF RootPut, JobDelete, EvictBoard, TypeOK
<1> QED  BY <1>1, <1>2, <1>3, <1>4

(* What the root answers was posted for the round that was asked for.      *)
LEMMA ClientStep ==
  ASSUME ServerInv, [Next]_vars, NEW d \in Client,
         client'[d].pc = "have" \/ (client'[d].pc = "reply" /\ client'[d].code = 1)
  PROVE  /\ client'[d].param.round = client'[d].round
         /\ client'[d].job \in Job /\ client'[d].round \in Round
         /\ <<client'[d].job, client'[d].param.round, client'[d].param.inc>> \in posted'
<1> USE Constants
<1>0. TypeOK /\ ParamInv /\ OnlyPostedParams
  BY DEF ServerInv
<1>1. CASE client'[d] = client[d]
  <2>1. client[d] \in Busy
    BY <1>0, <1>1, BusyClient
  <2>2. client[d].param.round = client[d].round
        /\ <<client[d].job, client[d].param.round, client[d].param.inc>> \in posted
    BY <1>0, <1>1, <2>1 DEF ParamInv, OnlyPostedParams, WasPosted, Busy
  <2> QED  BY <1>1, <2>1, <2>2, PostedStay DEF Busy
<1>2. CASE client'[d] = Idle \/ client'[d].pc \in {"told", "fetch"}
  BY <1>2
<1>3. CASE LeafGet(d)
  <2> DEFINE s == client[d]
             e == cache[LeafOf[d]][s.job]
  <2>1. s \in Busy /\ s.job \in Job /\ s.round \in Round
    BY <1>0, <1>3, BusyClient DEF LeafGet
  <2>2. client'[d] = Have(s, e) /\ e.round = s.round
    <3>1. client'[d] = CASE e.round = s.round -> Have(s, e)
                         [] e.round > s.round -> Idle
                         [] OTHER -> [s EXCEPT !.pc = "fetch"]
      BY <1>0, <1>3 DEF LeafGet, TypeOK
    <3>2. client'[d] # Idle
      OBVIOUS
    <3>3. client'[d] # [s EXCEPT !.pc = "fetch"]
      BY <2>1 DEF Busy
    <3> HIDE DEF s, e
    <3> QED  BY <3>1, <3>2, <3>3
  <2>3. client'[d].param = e /\ client'[d].round = s.round /\ client'[d].job = s.job
    BY <2>1, <2>2 DEF Have, Busy
  <2>4. WasPosted(s.job, e)
    BY <1>0, <2>1 DEF ParamInv
  <2> QED  BY <2>1, <2>2, <2>3, <2>4, PostedStay DEF WasPosted
<1>4. CASE RootGet(d)
  <2> DEFINE s == client[d]
             e == board[s.job]
  <2>1. s \in Busy /\ s.job \in Job /\ s.round \in Round
    BY <1>0, <1>4, BusyClient DEF RootGet
  <2>2. /\ client'[d].pc = "reply" /\ client'[d].job = s.job /\ client'[d].round = s.round
        /\ client'[d].code = RootAnswer(e, s.round).code
        /\ client'[d].param = RootAnswer(e, s.round).param
    BY <1>0, <1>4, <2>1 DEF RootGet, TypeOK, Busy
  <2>3. e.round = s.round /\ client'[d].param = e
    BY <2>2 DEF RootAnswer
  <2>4. WasPosted(s.job, e)
    BY <1>0, <2>1 DEF ParamInv
  <2> QED  BY <2>1, <2>2, <2>3, <2>4, PostedStay DEF WasPosted
<1>5. CASE RootGetFail(d)
  <2>1. client[d] \in Busy
    BY <1>0, <1>5, BusyClient DEF RootGetFail
  <2>2. client'[d].pc = "reply" /\ client'[d].code = 3
    BY <1>0, <1>5, <2>1 DEF RootGetFail, TypeOK, Busy
  <2> QED  BY <2>2
<1>6. CASE LeafReply(d)
  <2> DEFINE s == client[d]
  <2>1. s \in Busy /\ s.job \in Job /\ s.round \in Round /\ s.pc = "reply"
    BY <1>0, <1>6, BusyClient DEF LeafReply
  <2>2. s.code = 1 /\ client'[d] = Have(s, s.param)
    BY <1>0, <1>2, <1>6, <2>1 DEF LeafReply, TypeOK
  <2>3. client'[d].param = s.param /\ client'[d].round = s.round /\ client'[d].job = s.job
    BY <2>1, <2>2 DEF Have, Busy
  <2>4. s.param.round = s.round /\ WasPosted(s.job, s.param)
    BY <1>0, <2>1, <2>2 DEF ParamInv
  <2> QED  BY <2>1, <2>3, <2>4, PostedStay DEF WasPosted
<1>7. CASE LeafPush(d)
  <2> DEFINE s == client[d]
  <2>1. s \in Busy /\ s.job \in Job /\ s.round \in Round /\ s.pc = "have"
    BY <1>0, <1>7, BusyClient DEF LeafPush
  <2>2. client' = [client EXCEPT ![d].trial = @ + 1]
    BY <1>0, <1>2, <1>7, <2>1 DEF LeafPush, TypeOK
  <2>3. client'[d].param = s.param /\ client'[d].round = s.round /\ client'[d].job = s.job
    BY <1>0, <2>1, <2>2 DEF TypeOK, Busy
  <2>4. s.param.round = s.round /\ <<s.job, s.param.round, s.param.inc>> \in posted
    BY <1>0, <2>1 DEF OnlyPostedParams
  <2> QED  BY <2>1, <2>3, <2>4, PostedStay
<1>8. ASSUME NEW j \in Job, Accepted(d, j) PROVE client'[d].pc = "told"
  BY <1>0, <1>8 DEF Accepted, Told, TypeOK
<1>9. ASSUME ClientDrop(d) PROVE client'[d] = Idle
  BY <1>0, <1>9 DEF ClientDrop, TypeOK
<1>10. ASSUME NEW c \in Client, c # d,
              \/ \E j \in Job : Accepted(c, j)
              \/ LeafGet(c) \/ RootGet(c) \/ RootGetFail(c) \/ LeafReply(c)
              \/ ClientDrop(c) \/ LeafPush(c)
       PROVE  client'[d] = client[d]
  BY <1>0, <1>10 DEF Accepted, LeafGet, RootGet, RootGetFail, LeafReply, ClientDrop, LeafPush,
     TypeOK
<1>11. \/ client' = client
       \/ (\E j \in Job : Accepted(d, j)) \/ ClientDrop(d)
       \/ LeafGet(d) \/ RootGet(d) \/ RootGetFail(d) \/ LeafReply(d) \/ LeafPush(d)
       \/ client'[d] = client[d]
  BY <1>10, Frame
<1> QED
  BY <1>1, <1>2, <1>3, <1>4, <1>5, <1>6, <1>7, <1>8, <1>9, <1>11

(* The leaves' caches.                                                     *)
LEMMA CacheStep ==
  ASSUME ServerInv, [Next]_vars, NEW k \in Leaf, NEW i \in Job
  PROVE  WasPosted(i, cache[k][i])'
<1> USE Constants
<1>0. TypeOK /\ ParamInv /\ WasPosted(i, cache[k][i])
  BY DEF ServerInv, ParamInv
<1>1. CASE cache'[k][i] = cache[k][i]
  BY <1>0, <1>1, PostedStay DEF WasPosted
<1>2. ASSUME NEW c \in Client, LeafReply(c), cache'[k][i] # cache[k][i]
      PROVE  WasPosted(i, cache[k][i])'
  <2> DEFINE s == client[c]
             l == LeafOf[c]
             u == [s.param EXCEPT !.round = s.round]
  <2>1. s \in Busy /\ s.job \in Job /\ s.round \in Round /\ s.param \in Param /\ s.pc = "reply"
    BY <1>0, <1>2, BusyClient DEF LeafReply
  <2>2. s.code = 1 /\ cache' = [cache EXCEPT ![l][s.job] = u]
    BY <1>2 DEF LeafReply
  <2>3. s.param.round = s.round /\ WasPosted(s.job, s.param)
    BY <1>0, <2>1, <2>2 DEF ParamInv
  <2>4. u.round = s.round /\ u.inc = s.param.inc
    BY <2>1 DEF Param
  <2>5. cache \in [Leaf -> [Job -> Param]]
    BY <1>0 DEF TypeOK
  <2>6. cache'[k][i] = u /\ i = s.job
    <3> HIDE DEF u, s, l
    <3> QED  BY <1>2, <2>2, <2>5
  <2>7. <<i, u.round, u.inc>> \in posted
    BY <2>1, <2>3, <2>4, <2>6 DEF WasPosted
  <2> QED  BY <2>6, <2>7, PostedStay DEF WasPosted
<1>3. ASSUME NEW l \in Leaf, NEW j \in Job, EvictCache(l, j), cache'[k][i] # cache[k][i]
      PROVE  WasPosted(i, cache[k][i])'
  <2>1. cache \in [Leaf -> [Job -> Param]]
    BY <1>0 DEF TypeOK
  <2>2. cache'[k][i] = NoParam
    BY <1>3, <2>1 DEF EvictCache
  <2> QED  BY <2>2 DEF WasPosted, NoParam
<1> QED  BY <1>1, <1>2, <1>3, Frame

LEMMA ParamStep == ServerInv /\ [Next]_vars => ParamInv' /\ OnlyPostedParams'
<1> SUFFICES ASSUME ServerInv, [Next]_vars PROVE ParamInv' /\ OnlyPostedParams'
  OBVIOUS
<1>1. \A j \in Job : job'[j].pc \in {"putting", "waiting"} => job'[j].round # -1
  BY JobRoundStep
<1>2. \A c \in Client : client'[c].pc = "reply" /\ client'[c].code = 1 =>
        /\ client'[c].param.round = client'[c].round
        /\ WasPosted(client[c].job, client[c].param)'
  BY ClientStep DEF WasPosted
<1>3. \A j \in Job : WasPosted(j, board[j])'
  BY BoardStep
<1>4. \A l \in Leaf, j \in Job : WasPosted(j, cache[l][j])'
  BY CacheStep
<1> QED  BY <1>1, <1>2, <1>3, <1>4, ClientStep DEF ParamInv, OnlyPostedParams

-----------------------------------------------------------------------------
(* The entry under the lock, and what the aggregates are made of.          *)

(* Which entry of which leaf a step changes, and how.                      *)
LEMMA PartChange ==
  ASSUME ServerInv, [Next]_vars, NEW k \in Leaf, NEW i \in Job, part'[k][i] # part[k][i]
  PROVE  \/ \E c \in Client :
              /\ LeafPush(c) /\ k = LeafOf[c] /\ i = client[c].job
              /\ client[c].round \in Round /\ client[c].param.round = client[c].round
              /\ LET src == [client |-> c, round |-> client[c].param.round,
                             inc |-> client[c].param.inc]
                 IN  src \in Source
                     /\ part'[k][i] = LeafUpdated(part[k][i], client[c].round, src)
         \/ (FlushFail(k) \/ FlushDone(k)) /\ i = flush[k].job /\ part'[k][i] = NoPart
<1> USE Constants
<1>0. TypeOK /\ ParamInv /\ FlushInv /\ OnlyPostedParams /\ part \in [Leaf -> [Job -> Part]]
  BY DEF ServerInv, TypeOK
<1>1. ASSUME NEW c \in Client, LeafPush(c)
      PROVE  /\ k = LeafOf[c] /\ i = client[c].job
             /\ client[c].round \in Round /\ client[c].param.round = client[c].round
             /\ LET src == [client |-> c, round |-> client[c].param.round,
                            inc |-> client[c].param.inc]
                IN  src \in Source
                    /\ part'[k][i] = LeafUpdated(part[k][i], client[c].round, src)
  <2> DEFINE s == client[c]
             l == LeafOf[c]
             src == [client |-> c, round |-> s.param.round, inc |-> s.param.inc]
             u == LeafUpdated(part[l][s.job], s.round, src)
  <2>1. s \in Busy /\ s.job \in Job /\ s.round \in Round /\ s.param \in Param /\ s.pc = "have"
    BY <1>0, <1>1, BusyClient DEF LeafPush
  <2>2. s.param.round = s.round
    BY <1>0, <2>1 DEF OnlyPostedParams
  <2>3. src \in Source
    BY <2>1, <2>2 DEF Source, Param
  <2>4. part' = part \/ part' = [part EXCEPT ![l][s.job] = u]
    BY <1>1 DEF LeafPush
  <2>5. k = l /\ i = s.job /\ part'[k][i] = u
    <3> HIDE DEF u, s, l
    <3> QED  BY <1>0, <2>4
  <2> QED  BY <2>1, <2>2, <2>3, <2>5
<1>2. ASSUME NEW l \in Leaf, FlushFail(l) \/ FlushDone(l)
      PROVE  k = l /\ i = flush[k].job /\ part'[k][i] = NoPart
  <2>1. part' = [part EXCEPT ![l][flush[l].job] = NoPart]
    BY <1>2 DEF FlushFail, FlushDone, Cleared
  <2> QED  BY <1>0, <2>1
<1> QED  BY <1>1, <1>2, Frame

(* The entry that is pushed to the root stays as it was sent.              *)
LEMMA FlushStep == ServerInv /\ [Next]_vars => FlushInv'
<1> SUFFICES ASSUME ServerInv, [Next]_vars, NEW k \in Leaf, flush'[k].pc # "idle"
             PROVE  flush'[k].msg = part'[k][flush'[k].job] /\ flush'[k].msg.round # -1
  BY DEF FlushInv
<1> USE Constants
<1>0. TypeOK /\ FlushInv /\ flush \in [Leaf -> Flush \cup {NoFlush}]
  BY DEF ServerInv, TypeOK
<1>1. \/ flush'[k] = flush[k]
      \/ \E j \in Job : LeafFlush(k, j)
      \/ RootPush(k)
  <2>1. ASSUME NEW l \in Leaf, FlushFail(l) \/ FlushDone(l) PROVE flush'[k] = flush[k]
    <3>1. flush' = [flush EXCEPT ![l] = NoFlush]
      BY <2>1 DEF FlushFail, FlushDone, Cleared
    <3> QED  BY <1>0, <3>1
  <2>2. ASSUME NEW l \in Leaf, NEW j \in Job, LeafFlush(l, j), l # k PROVE flush'[k] = flush[k]
    BY <1>0, <2>2 DEF LeafFlush
  <2>3. ASSUME NEW l \in Leaf, RootPush(l), l # k PROVE flush'[k] = flush[k]
    BY <1>0, <2>3 DEF RootPush
  <2> QED  BY <2>1, <2>2, <2>3, Frame
<1>2. ASSUME NEW j \in Job, LeafFlush(k, j)
      PROVE  flush'[k].msg = part'[k][flush'[k].job] /\ flush'[k].msg.round # -1
  BY <1>0, <1>2 DEF LeafFlush
<1>3. CASE RootPush(k)
  <2>1. flush[k] \in Flush /\ flush[k].pc = "sent"
    BY <1>0, <1>3 DEF RootPush
  <2>2. flush'[k].msg = flush[k].msg /\ flush'[k].job = flush[k].job /\ part' = part
    BY <1>0, <1>3, <2>1 DEF RootPush, Flush
  <2> QED  BY <1>0, <2>1, <2>2 DEF FlushInv
<1>4. CASE flush'[k] = flush[k]
  <2>1. flush[k] \in Flush /\ flush[k].job \in Job
        /\ flush[k].msg = part[k][flush[k].job] /\ flush[k].msg.round # -1
    BY <1>0, <1>4 DEF FlushInv, Flush
  <2>2. part'[k][flush[k].job] = part[k][flush[k].job]
    <3>1. ASSUME NEW c \in Client, LeafPush(c), k = LeafOf[c] PROVE FALSE
      BY <1>4, <3>1 DEF LeafPush, StoreFree
    <3>2. ASSUME FlushFail(k) \/ FlushDone(k) PROVE FALSE
      BY <1>0, <1>4, <3>2 DEF FlushFail, FlushDone, Cleared
    <3> QED  BY <2>1, <3>1, <3>2, PartChange
  <2> QED  BY <1>4, <2>1, <2>2
<1> QED  BY <1>1, <1>2, <1>3, <1>4

(* What an aggregate of the root and one of a leaf hold is of its round.   *)
LEMMA AggStep ==
  ASSUME ServerInv, [Next]_vars, NEW i \in Job, NEW src \in agg'[i].from
  PROVE  src.round = agg'[i].round
<1>0. TypeOK /\ FlushInv /\ OnlyRoundsPushes /\ agg \in [Job -> Agg]
  BY DEF ServerInv, TypeOK
<1>1. CASE agg'[i] = agg[i]
  BY <1>0, <1>1 DEF OnlyRoundsPushes
<1>2. ASSUME NEW l \in Leaf, RootPush(l), agg'[i] # agg[i] PROVE src.round = agg'[i].round
  <2> DEFINE m == flush[l].msg
  <2>1. m \in Part /\ m.cnt \in Nat /\ m.from \subseteq Source /\ flush[l].job \in Job
        /\ m = part[l][flush[l].job]
    BY <1>0, <1>2, BusyFlush DEF RootPush
  <2>2. i = flush[l].job /\ agg[i].round = m.round /\ agg'[i] = RootUpdated(agg[i], m)
    BY <1>0, <1>2 DEF RootPush, RootTakes
  <2>3. agg'[i].round = agg[i].round /\ agg'[i].from = agg[i].from \cup m.from
    <3>1. agg[i] \in Agg
      BY <1>0
    <3> HIDE DEF m
    <3> QED  BY <2>1, <2>2, <3>1, AggWith
  <2>4. \A s \in m.from : s.round = m.round
    BY <1>0, <2>1 DEF OnlyRoundsPushes
  <2> QED  BY <1>0, <2>2, <2>3, <2>4 DEF OnlyRoundsPushes
<1>3. ASSUME NEW j \in Job, RootPut(j) \/ JobDelete(j) \/ EvictAgg(j), agg'[i] # agg[i]
      PROVE  agg'[i].from = {}
  BY <1>0, <1>3 DEF RootPut, JobDelete, EvictAgg, NoAgg
<1> QED  BY <1>1, <1>2, <1>3, Frame

LEMMA PartStep ==
  ASSUME ServerInv, [Next]_vars, NEW k \in Leaf, NEW i \in Job, NEW src \in part'[k][i].from
  PROVE  src.round = part'[k][i].round
<1>0. OnlyRoundsPushes /\ part \in [Leaf -> [Job -> Part]]
  BY DEF ServerInv, TypeOK
<1>1. CASE part'[k][i] = part[k][i]
  BY <1>0, <1>1 DEF OnlyRoundsPushes
<1>2. CASE part'[k][i] = NoPart
  BY <1>2 DEF NoPart
<1>3. ASSUME NEW r \in Round, NEW x \in Source, x.round = r,
             part'[k][i] = LeafUpdated(part[k][i], r, x)
      PROVE  src.round = part'[k][i].round
  <2>1. part[k][i] \in Part /\ \A s \in part[k][i].from : s.round = part[k][i].round
    BY <1>0 DEF OnlyRoundsPushes
  <2>2. /\ part'[k][i].round = r
        /\ part[k][i].round = r => part'[k][i].from = part[k][i].from \cup {x}
        /\ part[k][i].round # r => part'[k][i].from = {x}
    BY <1>3, <2>1, PartWith
  <2> QED  BY <1>3, <2>1, <2>2
<1> QED  BY <1>1, <1>2, <1>3, PartChange

LEMMA RoundsStep == ServerInv /\ [Next]_vars => OnlyRoundsPushes'
  BY AggStep, PartStep DEF OnlyRoundsPushes

-----------------------------------------------------------------------------
(* The theorems on what clients train on and aggregates hold.              *)

LEMMA InvInit == Init => ServerInv
<1> SUFFICES ASSUME Init PROVE ServerInv
  OBVIOUS
<1>1. ParamInv /\ FlushInv
  BY Constants DEF Init, ParamInv, FlushInv, WasPosted, NewState, NoParam, NoFlush, Idle
<1>2. OnlyPostedParams /\ OnlyRoundsPushes
  BY Constants DEF Init, OnlyPostedParams, OnlyRoundsPushes, NoAgg, NoPart, Idle
<1> QED  BY <1>1, <1>2, TypeInit DEF ServerInv

LEMMA InvStep == ServerInv /\ [Next]_vars => ServerInv'
  BY TypeStep, ParamStep, FlushStep, RoundsStep DEF ServerInv

(* The invariant from which the properties of the parameter servers follow *)
(* holds in every state that is reached.                                   *)
THEOREM ServerInvariant == Spec => []ServerInv
  BY InvInit, InvStep, PTL DEF Spec

(* The variables of the parameter servers, leaves and libraries have their *)
(* types.                                                                  *)
THEOREM ServerTypes == Spec => []TypeOK
<1>1. ServerInv => TypeOK
  BY DEF ServerInv
<1> QED  BY <1>1, ServerInvariant, PTL

(* Whatever the caches hold, however late the root's answer is and however *)
(* often ids are handed out again, a client trains only on parameters that *)
(* were posted under the job's id for the round the client was accepted    *)
(* for.                                                                    *)
THEOREM TrainsOnPostedParams == Spec => []OnlyPostedParams
<1>1. ServerInv => OnlyPostedParams
  BY DEF ServerInv
<1> QED  BY <1>1, ServerInvariant, PTL

(* The aggregate of a round, at the root and at every leaf, holds results  *)
(* of clients that trained on that round's parameters and no others.       *)
THEOREM AggregatesOfOneRound == Spec => []OnlyRoundsPushes
<1>1. ServerInv => OnlyRoundsPushes
  BY DEF ServerInv
<1> QED  BY <1>1, ServerInvariant, PTL

-----------------------------------------------------------------------------
(* Every push is accounted for.                                            *)

(* Values are counts, and the sum over the leaves is one of Sums.          *)
LeafCounts(j, r) == [l \in Leaf |-> AtLeaf(l, j, r)]
AtLeaves(j, r) == SumOf(LeafCounts(j, r), Leaf)
Accounted(j, r) == taken[j][r] = dropped[j][r] + AtRoot(j, r) + AtLeaves(j, r)

LEMMA Counts ==
  TypeOK => \A j \in Job, r \in Round :
              /\ taken[j][r] \in Nat /\ dropped[j][r] \in Nat /\ AtRoot(j, r) \in Nat
              /\ \A l \in Leaf : AtLeaf(l, j, r) \in Nat
<1> SUFFICES ASSUME TypeOK, NEW j \in Job, NEW r \in Round
             PROVE  /\ taken[j][r] \in Nat /\ dropped[j][r] \in Nat /\ AtRoot(j, r) \in Nat
                    /\ \A l \in Leaf : AtLeaf(l, j, r) \in Nat
  OBVIOUS
<1>1. taken[j][r] \in Nat /\ dropped[j][r] \in Nat
  BY DEF TypeOK
<1>2. AtRoot(j, r) \in Nat
  BY DEF TypeOK, Agg, AtRoot
<1>3. ASSUME NEW l \in Leaf PROVE AtLeaf(l, j, r) \in Nat
  <2>1. part[l][j].cnt \in Nat
    BY DEF TypeOK, Part
  <2> QED  BY <2>1 DEF AtLeaf
<1> QED  BY <1>1, <1>2, <1>3

LEMMA LeafSum ==
  TypeOK => \A j \in Job, r \in Round :
              /\ MapThenSumSet(LAMBDA l : AtLeaf(l, j, r), Leaf) = AtLeaves(j, r)
              /\ AtLeaves(j, r) \in Nat
<1> SUFFICES ASSUME TypeOK, NEW j \in Job, NEW r \in Round
             PROVE  /\ MapThenSumSet(LAMBDA l : AtLeaf(l, j, r), Leaf) = AtLeaves(j, r)
                    /\ AtLeaves(j, r) \in Nat
  OBVIOUS
<1> DEFINE f == LeafCounts(j, r)
           P(F) == F = [s \in SUBSET Leaf |->
                          IF s = {} THEN 0
                          ELSE AtLeaf(CHOOSE x \in s : TRUE, j, r)
                               + F[s \ {CHOOSE x \in s : TRUE}]]
<1>0. IsFiniteSet(Leaf) /\ \A l \in Leaf : f[l] \in Nat
  BY ServerAssumption, Counts DEF LeafCounts
<1>1. ASSUME NEW F PROVE Adds(F, f, Leaf) <=> P(F)
  <2>1. \A s \in SUBSET Leaf : s # {} => (CHOOSE x \in s : TRUE) \in Leaf
    OBVIOUS
  <2>2. \A s \in SUBSET Leaf : s # {} =>
          f[CHOOSE x \in s : TRUE] = AtLeaf(CHOOSE x \in s : TRUE, j, r)
    BY <2>1 DEF LeafCounts
  <2> HIDE DEF f
  <2>3. [s \in SUBSET Leaf |-> IF s = {} THEN 0
                               ELSE f[CHOOSE x \in s : TRUE] + F[s \ {CHOOSE x \in s : TRUE}]]
        = [s \in SUBSET Leaf |-> IF s = {} THEN 0
                                 ELSE AtLeaf(CHOOSE x \in s : TRUE, j, r)
                                      + F[s \ {CHOOSE x \in s : TRUE}]]
    BY <2>2
  <2> QED  BY <2>3 DEF Adds
<1>2. MapThenSumSet(LAMBDA l : AtLeaf(l, j, r), Leaf) = (CHOOSE F : P(F))[Leaf]
  BY Zenon DEF MapThenSumSet, MapThenFoldSet
<1>3. Adds(CHOOSE F : P(F), f, Leaf)
  <2>1. \E F : Adds(F, f, Leaf)
    BY <1>0, AddsExists
  <2>2. \E F : P(F)
    <3> HIDE DEF P
    <3> QED  BY <1>1, <2>1
  <2>3. P(CHOOSE F : P(F))
    <3> HIDE DEF P
    <3> QED  BY <2>2
  <2> HIDE DEF P
  <2> QED  BY <1>1, <2>3
<1>4. PICK F : Adds(F, f, Leaf) /\ SumOf(f, Leaf) = F[Leaf]
  BY <1>0, SumAdds
<1>5. (CHOOSE G : P(G))[Leaf] = F[Leaf]
  <2> DEFINE H == CHOOSE G : P(G)
  <2>1. Adds(H, f, Leaf)
    BY <1>3
  <2> HIDE DEF H
  <2>2. \A s \in SUBSET Leaf : F[s] = H[s]
    BY <1>0, <1>4, <2>1, AddsSame
  <2> QED  BY <2>2 DEF H
<1>6. SumOf(f, Leaf) \in Nat
  BY <1>0, SumType
<1> QED  BY <1>2, <1>4, <1>5, <1>6 DEF AtLeaves

AllCounts ==
  \A j \in Job, r \in Round :
    /\ taken[j][r] \in Nat /\ dropped[j][r] \in Nat /\ AtRoot(j, r) \in Nat
    /\ \A l \in Leaf : AtLeaf(l, j, r) \in Nat
    /\ AtLeaves(j, r) \in Nat

LEMMA CountsNow == TypeOK => AllCounts
  BY Counts, LeafSum DEF AllCounts

LEMMA CountsNext == TypeOK' => AllCounts'
  BY CountsNow, PTL

LEMMA AccountedIs == TypeOK => (PushesAccounted <=> \A j \in Job, r \in Round : Accounted(j, r))
  BY LeafSum DEF PushesAccounted, Accounted

(* What a discard adds, per job and round.                                 *)
LEMMA DropAt ==
  ASSUME TypeOK, NEW j \in Job, NEW e, e.round \in Round \cup {-1}, e.cnt \in Nat, Drop(j, e),
         NEW i \in Job, NEW r \in Round
  PROVE  dropped'[i][r] = dropped[i][r] + (IF i = j /\ r = e.round THEN e.cnt ELSE 0)
<1>0. dropped \in [Job -> [Round -> Nat]] /\ dropped[i][r] \in Nat /\ r # -1
  BY Constants DEF TypeOK
<1>1. CASE e.round = -1
  BY <1>0, <1>1 DEF Drop
<1>2. CASE e.round # -1
  <2>1. dropped' = [dropped EXCEPT ![j][e.round] = @ + e.cnt] /\ e.round \in Round
    BY <1>2 DEF Drop
  <2> QED  BY <1>0, <2>1
<1> QED  BY <1>1, <1>2

(* A step that moves counts at one leaf at most, and keeps the balance.    *)
LEMMA Balance ==
  ASSUME TypeOK, TypeOK', NEW i \in Job, NEW r \in Round, Accounted(i, r),
         NEW k \in Leaf, \A l \in Leaf : l # k => AtLeaf(l, i, r)' = AtLeaf(l, i, r),
         taken'[i][r] + dropped[i][r] + AtRoot(i, r) + AtLeaf(k, i, r)
           = taken[i][r] + dropped'[i][r] + AtRoot(i, r)' + AtLeaf(k, i, r)'
  PROVE  Accounted(i, r)'
<1> DEFINE f == LeafCounts(i, r)
           g == LeafCounts(i, r)'
<1>1. /\ taken[i][r] \in Nat /\ dropped[i][r] \in Nat /\ AtRoot(i, r) \in Nat
      /\ \A l \in Leaf : AtLeaf(l, i, r) \in Nat
      /\ AtLeaves(i, r) \in Nat
  BY CountsNow DEF AllCounts
<1>2. /\ taken'[i][r] \in Nat /\ dropped'[i][r] \in Nat /\ AtRoot(i, r)' \in Nat
      /\ \A l \in Leaf : AtLeaf(l, i, r)' \in Nat
      /\ AtLeaves(i, r)' \in Nat
  BY CountsNext DEF AllCounts
<1>3. \A l \in Leaf : f[l] = AtLeaf(l, i, r) /\ g[l] = AtLeaf(l, i, r)'
  BY DEF LeafCounts
<1>4. SumOf(g, Leaf) + f[k] = SumOf(f, Leaf) + g[k]
  <2> HIDE DEF f, g
  <2> QED  BY <1>1, <1>2, <1>3, ServerAssumption, SumChange
<1>5. AtLeaves(i, r)' + AtLeaf(k, i, r) = AtLeaves(i, r) + AtLeaf(k, i, r)'
  BY <1>3, <1>4 DEF AtLeaves
<1> QED  BY <1>1, <1>2, <1>5 DEF Accounted

LEMMA SameLeaves ==
  ASSUME TypeOK, TypeOK', NEW i \in Job, NEW r \in Round, Accounted(i, r),
         part' = part, \A l \in Leaf : AtLeaf(l, i, r)' = AtLeaf(l, i, r),
         taken'[i][r] + dropped[i][r] + AtRoot(i, r)
           = taken[i][r] + dropped'[i][r] + AtRoot(i, r)'
  PROVE  Accounted(i, r)'
<1>1. /\ taken[i][r] \in Nat /\ dropped[i][r] \in Nat /\ AtRoot(i, r) \in Nat
      /\ AtLeaves(i, r) \in Nat
  BY CountsNow DEF AllCounts
<1>2. taken'[i][r] \in Nat /\ dropped'[i][r] \in Nat /\ AtRoot(i, r)' \in Nat
  BY CountsNext DEF AllCounts
<1>3. LeafCounts(i, r)' = LeafCounts(i, r)
  BY DEF LeafCounts
<1>4. AtLeaves(i, r)' = AtLeaves(i, r)
  BY <1>3 DEF AtLeaves
<1> QED  BY <1>1, <1>2, <1>4 DEF Accounted

(* Steps that move no counts.                                              *)
LEMMA QuietSteps ==
  ASSUME TypeOK, TypeOK', NEW i \in Job, NEW r \in Round, Accounted(i, r),
         UNCHANGED <<taken, dropped, agg, part>>,
         flush' = flush \/ \E l \in Leaf, j \in Job : LeafFlush(l, j)
  PROVE  Accounted(i, r)'
<1>1. AtRoot(i, r)' = AtRoot(i, r)
  BY DEF AtRoot
<1>2. ASSUME NEW k \in Leaf PROVE AtLeaf(k, i, r)' = AtLeaf(k, i, r)
  <2>1. CASE flush' = flush
    BY <2>1 DEF AtLeaf
  <2>2. ASSUME NEW l \in Leaf, NEW j \in Job, LeafFlush(l, j)
        PROVE  AtLeaf(k, i, r)' = AtLeaf(k, i, r)
    <3>1. flush[l].pc = "idle" /\ flush'[l].pc = "sent" /\ (k # l => flush'[k] = flush[k])
      BY <2>2 DEF LeafFlush, TypeOK
    <3> QED  BY <3>1 DEF AtLeaf
  <2> QED  BY <2>1, <2>2
<1>3. taken[i][r] \in Nat /\ dropped[i][r] \in Nat /\ AtRoot(i, r) \in Nat
  BY CountsNow DEF AllCounts
<1> QED  BY <1>1, <1>2, <1>3, SameLeaves

(* The root's entry is replaced by one without pushes, or goes.            *)
LEMMA RootDiscards ==
  ASSUME TypeOK, TypeOK', NEW i \in Job, NEW r \in Round, Accounted(i, r),
         NEW j \in Job, RootPut(j) \/ JobDelete(j) \/ EvictAgg(j)
  PROVE  Accounted(i, r)'
<1>1. /\ UNCHANGED <<part, flush, taken>> /\ Drop(j, agg[j])
      /\ \E e : agg' = [agg EXCEPT ![j] = e] /\ e.cnt = 0
  BY DEF RootPut, JobDelete, EvictAgg, NoAgg
<1>2. agg[j] \in Agg /\ agg[j].round \in Round \cup {-1} /\ agg[j].cnt \in Nat
  BY DEF TypeOK, Agg
<1>3. dropped'[i][r] = dropped[i][r] + (IF i = j /\ r = agg[j].round THEN agg[j].cnt ELSE 0)
  BY <1>1, <1>2, DropAt
<1>4. agg \in [Job -> Agg]
  BY DEF TypeOK
<1>5. agg'[j].cnt = 0 /\ (i # j => agg'[i] = agg[i])
  BY <1>1, <1>4
<1>6. AtRoot(i, r)' = IF i = j THEN 0 ELSE AtRoot(i, r)
  BY <1>5 DEF AtRoot
<1>7. AtRoot(j, r) = IF r = agg[j].round THEN agg[j].cnt ELSE 0
  BY DEF AtRoot
<1>8. \A l \in Leaf : AtLeaf(l, i, r)' = AtLeaf(l, i, r)
  BY <1>1 DEF AtLeaf
<1>9. taken[i][r] \in Nat /\ dropped[i][r] \in Nat /\ AtRoot(i, r) \in Nat
  BY CountsNow DEF AllCounts
<1>10. taken'[i][r] + dropped[i][r] + AtRoot(i, r)
         = taken[i][r] + dropped'[i][r] + AtRoot(i, r)'
  BY <1>1, <1>2, <1>3, <1>6, <1>7, <1>9
<1> QED  BY <1>1, <1>8, <1>10, SameLeaves

(* A leaf takes a push, or refuses it.                                     *)
LEMMA LeafTakesOne ==
  ASSUME ServerInv, TypeOK', NEW i \in Job, NEW r \in Round, Accounted(i, r),
         NEW c \in Client, LeafPush(c)
  PROVE  Accounted(i, r)'
<1> USE Constants
<1> DEFINE s == client[c]
           l == LeafOf[c]
           e == part[l][s.job]
           src == [client |-> c, round |-> s.param.round, inc |-> s.param.inc]
           u == LeafUpdated(e, s.round, src)
<1>0. /\ TypeOK /\ part \in [Leaf -> [Job -> Part]] /\ taken \in [Job -> [Round -> Nat]]
      /\ OnlyPostedParams
  BY DEF ServerInv, TypeOK
<1>1. /\ s \in Busy /\ s.job \in Job /\ s.round \in Round /\ s.param \in Param
      /\ s.pc = "have" /\ l \in Leaf
  BY <1>0, BusyClient DEF LeafPush
<1>2. e \in Part /\ e.round \in Round \cup {-1} /\ e.cnt \in Nat /\ src \in Source
  <2>1. e \in Part /\ e.round \in Round \cup {-1} /\ e.cnt \in Nat
    BY <1>0, <1>1 DEF Part
  <2>2. s.param.round = s.round
    BY <1>0, <1>1 DEF OnlyPostedParams
  <2>3. src \in Source
    BY <1>1, <2>2 DEF Source, Param
  <2> QED  BY <2>1, <2>3
<1>3. agg' = agg /\ flush' = flush /\ flush[l].pc = "idle"
  BY DEF LeafPush, StoreFree
<1>4. AtRoot(i, r)' = AtRoot(i, r)
  BY <1>3 DEF AtRoot
<1>5. /\ taken[i][r] \in Nat /\ dropped[i][r] \in Nat /\ AtRoot(i, r) \in Nat
      /\ \A k \in Leaf : AtLeaf(k, i, r) \in Nat
  BY <1>0, CountsNow DEF AllCounts
<1>6. CASE ~ LeafTakes(e, s.round)
  <2>1. UNCHANGED <<taken, dropped, agg, part, flush>>
    BY <1>3, <1>6 DEF LeafPush
  <2> QED  BY <1>0, <2>1, QuietSteps
<1>7. CASE LeafTakes(e, s.round)
  <2>1. /\ taken' = [taken EXCEPT ![s.job][s.round] = @ + 1]
        /\ part' = [part EXCEPT ![l][s.job] = u]
        /\ IF e.round = s.round THEN dropped' = dropped ELSE Drop(s.job, e)
    BY <1>7 DEF LeafPush
  <2>2. taken'[i][r] = taken[i][r] + (IF i = s.job /\ r = s.round THEN 1 ELSE 0)
    <3> HIDE DEF s
    <3> QED  BY <1>0, <1>1, <1>5, <2>1
  <2>3. dropped'[i][r] = dropped[i][r]
                         + (IF i = s.job /\ e.round # s.round /\ r = e.round THEN e.cnt ELSE 0)
    <3>1. CASE e.round = s.round
      BY <1>5, <2>1, <3>1
    <3>2. CASE e.round # s.round
      <4> HIDE DEF e, s
      <4> QED  BY <1>0, <1>1, <1>2, <2>1, <3>2, DropAt
    <3> QED  BY <3>1, <3>2
  <2>4. part'[l][s.job] = u
        /\ \A k \in Leaf, j \in Job : k # l \/ j # s.job => part'[k][j] = part[k][j]
    <3> HIDE DEF u, s, l
    <3> QED  BY <1>0, <1>1, <2>1
  <2>5. u.round = s.round /\ u.cnt = IF e.round = s.round THEN e.cnt + 1 ELSE 1
    <3>1. e \in Part /\ s.round \in Round /\ src \in Source
      BY <1>1, <1>2
    <3> DEFINE q == s.round
    <3> HIDE DEF e, s, src, q
    <3>2. q \in Round
      BY <3>1 DEF q
    <3>3. /\ LeafUpdated(e, q, src).round = q
          /\ e.round = q => LeafUpdated(e, q, src).cnt = e.cnt + 1
          /\ e.round # q => LeafUpdated(e, q, src).cnt = 1
      BY <3>1, <3>2, PartWith
    <3> QED  BY <3>3 DEF q
  <2>6. \A k \in Leaf : k # l => AtLeaf(k, i, r)' = AtLeaf(k, i, r)
    <3> HIDE DEF l, s, u
    <3> QED  BY <1>3, <2>4 DEF AtLeaf
  <2>7. i # s.job => AtLeaf(l, i, r)' = AtLeaf(l, i, r)
    <3> HIDE DEF l, s, u
    <3> QED  BY <1>1, <1>3, <2>4 DEF AtLeaf
  <2>8. i = s.job => AtLeaf(l, i, r) = IF e.round = r THEN e.cnt ELSE 0
    BY <1>3 DEF AtLeaf
  <2>9. i = s.job => AtLeaf(l, i, r)' = IF s.round = r THEN u.cnt ELSE 0
    <3> HIDE DEF l, s, u
    <3> QED  BY <1>1, <1>3, <2>4, <2>5 DEF AtLeaf
  <2>10. taken'[i][r] + dropped[i][r] + AtRoot(i, r) + AtLeaf(l, i, r)
           = taken[i][r] + dropped'[i][r] + AtRoot(i, r)' + AtLeaf(l, i, r)'
    <3> HIDE DEF l, s, u, e
    <3>1. CASE i # s.job
      BY <1>4, <1>5, <2>2, <2>3, <2>7, <3>1
    <3>2. CASE i = s.job
      BY <1>2, <1>4, <1>5, <2>2, <2>3, <2>5, <2>8, <2>9, <3>2
    <3> QED  BY <3>1, <3>2
  <2> HIDE DEF l, s, u, e
  <2> QED  BY <1>0, <1>1, <2>6, <2>10, Balance
<1> QED  BY <1>6, <1>7

(* What a leaf sent to the root is added there or discarded, and then it   *)
(* leaves the leaf, or it is discarded with the call.                      *)
LEMMA LeafGives ==
  ASSUME ServerInv, TypeOK', NEW i \in Job, NEW r \in Round, Accounted(i, r),
         NEW l \in Leaf, RootPush(l) \/ FlushFail(l) \/ FlushDone(l)
  PROVE  Accounted(i, r)'
<1> USE Constants
<1> DEFINE j == flush[l].job
           m == flush[l].msg
<1>0. /\ TypeOK /\ FlushInv /\ part \in [Leaf -> [Job -> Part]] /\ agg \in [Job -> Agg]
      /\ flush \in [Leaf -> Flush \cup {NoFlush}]
  BY DEF ServerInv, TypeOK
<1>1. /\ flush[l] \in Flush /\ j \in Job /\ m = part[l][j] /\ m \in Part
      /\ m.round \in Round /\ m.cnt \in Nat /\ m.from \subseteq Source
  BY <1>0, BusyFlush DEF RootPush, FlushFail, FlushDone
<1>2. /\ taken[i][r] \in Nat /\ dropped[i][r] \in Nat /\ AtRoot(i, r) \in Nat
      /\ \A k \in Leaf : AtLeaf(k, i, r) \in Nat
  BY <1>0, CountsNow DEF AllCounts
<1>3. taken' = taken
  BY DEF RootPush, FlushFail, FlushDone
<1>4. \A k \in Leaf : k # l => part'[k] = part[k] /\ flush'[k] = flush[k]
  BY <1>0, <1>1 DEF RootPush, FlushFail, FlushDone, Cleared
<1>5. \A k \in Leaf : k # l => AtLeaf(k, i, r)' = AtLeaf(k, i, r)
  BY <1>4 DEF AtLeaf
<1>6. CASE RootPush(l)
  <2>1. flush[l].pc = "sent" /\ part' = part /\ flush'[l].pc = "done" /\ flush'[l].job = j
    BY <1>0, <1>1, <1>6 DEF RootPush, Flush
  <2>2. /\ i # j => AtLeaf(l, i, r)' = AtLeaf(l, i, r)
        /\ i = j => AtLeaf(l, i, r)' = 0
        /\ i = j => AtLeaf(l, i, r) = IF m.round = r THEN m.cnt ELSE 0
    BY <1>1, <2>1 DEF AtLeaf
  <2>3. CASE RootTakes(agg[j], m)
    <3>1. dropped' = dropped /\ agg' = [agg EXCEPT ![j] = RootUpdated(agg[j], m)]
      BY <1>6, <2>3 DEF RootPush
    <3>2. agg[j] \in Agg /\ agg[j].round = m.round /\ agg[j].cnt \in Nat
      BY <1>0, <1>1, <2>3 DEF RootTakes, Agg
    <3>3. /\ RootUpdated(agg[j], m).round = m.round
          /\ RootUpdated(agg[j], m).cnt = agg[j].cnt + m.cnt
      <4> HIDE DEF m, j
      <4> QED  BY <1>1, <3>2, AggWith
    <3>4. /\ i # j => agg'[i] = agg[i]
          /\ agg'[j].round = m.round /\ agg'[j].cnt = agg[j].cnt + m.cnt
      <4> HIDE DEF m, j
      <4> QED  BY <1>0, <1>1, <3>1, <3>3
    <3>5. AtRoot(i, r)' = AtRoot(i, r) + (IF i = j /\ r = m.round THEN m.cnt ELSE 0)
      <4> HIDE DEF m, j
      <4> QED  BY <1>1, <1>2, <3>2, <3>4 DEF AtRoot
    <3> HIDE DEF m, j
    <3>6. taken'[i][r] + dropped[i][r] + AtRoot(i, r) + AtLeaf(l, i, r)
            = taken[i][r] + dropped'[i][r] + AtRoot(i, r)' + AtLeaf(l, i, r)'
      BY <1>1, <1>2, <1>3, <2>2, <3>1, <3>5
    <3> QED  BY <1>0, <1>5, <3>6, Balance
  <2>4. CASE ~ RootTakes(agg[j], m)
    <3>1. agg' = agg /\ Drop(j, m)
      BY <1>6, <2>4 DEF RootPush
    <3> HIDE DEF m, j
    <3>2. dropped'[i][r] = dropped[i][r] + (IF i = j /\ r = m.round THEN m.cnt ELSE 0)
      BY <1>0, <1>1, <3>1, DropAt
    <3>3. AtRoot(i, r)' = AtRoot(i, r)
      BY <3>1 DEF AtRoot
    <3>4. taken'[i][r] + dropped[i][r] + AtRoot(i, r) + AtLeaf(l, i, r)
            = taken[i][r] + dropped'[i][r] + AtRoot(i, r)' + AtLeaf(l, i, r)'
      BY <1>1, <1>2, <1>3, <2>2, <3>2, <3>3
    <3> QED  BY <1>0, <1>5, <3>4, Balance
  <2> QED  BY <2>3, <2>4
<1>7. CASE FlushFail(l) \/ FlushDone(l)
  <2>1. /\ part' = [part EXCEPT ![l][j] = NoPart] /\ flush' = [flush EXCEPT ![l] = NoFlush]
        /\ agg' = agg
    BY <1>7 DEF FlushFail, FlushDone, Cleared
  <2>2. /\ part'[l][j] = NoPart /\ flush'[l].pc = "idle"
        /\ i # j => part'[l][i] = part[l][i]
    <3> HIDE DEF j
    <3> QED  BY <1>0, <1>1, <2>1
  <2>3. AtRoot(i, r)' = AtRoot(i, r)
    BY <2>1 DEF AtRoot
  <2>4. /\ i # j => AtLeaf(l, i, r)' = AtLeaf(l, i, r)
        /\ i = j => AtLeaf(l, i, r)' = 0
    <3>1. NoPart.round = -1 /\ r # -1
      BY DEF NoPart
    <3> HIDE DEF j
    <3>2. i = j => AtLeaf(l, i, r)' = 0
      BY <2>2, <3>1 DEF AtLeaf
    <3>3. i # j => AtLeaf(l, i, r)' = AtLeaf(l, i, r)
      BY <2>2 DEF AtLeaf, j
    <3> QED  BY <3>2, <3>3
  <2>5. CASE FlushFail(l)
    <3>1. flush[l].pc = "sent" /\ Drop(j, m)
      BY <2>5 DEF FlushFail
    <3>2. i = j => AtLeaf(l, i, r) = IF m.round = r THEN m.cnt ELSE 0
      BY <1>1, <3>1 DEF AtLeaf
    <3> HIDE DEF m, j
    <3>3. dropped'[i][r] = dropped[i][r] + (IF i = j /\ r = m.round THEN m.cnt ELSE 0)
      BY <1>0, <1>1, <3>1, DropAt
    <3>4. taken'[i][r] + dropped[i][r] + AtRoot(i, r) + AtLeaf(l, i, r)
            = taken[i][r] + dropped'[i][r] + AtRoot(i, r)' + AtLeaf(l, i, r)'
      BY <1>1, <1>2, <1>3, <2>3, <2>4, <3>2, <3>3
    <3> QED  BY <1>0, <1>5, <3>4, Balance
  <2>6. CASE FlushDone(l)
    <3>1. flush[l].pc = "done" /\ dropped' = dropped
      BY <2>6 DEF FlushDone
    <3>2. i = j => AtLeaf(l, i, r) = 0
      BY <3>1 DEF AtLeaf
    <3> HIDE DEF m, j
    <3>3. taken'[i][r] + dropped[i][r] + AtRoot(i, r) + AtLeaf(l, i, r)
            = taken[i][r] + dropped'[i][r] + AtRoot(i, r)' + AtLeaf(l, i, r)'
      BY <1>2, <1>3, <2>3, <2>4, <3>1, <3>2
    <3> QED  BY <1>0, <1>5, <3>3, Balance
  <2> QED  BY <1>7, <2>5, <2>6
<1> QED  BY <1>6, <1>7

LEMMA AccountedStep ==
  ASSUME ServerInv, TypeOK', [Next]_vars, NEW i \in Job, NEW r \in Round, Accounted(i, r)
  PROVE  Accounted(i, r)'
<1>0. TypeOK
  BY DEF ServerInv
<1>1. CASE UNCHANGED vars
  BY <1>0, <1>1, QuietSteps DEF vars
<1>2. ASSUME NEW j \in Job, JobCall(j) \/ EvictBoard(j) PROVE Accounted(i, r)'
  <2>1. UNCHANGED <<taken, dropped, agg, part, flush>>
    BY <1>2 DEF JobCall, NewJob, JobPutLost, JobGetDone, JobGetError, StartRound, EvictBoard
  <2> QED  BY <1>0, <2>1, QuietSteps
<1>3. ASSUME NEW c \in Client,
             \/ \E j \in Job : Accepted(c, j)
             \/ LeafGet(c) \/ RootGet(c) \/ RootGetFail(c) \/ LeafReply(c) \/ ClientDrop(c)
      PROVE  Accounted(i, r)'
  <2>1. UNCHANGED <<taken, dropped, agg, part, flush>>
    BY <1>3 DEF Accepted, LeafGet, RootGet, RootGetFail, LeafReply, ClientDrop
  <2> QED  BY <1>0, <2>1, QuietSteps
<1>4. ASSUME NEW l \in Leaf, NEW j \in Job, LeafFlush(l, j) \/ EvictCache(l, j)
      PROVE  Accounted(i, r)'
  <2>1. UNCHANGED <<taken, dropped, agg, part>> /\ (flush' = flush \/ LeafFlush(l, j))
    BY <1>4 DEF LeafFlush, EvictCache
  <2> QED  BY <1>0, <2>1, QuietSteps
<1>5. CASE \E j \in Job : \/ NewJob(j) \/ RootPut(j) \/ JobPutLost(j) \/ JobGetDone(j)
                          \/ JobGetError(j) \/ JobDelete(j) \/ EvictBoard(j) \/ EvictAgg(j)
                          \/ \E q \in Round, d \in Demand : StartRound(j, q, d)
  BY <1>0, <1>2, <1>5, RootDiscards DEF JobCall
<1>6. CASE \E c \in Client : \/ \E j \in Job : Accepted(c, j)
                             \/ LeafGet(c) \/ RootGet(c) \/ RootGetFail(c) \/ LeafReply(c)
                             \/ ClientDrop(c) \/ LeafPush(c)
  BY <1>3, <1>6, LeafTakesOne
<1>7. CASE \E l \in Leaf : \/ \E j \in Job : LeafFlush(l, j) \/ EvictCache(l, j)
                           \/ RootPush(l) \/ FlushFail(l) \/ FlushDone(l)
  BY <1>4, <1>7, LeafGives
<1> QED  BY <1>1, <1>5, <1>6, <1>7 DEF Next

LEMMA AccountedInit == Init => PushesAccounted
<1> SUFFICES ASSUME Init, NEW j \in Job, NEW r \in Round PROVE Accounted(j, r)
  BY TypeInit, AccountedIs
<1>1. \A l \in Leaf : AtLeaf(l, j, r) = 0
  BY Constants DEF Init, AtLeaf, NoPart
<1>2. AtRoot(j, r) = 0 /\ taken[j][r] = 0 /\ dropped[j][r] = 0
  BY DEF Init, AtRoot, NoAgg
<1>3. AtLeaves(j, r) = 0
  BY <1>1, ServerAssumption, SumZero DEF AtLeaves, LeafCounts
<1> QED  BY <1>2, <1>3 DEF Accounted

(* Every push a leaf took is counted once: in the root's aggregate, in an  *)
(* entry of a leaf, or among those that were discarded, whatever the order *)
(* of pushes, expiry, failed calls, new rounds and restarts.               *)
THEOREM NoPushLost == Spec => []PushesAccounted
<1>1. PushesAccounted /\ ServerInv /\ ServerInv' /\ [Next]_vars => PushesAccounted'
  <2> SUFFICES ASSUME PushesAccounted, ServerInv, ServerInv', [Next]_vars
               PROVE  PushesAccounted'
    OBVIOUS
  <2>1. TypeOK /\ TypeOK'
    BY DEF ServerInv
  <2>2. \A i \in Job, r \in Round : Accounted(i, r)
    BY <2>1, AccountedIs
  <2>3. \A i \in Job, r \in Round : Accounted(i, r)'
    BY <2>1, <2>2, AccountedStep
  <2>4. (TypeOK => (PushesAccounted <=> \A j \in Job, r \in Round : Accounted(j, r)))'
    BY AccountedIs, PTL
  <2> QED  BY <2>1, <2>3, <2>4
<1> QED  BY <1>1, AccountedInit, ServerInvariant, PTL DEF Spec

================================================================================
