--------------------------- MODULE ParameterServer ---------------------------
(***************************************************************************)
(* The parameter servers of Propius.  A job posts the parameters of a      *)
(* round at the root and asks it for the aggregate of the round; clients   *)
(* talk to a leaf, which caches parameters and collects pushes, and        *)
(* forwards what it collected when the entry expires.                      *)
(*                                                                         *)
(* Atomicity.  Every server is one event loop.  The locks of the stores    *)
(* are asyncio locks; taking a free one does not suspend, and only the     *)
(* leaf's eviction routine awaits (the RPC to the root) while it holds     *)
(* one.  So every handler of the root is one step; a leaf's CLIENT_GET is  *)
(* cut at its call to the root; a leaf's CLIENT_PUSH is one step that      *)
(* waits while the eviction routine holds the lock.                        *)
(*                                                                         *)
(* Time to live is abstracted to expiry at any time.  Parameters are told  *)
(* apart by the round and the job they were posted for: inc counts the     *)
(* jobs that had the same id, which a restarted job manager hands out      *)
(* again.                                                                  *)
(***************************************************************************)
EXTENDS Integers, FiniteSets, FiniteSetsExt

CONSTANTS
  Client, Leaf, Job,
  LeafOf,     \* the leaf a client is configured with
  MaxRound,   \* bound: rounds of a job
  Demand,     \* demands of a round
  MaxInc,     \* bound: jobs that get an id that was used before
  MaxPush,    \* bound: pushes taken per job and round
  MaxLoss,    \* bound: failed pushes to the root and expired aggregates
  Trials      \* how often the libraries try a call

ASSUME ServerAssumption ==
  /\ LeafOf \in [Client -> Leaf] /\ IsFiniteSet(Leaf)
  /\ MaxRound \in Nat \ {0} /\ Demand \subseteq Nat \ {0}
  /\ MaxInc \in Nat /\ MaxPush \in Nat /\ MaxLoss \in Nat /\ Trials \in Nat \ {0}

Round == 0 .. (MaxRound - 1)
Inc   == 0 .. MaxInc

VARIABLES
  job,      \* job id -> the job that has it: its round and what it is doing
  board,    \* root: parameter store
  agg,      \* root: aggregation store
  cache,    \* leaf -> job -> parameter store
  part,     \* leaf -> job -> aggregation store
  flush,    \* leaf -> the push to the root that holds the lock of part
  client,   \* client -> the handler or the task it is in
  posted,   \* history: <<job, round, inc>> of every JOB_PUT processed
  taken,    \* history: clients' pushes a leaf took, per job and round
  dropped,  \* history: of these, those that were discarded
  losses    \* number of discards by a failed push or an expired aggregate

vars == <<job, board, agg, cache, part, flush, client, posted, taken, dropped, losses>>

-----------------------------------------------------------------------------
(* State.  Round -1 stands for a store without an entry.                   *)

Param   == [round : Round \cup {-1}, inc : Inc]
NoParam == [round |-> -1, inc |-> 0]

(* What a push came from: a client that trained on the given parameters.   *)
Source == [client : Client, round : Round, inc : Inc]

Agg   == [round : Round \cup {-1}, demand : Nat, cnt : Nat, from : SUBSET Source]
NoAgg == [round |-> -1, demand |-> 0, cnt |-> 0, from |-> {}]

Part   == [round : Round \cup {-1}, cnt : Nat, from : SUBSET Source]
NoPart == [round |-> -1, cnt |-> 0, from |-> {}]

(* A job: "ready" for a round, "putting" its parameters, "waiting" for the *)
(* aggregate, or "gone".                                                   *)
JobState == [pc : {"ready", "putting", "waiting", "gone"}, inc : Inc,
             round : Round \cup {-1}, demand : Nat, trial : 0 .. Trials]
NewState(inc) == [pc |-> "ready", inc |-> inc, round |-> -1, demand |-> 0, trial |-> 0]

Flush   == [pc : {"idle", "sent", "done"}, job : Job, msg : Part]
NoFlush == [pc |-> "idle", msg |-> NoPart]

(* A client: without a task, told the round it was accepted for, its       *)
(* CLIENT_GET waiting for the root or for the root's answer, or with       *)
(* parameters to train on and push.  code 1: parameters, 2: the root has   *)
(* an older round, 3: no entry.                                            *)
Idle == [pc |-> "idle"]
Busy == [pc : {"told", "fetch", "reply", "have"}, job : Job, round : Round, inc : Inc,
         code : 0 .. 3, param : Param, trial : 0 .. Trials]
Told(j) == [pc |-> "told", job |-> j, round |-> job[j].round, inc |-> job[j].inc,
            code |-> 0, param |-> NoParam, trial |-> 0]

TypeOK ==
  /\ job \in [Job -> JobState]
  /\ board \in [Job -> Param] /\ agg \in [Job -> Agg]
  /\ cache \in [Leaf -> [Job -> Param]] /\ part \in [Leaf -> [Job -> Part]]
  /\ flush \in [Leaf -> Flush \cup {NoFlush}]
  /\ client \in [Client -> Busy \cup {Idle}]
  /\ posted \subseteq Job \X Round \X Inc
  /\ taken \in [Job -> [Round -> Nat]] /\ dropped \in [Job -> [Round -> Nat]]
  /\ losses \in Nat

Init ==
  /\ job = [j \in Job |-> NewState(0)]
  /\ board = [j \in Job |-> NoParam] /\ agg = [j \in Job |-> NoAgg]
  /\ cache = [l \in Leaf |-> [j \in Job |-> NoParam]]
  /\ part = [l \in Leaf |-> [j \in Job |-> NoPart]]
  /\ flush = [l \in Leaf |-> NoFlush]
  /\ client = [c \in Client |-> Idle]
  /\ posted = {}
  /\ taken = [j \in Job |-> [r \in Round |-> 0]]
  /\ dropped = [j \in Job |-> [r \in Round |-> 0]]
  /\ losses = 0

-----------------------------------------------------------------------------
(* The job library.                                                        *)

(* History: entry e of an aggregation store of job j is discarded.         *)
Drop(j, e) ==
  dropped' = IF e.round = -1 THEN dropped
             ELSE [dropped EXCEPT ![j][e.round] = @ + e.cnt]

(* The job manager hands out the id j again after a restart.  The job that *)
(* had it is taken to stop; the parameter servers are told nothing.        *)
NewJob(j) ==
  /\ job[j].inc < MaxInc
  /\ job' = [job EXCEPT ![j] = NewState(@.inc + 1)]
  /\ UNCHANGED <<board, agg, cache, part, flush, client, posted, taken, dropped, losses>>

(* request(): the controller opened round r, which may skip some, and the  *)
(* parameters are to be put.  A job may give up a round it waits for.      *)
StartRound(j, r, d) ==
  /\ job[j].pc \in {"ready", "waiting"} /\ r > job[j].round
  /\ job' = [job EXCEPT ![j] = [@ EXCEPT !.pc = "putting", !.round = r, !.demand = d,
                                         !.trial = 0]]
  /\ UNCHANGED <<board, agg, cache, part, flush, client, posted, taken, dropped, losses>>

(* Mutant: put() is tried again without end. *)
PutFailedForever(s) == [s EXCEPT !.trial = @ + 1]

(* A call of job j failed: it is tried again, or an exception ends it.     *)
PutFailed(s) == IF s.trial + 1 < Trials THEN [s EXCEPT !.trial = @ + 1]
                ELSE [s EXCEPT !.pc = "ready"]

(* The root handles JOB_PUT: it clears both entries of the job and sets    *)
(* new ones.  The answer arrives, or is lost and the put is tried again,   *)
(* which discards what the first one has collected.                        *)
RootPut(j) ==
  LET s == job[j] IN
  /\ s.pc = "putting"
  /\ losses' = losses + (IF agg[j].round = s.round /\ agg[j].cnt > 0 THEN 1 ELSE 0)
  /\ losses' <= MaxLoss
  /\ board' = [board EXCEPT ![j] = [round |-> s.round, inc |-> s.inc]]
  /\ agg' = [agg EXCEPT ![j] = [round |-> s.round, demand |-> s.demand, cnt |-> 0,
                                from |-> {}]]
  /\ Drop(j, agg[j])
  /\ posted' = posted \cup {<<j, s.round, s.inc>>}
  /\ \/ job' = [job EXCEPT ![j].pc = "waiting"]
     \/ job' = [job EXCEPT ![j] = PutFailed(@)]
  /\ UNCHANGED <<cache, part, flush, client, taken>>

JobPutLost(j) ==
  /\ job[j].pc = "putting"
  /\ job' = [job EXCEPT ![j] = PutFailed(@)]
  /\ UNCHANGED <<board, agg, cache, part, flush, client, posted, taken, dropped, losses>>

(* reduce() polls JOB_GET; code 6, not enough pushes yet, changes nothing. *)
JobGetDone(j) ==
  /\ job[j].pc = "waiting" /\ agg[j].round = job[j].round
  /\ agg[j].demand <= agg[j].cnt
  /\ job' = [job EXCEPT ![j].pc = "ready"]
  /\ UNCHANGED <<board, agg, cache, part, flush, client, posted, taken, dropped, losses>>

(* JOB_GET finds no entry of the round (code 3): reduce() raises.          *)
JobGetError(j) ==
  /\ job[j].pc = "waiting" /\ agg[j].round # job[j].round
  /\ job' = [job EXCEPT ![j].pc = "ready"]
  /\ UNCHANGED <<board, agg, cache, part, flush, client, posted, taken, dropped, losses>>

JobDelete(j) ==
  /\ job[j].pc \in {"ready", "waiting"}
  /\ job' = [job EXCEPT ![j].pc = "gone"]
  /\ board' = [board EXCEPT ![j] = NoParam] /\ agg' = [agg EXCEPT ![j] = NoAgg]
  /\ Drop(j, agg[j])
  /\ UNCHANGED <<cache, part, flush, client, posted, taken, losses>>

-----------------------------------------------------------------------------
(* Fetching parameters.                                                    *)

(* The controller accepts a client for the open round of j: the round is   *)
(* open from start_request on, before the job has put its parameters.      *)
Accepted(c, j) ==
  /\ client[c] = Idle
  /\ job[j].pc \in {"putting", "waiting"}
  /\ client' = [client EXCEPT ![c] = Told(j)]
  /\ UNCHANGED <<job, board, agg, cache, part, flush, posted, taken, dropped, losses>>

Have(s, p) == [s EXCEPT !.pc = "have", !.code = 1, !.param = p]

(* The leaf's CLIENT_GET: a hit is answered from the cache, an older round *)
(* than the cached one with an error, and anything else asks the root.     *)
LeafGet(c) ==
  LET s == client[c]  e == cache[LeafOf[c]][s.job] IN
  /\ s.pc = "told"
  /\ client' = [client EXCEPT ![c] = CASE e.round = s.round -> Have(s, e)
                                       [] e.round > s.round -> Idle
                                       [] OTHER -> [s EXCEPT !.pc = "fetch"]]
  /\ UNCHANGED <<job, board, agg, cache, part, flush, posted, taken, dropped, losses>>

(* Mutant: CLIENT_GET of the root answers with newer parameters too. *)
RootAnswerNewer(e, r) ==
  IF e.round >= r THEN [code |-> 1, param |-> e] ELSE [code |-> 2, param |-> NoParam]

(* The root's CLIENT_GET: parameters of that round, stale, or no entry.    *)
RootAnswer(e, r) ==
  CASE e.round = r                   -> [code |-> 1, param |-> e]
    [] e.round # -1 /\ e.round < r   -> [code |-> 2, param |-> NoParam]
    [] OTHER                         -> [code |-> 3, param |-> NoParam]

RootGet(c) ==
  LET s == client[c]  a == RootAnswer(board[s.job], s.round) IN
  /\ s.pc = "fetch"
  /\ client' = [client EXCEPT ![c] = [@ EXCEPT !.pc = "reply", !.code = a.code,
                                                !.param = a.param]]
  /\ UNCHANGED <<job, board, agg, cache, part, flush, posted, taken, dropped, losses>>

(* The call to the root fails: the leaf answers code 3.                    *)
RootGetFail(c) ==
  /\ client[c].pc = "fetch"
  /\ client' = [client EXCEPT ![c] = [@ EXCEPT !.pc = "reply", !.code = 3]]
  /\ UNCHANGED <<job, board, agg, cache, part, flush, posted, taken, dropped, losses>>

(* The leaf resumes with the root's answer.  New parameters replace the    *)
(* cached entry, whatever it has become meanwhile.                         *)
LeafReply(c) ==
  LET s == client[c]  l == LeafOf[c] IN
  /\ s.pc = "reply"
  /\ IF s.code = 1
     THEN /\ cache' = [cache EXCEPT ![l][s.job] = [s.param EXCEPT !.round = s.round]]
          /\ client' = [client EXCEPT ![c] = Have(s, s.param)]
     ELSE /\ cache' = cache
          /\ client' = [client EXCEPT ![c] = Idle]
  /\ UNCHANGED <<job, board, agg, part, flush, posted, taken, dropped, losses>>

(* A client goes away; a handler of the leaf that serves it is cancelled.  *)
ClientDrop(c) ==
  /\ client[c] # Idle
  /\ client' = [client EXCEPT ![c] = Idle]
  /\ UNCHANGED <<job, board, agg, cache, part, flush, posted, taken, dropped, losses>>

-----------------------------------------------------------------------------
(* Pushing results.                                                        *)

(* Mutant: update() of the leaf's store does not take the lock. *)
StoreFreeAlways(l) == TRUE

StoreFree(l) == flush[l].pc = "idle"

(* The leaf's store takes a push: it adds to the entry of that round,      *)
(* replaces an older entry, and refuses a push for an older round.         *)
LeafTakes(e, r) == e.round <= r
LeafUpdated(e, r, src) ==
  IF e.round = r THEN [e EXCEPT !.cnt = @ + 1, !.from = @ \cup {src}]
  ELSE [round |-> r, cnt |-> 1, from |-> {src}]

(* The leaf's CLIENT_PUSH, which waits for the lock of the store.  The     *)
(* client hears the answer, or does not and pushes again while it has      *)
(* trials left.                                                            *)
LeafPush(c) ==
  LET s == client[c]  l == LeafOf[c]  e == part[l][s.job]
      src == [client |-> c, round |-> s.param.round, inc |-> s.param.inc]
  IN
  /\ s.pc = "have" /\ StoreFree(l)
  /\ IF LeafTakes(e, s.round)
     THEN /\ taken[s.job][s.round] < MaxPush
          /\ taken' = [taken EXCEPT ![s.job][s.round] = @ + 1]
          /\ part' = [part EXCEPT ![l][s.job] = LeafUpdated(e, s.round, src)]
          /\ IF e.round = s.round THEN dropped' = dropped ELSE Drop(s.job, e)
     ELSE UNCHANGED <<taken, part, dropped>>
  /\ \/ client' = [client EXCEPT ![c] = Idle]
     \/ /\ s.trial + 1 < Trials
        /\ client' = [client EXCEPT ![c].trial = @ + 1]
  /\ UNCHANGED <<job, board, agg, cache, flush, posted, losses>>

(* The eviction routine of leaf l takes the lock and pushes the expired    *)
(* entry of job j to the root.                                             *)
LeafFlush(l, j) ==
  /\ flush[l].pc = "idle" /\ part[l][j].round # -1
  /\ flush' = [flush EXCEPT ![l] = [pc |-> "sent", job |-> j, msg |-> part[l][j]]]
  /\ UNCHANGED <<job, board, agg, cache, part, client, posted, taken, dropped, losses>>

(* Mutants of update() of the root's store: it does not compare rounds, or *)
(* counts pushes instead of adding agg_cnt.                                *)
RootTakesAny(e, m) == e.round # -1
RootUpdatedByOne(e, m) == [e EXCEPT !.cnt = @ + 1, !.from = @ \cup m.from]

(* The root's store adds the count of a push to its entry of that round.   *)
RootTakes(e, m) == e.round = m.round
RootUpdated(e, m) == [e EXCEPT !.cnt = @ + m.cnt, !.from = @ \cup m.from]

(* The root handles the push; the leaf does not look at the code.          *)
RootPush(l) ==
  LET j == flush[l].job  m == flush[l].msg IN
  /\ flush[l].pc = "sent"
  /\ IF RootTakes(agg[j], m)
     THEN agg' = [agg EXCEPT ![j] = RootUpdated(@, m)] /\ dropped' = dropped
     ELSE agg' = agg /\ Drop(j, m)
  /\ flush' = [flush EXCEPT ![l].pc = "done"]
  /\ UNCHANGED <<job, board, cache, part, client, posted, taken, losses>>

(* Mutant: the expired entry is emptied but stays in the leaf's store. *)
ClearedNotPopped(l) ==
  /\ part' = [part EXCEPT ![l][flush[l].job] = [@ EXCEPT !.cnt = 0, !.from = {}]]
  /\ flush' = [flush EXCEPT ![l] = NoFlush]

(* The entry is cleared and the lock released, whatever the call returned. *)
Cleared(l) ==
  /\ part' = [part EXCEPT ![l][flush[l].job] = NoPart]
  /\ flush' = [flush EXCEPT ![l] = NoFlush]

FlushFail(l) ==
  /\ flush[l].pc = "sent" /\ losses < MaxLoss
  /\ losses' = losses + 1
  /\ Cleared(l)
  /\ Drop(flush[l].job, flush[l].msg)
  /\ UNCHANGED <<job, board, agg, cache, client, posted, taken>>

FlushDone(l) ==
  /\ flush[l].pc = "done"
  /\ Cleared(l)
  /\ UNCHANGED <<job, board, agg, cache, client, posted, taken, dropped, losses>>

-----------------------------------------------------------------------------
(* Expiry of the other stores.                                             *)

EvictBoard(j) ==
  /\ board[j] # NoParam
  /\ board' = [board EXCEPT ![j] = NoParam]
  /\ UNCHANGED <<job, agg, cache, part, flush, client, posted, taken, dropped, losses>>

EvictAgg(j) ==
  /\ agg[j] # NoAgg /\ losses < MaxLoss
  /\ agg' = [agg EXCEPT ![j] = NoAgg]
  /\ Drop(j, agg[j])
  /\ losses' = losses + 1
  /\ UNCHANGED <<job, board, cache, part, flush, client, posted, taken>>

EvictCache(l, j) ==
  /\ cache[l][j] # NoParam
  /\ cache' = [cache EXCEPT ![l][j] = NoParam]
  /\ UNCHANGED <<job, board, agg, part, flush, client, posted, taken, dropped, losses>>

-----------------------------------------------------------------------------
Next ==
  \/ \E j \in Job : \/ NewJob(j) \/ RootPut(j) \/ JobPutLost(j) \/ JobGetDone(j)
                    \/ JobGetError(j) \/ JobDelete(j) \/ EvictBoard(j) \/ EvictAgg(j)
                    \/ \E r \in Round, d \in Demand : StartRound(j, r, d)
  \/ \E c \in Client : \/ \E j \in Job : Accepted(c, j)
                       \/ LeafGet(c) \/ RootGet(c) \/ RootGetFail(c) \/ LeafReply(c)
                       \/ ClientDrop(c) \/ LeafPush(c)
  \/ \E l \in Leaf : \/ \E j \in Job : LeafFlush(l, j) \/ EvictCache(l, j)
                     \/ RootPush(l) \/ FlushFail(l) \/ FlushDone(l)

Spec == Init /\ [][Next]_vars

(* The eviction routine visits every entry of its store over and over and  *)
(* each time to live runs out; the call to the root comes back, with an    *)
(* answer or an error.  Nothing is assumed of jobs and clients.            *)
Fairness ==
  \A l \in Leaf : /\ \A j \in Job : SF_vars(LeafFlush(l, j))
                  /\ WF_vars(RootPush(l) \/ FlushFail(l))
                  /\ WF_vars(FlushDone(l))

FairSpec == Spec /\ Fairness

-----------------------------------------------------------------------------
(* Properties.                                                             *)

(* Pushes in the entry of round r of job j at leaf l that the root has not *)
(* seen yet.                                                               *)
AtLeaf(l, j, r) ==
  IF part[l][j].round # r \/ (flush[l].pc = "done" /\ flush[l].job = j) THEN 0
  ELSE part[l][j].cnt
AtRoot(j, r) == IF agg[j].round = r THEN agg[j].cnt ELSE 0

(* Every push a client was told is taken is counted exactly once: in the   *)
(* root's aggregate, in a leaf's, or among those discarded.  A push that   *)
(* slips into an entry whose copy is on its way to the root would be lost  *)
(* without a trace.                                                        *)
PushesAccounted ==
  \A j \in Job, r \in Round :
    taken[j][r] = dropped[j][r] + AtRoot(j, r)
                  + MapThenSumSet(LAMBDA l : AtLeaf(l, j, r), Leaf)

(* An aggregate holds only results of clients that trained on parameters   *)
(* of the aggregate's round, however late a leaf forwards them.            *)
OnlyRoundsPushes ==
  /\ \A j \in Job : \A s \in agg[j].from : s.round = agg[j].round
  /\ \A l \in Leaf, j \in Job : \A s \in part[l][j].from : s.round = part[l][j].round

(* A client trains only on parameters that a job put under this id for the *)
(* round the client was accepted for, through caches, late answers of the  *)
(* root and restarts.                                                      *)
OnlyPostedParams ==
  \A c \in Client :
    client[c].pc = "have" =>
      /\ client[c].param.round = client[c].round
      /\ <<client[c].job, client[c].param.round, client[c].param.inc>> \in posted

(* The state while each handler is under way: a job puts the parameters of *)
(* a round, what the stores and the answers on their way hold was posted   *)
(* before, the lock of a leaf's store keeps the entry that is pushed to    *)
(* the root as it was sent; and the two properties above.  It is inductive.*)
WasPosted(j, p) == p.round # -1 => <<j, p.round, p.inc>> \in posted

ParamInv ==
  /\ \A j \in Job : job[j].pc \in {"putting", "waiting"} => job[j].round # -1
  /\ \A j \in Job : WasPosted(j, board[j])
  /\ \A l \in Leaf, j \in Job : WasPosted(j, cache[l][j])
  /\ \A c \in Client : client[c].pc = "reply" /\ client[c].code = 1 =>
       /\ client[c].param.round = client[c].round
       /\ WasPosted(client[c].job, client[c].param)

FlushInv ==
  \A l \in Leaf : flush[l].pc # "idle" =>
    flush[l].msg = part[l][flush[l].job] /\ flush[l].msg.round # -1

ServerInv ==
  TypeOK /\ ParamInv /\ FlushInv /\ OnlyPostedParams /\ OnlyRoundsPushes

(* What a leaf has collected leaves it, whatever becomes of its push.      *)
LeafDrains ==
  \A l \in Leaf, j \in Job : part[l][j] # NoPart ~> part[l][j] = NoPart

(* A round for which enough pushes were taken, not counting those that were*)
(* discarded, reaches its demand at the root, unless the root leaves the   *)
(* round or more of them are discarded.                                    *)
Kept(j, r) == taken[j][r] - dropped[j][r]

RoundFills ==
  \A j \in Job, r \in Round :
    (agg[j].round = r /\ Kept(j, r) >= agg[j].demand)
      ~> (agg[j].round # r \/ Kept(j, r) < agg[j].demand \/ agg[j].demand <= agg[j].cnt)

-----------------------------------------------------------------------------
(* Properties stated by the documentation that the code does not have.     *)

(* client/propius_ps.py, get: "correct job config and parameter will be    *)
(* returned".                                                              *)
ParamsOfAcceptedJob ==
  \A c \in Client : client[c].pc = "have" => client[c].param.inc = client[c].inc

(* job/propius_ps.py, get: the call is successful if "all the demanded     *)
(* client updates are received at the parameter server".                   *)
DemandOfClients ==
  [][\A j \in Job : (job[j].pc = "waiting" /\ job'[j].pc = "ready"
                     /\ agg[j].round = job[j].round)
       => Cardinality({s.client : s \in agg[j].from}) >= agg[j].demand]_vars
=============================================================================
