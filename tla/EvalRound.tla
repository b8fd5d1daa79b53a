------------------------------ MODULE EvalRound ------------------------------
(***************************************************************************)
(* The parameter server of an evaluation job, its clients, and the stream  *)
(* of tasks it registers at the executor.                                  *)
(*                                                                         *)
(* The server's main coroutine holds the lock that every handler takes and *)
(* gives it up in two places only, where it waits on the condition         *)
(* variable: for clients (sched) and for their results (exec).  A handler  *)
(* is therefore one step, taken in these phases.  A wait may time out      *)
(* although it was notified, while the main coroutine waits for the lock,  *)
(* and other handlers may run then.  When the main coroutine has ended its *)
(* event loop is closed and no call is answered any more; what a handler   *)
(* still does in the last turn of that loop, nothing reads.                *)
(*                                                                         *)
(* A client is sequential: it sends its next call when the last one is     *)
(* answered.  What breaks that is a client that leaves, or one whose call  *)
(* is cancelled in the middle of the handler.                              *)
(*                                                                         *)
(* The server's own calls, of the executor and of the job manager, may     *)
(* fail.  Nothing catches that in the main coroutine, which ends then, be  *)
(* it in the middle of an attempt.                                         *)
(***************************************************************************)
EXTENDS Integers, FiniteSets

CONSTANTS
  Client,
  TotalRound,   \* rounds the job wants
  Demand,       \* results a round needs
  OverDemand,   \* clients it asks for
  MaxFault      \* bound: time limits that end a wait too early, clients that
                \* leave, calls that are cut, refused or fail

ASSUME RoundAssumption ==
  /\ IsFiniteSet(Client)
  /\ TotalRound \in Nat /\ Demand \in Nat \ {0} /\ OverDemand \in Nat /\ Demand <= OverDemand
  /\ MaxFault \in Nat

VARIABLES
  phase,      \* where the main coroutine is
  notified,   \* it was notified in its current wait
  cur,        \* cur_round
  started,    \* execution_start
  members,    \* round_client_num
  res,        \* round_result_cnt
  queue,      \* client_event_dict: client -> number of events not sent yet
  doing,      \* client -> what it does
  told,       \* client -> the round of the model it downloaded
  sent,       \* clients whose train task is registered in this attempt
  fetched,    \* history: clients that were sent the model in this attempt
  aggregated, \* history: rounds whose aggregate task is registered
  open,       \* history: no end of this attempt is registered
  faults      \* number of faults so far

heard   == <<sent, aggregated, open>>
server  == <<phase, notified, cur, started, members, res, queue, heard, fetched>>
clients == <<doing, told>>
vars    == <<server, clients, faults>>

Event  == {"update_model", "client_train", "upload_model"}

(* The first of n events that are left in an event queue of four.          *)
EventOf(n) == CASE n = 4 -> "update_model" [] n = 3 -> "client_train"
             [] n = 2 -> "upload_model" [] n = 1 -> "shut_down"

TypeOK ==
  /\ phase \in {"start", "sched", "exec", "done", "exited"}
  /\ notified \in BOOLEAN /\ started \in BOOLEAN /\ open \in BOOLEAN
  /\ cur \in 1 .. TotalRound + 1 /\ aggregated \in 0 .. TotalRound
  /\ members \in Nat /\ res \in Nat
  /\ queue \in [Client -> 0 .. 4]
  /\ doing \in [Client -> {"away", "waiting"} \cup Event]
  /\ told \in [Client -> 0 .. TotalRound]
  /\ sent \subseteq Client /\ fetched \subseteq Client
  /\ faults \in Nat

Init ==
  /\ phase = "start" /\ notified = FALSE /\ started = FALSE
  /\ cur = 1 /\ members = 0 /\ res = 0
  /\ queue = [c \in Client |-> 0]
  /\ doing = [c \in Client |-> "away"] /\ told = [c \in Client |-> 0]
  /\ sent = {} /\ fetched = {} /\ aggregated = 0 /\ open = FALSE
  /\ faults = 0

Fault == faults < MaxFault /\ faults' = faults + 1

LockFree == phase \in {"sched", "exec"}

-----------------------------------------------------------------------------
(* Handlers.                                                               *)

(* CLIENT_CHECKIN.  A client that is refused tries again later.            *)
CheckIn(c) ==
  /\ LockFree /\ doing[c] = "away"
  /\ ~started /\ queue[c] = 0 /\ members < OverDemand /\ cur <= TotalRound
  /\ queue' = [queue EXCEPT ![c] = 4]
  /\ members' = members + 1
  /\ notified' = (notified \/ (phase = "sched" /\ members + 1 >= OverDemand))
  /\ doing' = [doing EXCEPT ![c] = "waiting"]
  /\ UNCHANGED <<phase, cur, started, res, heard, fetched, told, faults>>

(* CLIENT_PING: a member gets its first event once execution has started,  *)
(* one that is no member is sent away.                                     *)
PingAnswered(c) ==
  /\ LockFree /\ doing[c] = "waiting" /\ started /\ queue[c] # 0
  /\ queue' = [queue EXCEPT ![c] = @ - 1]
  /\ doing' = [doing EXCEPT ![c] = EventOf(queue[c])]
  /\ told' = [told EXCEPT ![c] = cur]
  /\ fetched' = fetched \cup {c}
  /\ UNCHANGED <<phase, notified, cur, started, members, res, heard, faults>>

PingRefused(c) ==
  /\ LockFree /\ doing[c] = "waiting" /\ queue[c] = 0
  /\ doing' = [doing EXCEPT ![c] = "away"]
  /\ UNCHANGED <<server, told, faults>>

(* Mutant: results are taken from all members, demanded or not.            *)
TakesAll(c) == started /\ told[c] = cur /\ queue[c] # 0

(* CLIENT_EXECUTE_COMPLETION takes the client's step.  Results are counted *)
(* up to one more than demanded.                                           *)
Takes(c) == /\ started /\ told[c] = cur
            /\ queue[c] # 0 /\ res <= Demand

Counted(c, known) ==
  /\ res' = res + 1
  /\ sent' = IF known THEN sent \cup {c} ELSE sent

(* Mutant: the round ends with one result less.                            *)
EnoughButOne(n) == phase = "exec" /\ n + 1 >= Demand

Enough(n) == phase = "exec" /\ n >= Demand

Goes(e) == IF e = "shut_down" THEN "away" ELSE e

Complete(c) ==
  /\ LockFree /\ doing[c] \in Event /\ Takes(c)
  /\ IF doing[c] = "upload_model" THEN Counted(c, TRUE) ELSE UNCHANGED <<res, sent>>
  /\ queue' = [queue EXCEPT ![c] = @ - 1]
  /\ doing' = [doing EXCEPT ![c] = Goes(EventOf(queue[c]))]
  /\ notified' = (notified \/ Enough(res'))
  /\ UNCHANGED <<phase, cur, started, members, aggregated, open, fetched, told, faults>>

CompleteRefused(c) ==
  /\ LockFree /\ doing[c] \in Event /\ ~Takes(c)
  /\ doing' = [doing EXCEPT ![c] = "away"]
  /\ UNCHANGED <<server, told, faults>>

(* The handler of an upload is cut off while it calls the executor, or the *)
(* call fails: the result is counted, whether the executor heard of it or  *)
(* not, the client keeps its place and nobody is notified.                 *)
UploadCut(c) ==
  /\ LockFree /\ doing[c] = "upload_model" /\ Takes(c)
  /\ Fault
  /\ \E known \in BOOLEAN : Counted(c, known)
  /\ doing' = [doing EXCEPT ![c] = "away"]
  /\ UNCHANGED <<phase, notified, cur, started, members, queue, aggregated, open, fetched, told>>

(* A client leaves: it is out of time, patience or power.                  *)
Leave(c) ==
  /\ doing[c] # "away"
  /\ Fault
  /\ doing' = [doing EXCEPT ![c] = "away"]
  /\ UNCHANGED <<server, told>>

-----------------------------------------------------------------------------
(* The main coroutine.                                                     *)

(* Mutant: the new attempt begins as if execution had started.             *)
ResetCounts == UNCHANGED started /\ members' = 0 /\ res' = 0

Reset == started' = FALSE /\ members' = 0 /\ res' = 0

(* start_request succeeds.                                                 *)
StartRequest ==
  /\ phase = "start" /\ cur <= TotalRound
  /\ Reset
  /\ phase' = "sched" /\ notified' = FALSE
  /\ open' = TRUE
  /\ UNCHANGED <<cur, queue, sent, aggregated, fetched, clients, faults>>

(* The job manager does not know the job any more: it is registered again  *)
(* for the rounds that are left.  Where that fails, or where the job       *)
(* manager does not answer, the server gives up.                           *)
ReRegister ==
  /\ phase = "start" /\ cur <= TotalRound
  /\ Fault
  /\ Reset
  /\ phase' \in {"start", "done"}
  /\ UNCHANGED <<notified, cur, queue, heard, fetched, clients>>

(* end_request, and members may start.                                     *)
ExecStart ==
  /\ phase = "sched" /\ notified
  /\ started' = TRUE
  /\ phase' = "exec" /\ notified' = FALSE
  /\ UNCHANGED <<cur, members, res, queue, heard, fetched, clients, faults>>

(* The job manager does not answer end_request.                            *)
ExecStartFails ==
  /\ phase = "sched" /\ notified
  /\ Fault
  /\ phase' = "done" /\ notified' = FALSE
  /\ UNCHANGED <<cur, started, members, res, queue, heard, fetched, clients>>

(* Mutant: members of the failed attempt keep their places.                *)
ClearNothing == UNCHANGED queue

(* _clear_event_dict.                                                      *)
Clear == queue' = [c \in Client |-> 0]

(* The executor hears that the attempt is over: its round is aggregated,   *)
(* n = 1, or failed, n = 0.                                                *)
Register(n) ==
  /\ sent' = {} /\ open' = FALSE
  /\ aggregated' = aggregated + n

CloseAttempt(n) ==
  /\ Clear
  /\ Register(n) /\ fetched' = {}
  /\ phase' = "start" /\ notified' = FALSE
  /\ cur' = cur + n
  /\ UNCHANGED <<started, members, res, clients>>

(* The call of the executor fails, whether the executor heard it or not.   *)
CloseFails(n) ==
  /\ Fault
  /\ Clear
  /\ Register(n) \/ UNCHANGED heard
  /\ phase' = "done" /\ notified' = FALSE
  /\ UNCHANGED <<cur, started, members, res, fetched, clients>>

(* close_round.                                                            *)
CloseRound      == phase = "exec" /\ notified /\ CloseAttempt(1) /\ UNCHANGED faults
CloseRoundFails == phase = "exec" /\ notified /\ CloseFails(1)

(* close_failed_round, when a wait times out.                              *)
SchedTimeout  == phase = "sched" /\ Fault /\ CloseAttempt(0)
ExecTimeout   == phase = "exec" /\ Fault /\ CloseAttempt(0)
TimedOutFails == phase \in {"sched", "exec"} /\ CloseFails(0)

(* Members are gone, so that only the time limit ends the attempt.         *)
Stuck == phase = "exec" /\ ~notified /\ \A c \in Client : doing[c] = "away"

StuckTimeout == Stuck /\ CloseAttempt(0) /\ UNCHANGED faults

(* All rounds are done.                                                    *)
LoopEnds ==
  /\ phase = "start" /\ cur > TotalRound
  /\ phase' = "done"
  /\ UNCHANGED <<notified, cur, started, members, res, queue, heard, fetched, clients, faults>>

(* server_graceful_shutdown, however run() has ended.  It has an event     *)
(* loop of its own, while the channel to the executor belongs to the one   *)
(* that is closed by now: the job manager hears of the end of the job, the *)
(* call that registers the finish task raises.                             *)
Shutdown ==
  /\ phase = "done"
  /\ phase' = "exited"
  /\ UNCHANGED <<notified, cur, started, members, res, queue, heard, fetched, clients, faults>>

-----------------------------------------------------------------------------
Main == \/ StartRequest \/ ReRegister \/ ExecStart \/ ExecStartFails \/ CloseRound
        \/ CloseRoundFails \/ SchedTimeout \/ ExecTimeout \/ TimedOutFails
        \/ StuckTimeout \/ LoopEnds \/ Shutdown

Call(c) == CheckIn(c) \/ PingAnswered(c) \/ PingRefused(c) \/ Complete(c) \/ CompleteRefused(c)

Next == Main \/ \E c \in Client : Call(c) \/ UploadCut(c) \/ Leave(c)

Spec == Init /\ [][Next]_vars

(* The main coroutine goes on and its time limits pass.  Its calls return, *)
(* with an answer or an exception: the job manager is tried three times,   *)
(* and the executor's JOB_REGISTER_TASK waits for nothing.  Clients keep   *)
(* coming and send their calls.                                            *)
Fairness ==
  /\ WF_vars(StartRequest \/ ExecStart \/ CloseRound \/ StuckTimeout \/ LoopEnds \/ Shutdown)
  /\ \A c \in Client : WF_vars(Call(c))

FairSpec == Spec /\ Fairness

-----------------------------------------------------------------------------
(* A result is only taken from a client that was sent the model in this    *)
(* very attempt, and at most one more than demanded: nothing of a failed   *)
(* attempt leaks into the next one, which has the same round number.       *)
ResultsOfAttempt == sent \subseteq fetched /\ res <= Demand + 1

(* The inductive invariant behind it: places are taken while the server is *)
(* being scheduled only and given back before the next attempt; a member   *)
(* works on the event before those that are left for it; a member whose    *)
(* result was taken has none to give any more.  The executor has           *)
(* aggregated the rounds before this one, and this one at most where the   *)
(* server failed in the middle of it.                                      *)
Delivered(c) == queue[c] = 0 \/ (queue[c] = 1 /\ doing[c] = "away")

ServerInv ==
  /\ ResultsOfAttempt
  /\ phase \in {"sched", "exec"} => cur <= TotalRound
  /\ phase = "sched" => ~started /\ res = 0
  /\ phase = "exec" => started /\ (notified => res >= Demand)
  /\ phase \in {"start", "sched"} => sent = {} /\ fetched = {}
  /\ phase = "start" => \A c \in Client : queue[c] = 0
  /\ phase \in {"start", "sched", "exec"} =>
       cur = aggregated + 1 /\ (open <=> phase # "start")
  /\ phase \in {"done", "exited"} =>
       /\ aggregated \in {cur - 1, cur}
       /\ cur > TotalRound \/ faults > 0

ClientInv(c) ==
  /\ queue[c] \notin {0, 4} => c \in fetched
  /\ queue[c] # 0 /\ doing[c] = "waiting" => queue[c] = 4
  /\ queue[c] # 0 /\ doing[c] \in Event => queue[c] # 4 /\ doing[c] = EventOf(queue[c] + 1)
  /\ c \in sent => Delivered(c)

RoundInv == TypeOK /\ ServerInv /\ \A c \in Client : ClientInv(c)

(* The tasks registered at the executor follow the stream that executor.py *)
(* relies on.                                                              *)
PS == "ps"

Stream == INSTANCE TaskStream WITH
  Job <- {PS},
  Rounds <- [j \in {PS} |-> TotalRound], Demand <- [j \in {PS} |-> Demand],
  round <- [j \in {PS} |-> aggregated + 1], results <- [j \in {PS} |-> sent],
  count <- [j \in {PS} |-> IF open THEN res ELSE 0],
  ended <- [j \in {PS} |-> FALSE]

StreamSpec == Stream!Spec

(* The server comes to its end, whoever leaves, however often a time limit *)
(* strikes too early and wherever a call fails, as long as all of that     *)
(* happens finitely often.                                                 *)
ServerExits == <>(phase = "exited")

=============================================================================
