------------------------------- MODULE Offers -------------------------------
(***************************************************************************)
(* How clients come to offers: the client library's auto_assign, the load  *)
(* balancer, and the client managers with their client databases, for the  *)
(* online and both offline schedulers.                                     *)
(*                                                                         *)
(* Online, a client manager searches the job database for every client.    *)
(* Offline, it puts the client into a temporary store, fetches the job     *)
(* groups from the scheduler every three seconds, binds the clients of the *)
(* store to jobs and answers pings with what a client is bound to.         *)
(*                                                                         *)
(* Atomicity.  No handler of a client manager gives way between its reads  *)
(* and writes, and only the manager writes its own databases, so a handler *)
(* and a round of binding are one step.  A client makes one call at a      *)
(* time, and its answer is taken with the call.  Jobs are the accounts of  *)
(* JobLedger, which JobControl implements: an acceptance takes a place in  *)
(* one step.  Their number of rounds is not of interest here.              *)
(***************************************************************************)
EXTENDS Integers, Sequences, FiniteSets, FiniteSetsExt

CONSTANTS
  Config,       \* scheduler ("online", or "fifo" and "irs", which are offline)
                \* and number of client managers, in pairs
  CmNum,        \* bound: the largest of these numbers
  Weight,       \* client_manager_id_weight: ids of a client manager
  Class,        \* client specifications
  Zero,         \* the specification that is zero throughout
  Key,          \* public constraints
  Eligible,     \* key -> specifications that satisfy it
  Job,
  KeyOf,        \* job -> its public constraint
  Client,
  ClassOf,      \* client -> its public specification
  Suits,        \* client -> jobs whose private constraint it satisfies
  MaxOffer,     \* max_task_offer_list_len
  TierNum,      \* tier_num
  Ttl,          \* attempts of auto_assign
  MaxPlaces,    \* bound: places of a round
  MaxCheckin,   \* bound: check-ins
  MaxFault      \* bound: failed calls, expired documents and restarts

ASSUME OffersAssumption ==
  /\ CmNum \in Nat \ {0}
  /\ Config \subseteq {"online", "fifo", "irs"} \X (1 .. CmNum)
  /\ Weight \in Nat \ {0}
  /\ Zero \in Class
  /\ Eligible \in [Key -> SUBSET Class]
  /\ \A k \in Key : Zero \in Eligible[k] => Eligible[k] = Class
  /\ KeyOf \in [Job -> Key]
  /\ ClassOf \in [Client -> Class] /\ Suits \in [Client -> SUBSET Job]
  /\ MaxOffer \in Nat \ {0} /\ TierNum \in Nat /\ Ttl \in Nat
  /\ MaxPlaces \in Nat \ {0} /\ MaxCheckin \in Nat /\ MaxFault \in Nat

VARIABLES
  mode, cms, \* the configuration, which never changes
  job,       \* job -> its account: not there yet, in the database, or gone
  left,      \* job -> places left in its round
  line,      \* the offline fifo scheduler's list of jobs
  idx,       \* the load balancer's index
  num,       \* client manager -> client_num
  spec,      \* client manager -> its client database: id -> specification
  temp,      \* client manager -> its temporary store: id -> client
  client,    \* client -> its run of auto_assign
  life,      \* client manager -> number of its restarts
  checkins,  \* number of check-ins
  faults     \* number of faults

jobs     == <<job, left, line>>
managers == <<num, spec, temp, life>>
config   == <<mode, cms>>
vars     == <<config, jobs, idx, managers, client, checkins, faults>>

Cm == 0 .. CmNum - 1
Id == 0 .. CmNum * Weight - 1

NoSpec == "none"
NoTemp == [class |-> NoSpec, jobs |-> {}]
Temp   == [class : Class \cup {NoSpec}, jobs : SUBSET Job]

(* home and life are history: where and in which life of it it checked in. *)
NotAssigning == [on |-> FALSE, id |-> -1, ttl |-> 0, offers |-> {}, home |-> 0, life |-> 0]

TypeOK ==
  /\ <<mode, cms>> \in Config
  /\ job \in [Job -> {"new", "in", "gone"}]
  /\ left \in [Job -> 0 .. MaxPlaces]
  /\ \A j \in Job : left[j] > 0 => job[j] = "in"
  /\ line \in Seq(Job)
  /\ idx \in Cm
  /\ num \in [Cm -> Nat]
  /\ spec \in [Cm -> [Id -> Class \cup {NoSpec}]]
  /\ temp \in [Cm -> [Id -> Temp]]
  /\ client \in [Client -> [on : BOOLEAN, id : Id \cup {-1}, ttl : 0 .. Ttl,
                            offers : SUBSET Job, home : Cm, life : Nat]]
  /\ life \in [Cm -> Nat]
  /\ checkins \in Nat /\ faults \in Nat

Init ==
  /\ \E c \in Config : mode = c[1] /\ cms = c[2]
  /\ job = [j \in Job |-> "new"] /\ left = [j \in Job |-> 0]
  /\ line = <<>>
  /\ idx = 0
  /\ num = [m \in Cm |-> 0]
  /\ spec = [m \in Cm |-> [i \in Id |-> NoSpec]]
  /\ temp = [m \in Cm |-> [i \in Id |-> NoTemp]]
  /\ client = [c \in Client |-> NotAssigning]
  /\ life = [m \in Cm |-> 0]
  /\ checkins = 0 /\ faults = 0

Fault == faults < MaxFault /\ faults' = faults + 1

-----------------------------------------------------------------------------
(* Jobs.                                                                   *)

Exists(j) == job[j] = "in"

(* Mutant: the amount is not compared with the demand.                     *)
OpenWhileIn(j) == Exists(j)

Open(j) == left[j] > 0
Satisfies(class, j) == class \in Eligible[KeyOf[j]]

(* The elements of s that are in T, in the order of s.                     *)
Kept(s, T) ==
  LET at == {i \in 1 .. Len(s) : s[i] \in T}
      nth(n) == CHOOSE i \in at : Cardinality({k \in at : k <= i}) = n
  IN  [n \in 1 .. Cardinality(at) |-> s[nth(n)]]

(* The job is registered.  The fifo scheduler, called by the job manager,  *)
(* drops what is gone from its list and appends the job; until then nobody *)
(* can be offered the job.                                                 *)
JobEnters(j) ==
  /\ job[j] = "new"
  /\ job' = [job EXCEPT ![j] = "in"]
  /\ line' = IF mode = "fifo" THEN Append(Kept(line, {x \in Job : Exists(x)}), j) ELSE line
  /\ UNCHANGED <<config, left, idx, managers, client, checkins, faults>>

JobOpens(j) ==
  /\ Exists(j) /\ left[j] = 0
  /\ \E n \in 1 .. MaxPlaces : left' = [left EXCEPT ![j] = n]
  /\ UNCHANGED <<config, job, line, idx, managers, client, checkins, faults>>

JobEndsRound(j) ==
  /\ Open(j)
  /\ left' = [left EXCEPT ![j] = 0]
  /\ UNCHANGED <<config, job, line, idx, managers, client, checkins, faults>>

JobLeaves(j) ==
  /\ Exists(j)
  /\ job' = [job EXCEPT ![j] = "gone"]
  /\ left' = [left EXCEPT ![j] = 0]
  /\ UNCHANGED <<config, line, idx, managers, client, checkins, faults>>

-----------------------------------------------------------------------------
(* What a client manager answers.                                          *)

(* The list is full with one more than the maximum.                        *)
CutTo(from) ==
  {o \in SUBSET from : Cardinality(o) = IF Cardinality(from) <= MaxOffer
                                        THEN Cardinality(from) ELSE MaxOffer + 1}

(* client_assign of the job database portal: a search for what the         *)
(* specification satisfies.                                                *)
Assigned(class) == CutTo({j \in Job : Exists(j) /\ Satisfies(class, j) /\ Open(j)})

(* get_public_spec: an expired client has the specification zero.          *)
SpecOf(m, i) == IF spec[m][i] = NoSpec THEN Zero ELSE spec[m][i]

(* get_task_id and get_job_private_constraint: the open ones of the jobs   *)
(* that the client is bound to.                                            *)
Bound(m, i) == CutTo({j \in temp[m][i].jobs : Exists(j) /\ Open(j)})

-----------------------------------------------------------------------------
(* Calls of a client, through the load balancer.                           *)

(* Mutant: all client managers count from zero.                            *)
IdFromZero(m, n) == n % Weight

(* CLIENT_CHECKIN: the id.                                                 *)
NewId(m, n) == Weight * m + (n % Weight)

(* Ids are used again after Weight check-ins.  A client whose id comes up  *)
(* has ended by then.                                                      *)
EarlierEnded(m, i) ==
  \A c \in Client : client[c].on /\ client[c].home = m /\ client[c].life = life[m]
                      => client[c].id # i

(* The check-in; the answer is lost if the client does not hear it.        *)
CheckIn(c, heard) ==
  LET m == (idx + 1) % cms
      i == NewId(m, num[m])
  IN
  /\ ~client[c].on /\ checkins < MaxCheckin
  /\ EarlierEnded(m, i)
  /\ IF heard THEN UNCHANGED faults ELSE Fault
  /\ checkins' = checkins + 1
  /\ idx' = m
  /\ num' = [num EXCEPT ![m] = @ + 1]
  /\ spec' = [spec EXCEPT ![m][i] = ClassOf[c]]
  /\ temp' = IF mode = "online" THEN temp
             ELSE [temp EXCEPT ![m][i] = [class |-> ClassOf[c], jobs |-> {}]]
  /\ \E o \in (IF mode = "online" THEN Assigned(ClassOf[c]) ELSE {{}}) :
       client' = IF heard
                 THEN [client EXCEPT ![c] = [on |-> TRUE, id |-> i, ttl |-> Ttl, offers |-> o,
                                             home |-> m, life |-> life[m]]]
                 ELSE client
  /\ UNCHANGED <<config, jobs, life>>

(* The load balancer sends a client to where its id is from.               *)
Route(i) == i \div Weight

NeedsOffer(c) == client[c].on /\ client[c].offers = {} /\ client[c].ttl > 0

(* CLIENT_PING, after two seconds.                                         *)
Ping(c) ==
  LET i == client[c].id  m == Route(i) IN
  /\ NeedsOffer(c)
  /\ \E o \in (IF mode = "online" THEN Assigned(SpecOf(m, i)) ELSE Bound(m, i)) :
       client' = [client EXCEPT ![c].offers = o, ![c].ttl = @ - 1]
  /\ UNCHANGED <<config, jobs, idx, managers, checkins, faults>>

Stops(c) == client' = [client EXCEPT ![c] = NotAssigning]

(* Mutant: it keeps the offers.                                            *)
TriesSame(c) == UNCHANGED client

(* It was refused or suits none: it asks for new offers.                   *)
TriesOn(c) == client' = [client EXCEPT ![c].offers = {}]

SelectNone(c) ==
  /\ client[c].on /\ client[c].offers # {} /\ client[c].offers \cap Suits[c] = {}
  /\ TriesOn(c)
  /\ UNCHANGED <<config, jobs, idx, managers, checkins, faults>>

(* CLIENT_ACCEPT.  A client that does not hear the answer ends as well.    *)
Accept(c) == \E j \in client[c].offers \cap Suits[c] :
  LET i == client[c].id  m == Route(i) IN
  /\ client[c].on /\ Open(j)
  /\ left' = [left EXCEPT ![j] = @ - 1]
  /\ temp' = [temp EXCEPT ![m][i] = NoTemp]
  /\ Stops(c)
  /\ UNCHANGED <<config, job, line, idx, num, spec, life, checkins, faults>>

Refused(c) == \E j \in client[c].offers \cap Suits[c] :
  /\ client[c].on /\ ~Open(j)
  /\ TriesOn(c)
  /\ UNCHANGED <<config, jobs, idx, managers, checkins, faults>>

(* Its attempts are used up.                                               *)
Ends(c) ==
  /\ client[c].on /\ client[c].offers = {} /\ client[c].ttl = 0
  /\ Stops(c)
  /\ UNCHANGED <<config, jobs, idx, managers, checkins, faults>>

(* A call fails, which auto_assign passes on to its caller.                *)
Fails(c) ==
  /\ client[c].on /\ Stops(c) /\ Fault
  /\ UNCHANGED <<config, jobs, idx, managers, checkins>>

-----------------------------------------------------------------------------
(* client_assign_routine: the job groups are fetched and the clients of    *)
(* the temporary store are bound.                                          *)

Stored(m) == {i \in Id : temp[m][i] # NoTemp}
ClassAt(m, i) == temp[m][i].class

Bind(m, bound) ==
  temp' = [temp EXCEPT ![m] = [i \in Id |->
             [class |-> ClassAt(m, i),
              jobs |-> IF i \in DOMAIN bound THEN bound[i] ELSE temp[m][i].jobs]]]

(* Mutant: the first jobs of the list, whatever their constraints.         *)
FitsAny(class, r) == 1 .. Len(r)

Fits(class, r) == {x \in 1 .. Len(r) : Satisfies(class, r[x])}

(* The places of a list of length n whose jobs a client looks at that      *)
(* starts at place first: until it has the maximum.  It takes what fits.   *)
Looks(fits, first, n) == {y \in first .. n : Cardinality(fits \cap first .. y - 1) < MaxOffer}

Taken(fits, first, n) == fits \cap Looks(fits, first, n)

(* Where the next client goes on: behind the job that is gone, if this one *)
(* came upon it; otherwise this one drops the job at which it notices that *)
(* it has the maximum.                                                     *)
Behind(fits, first, n, gone) ==
  IF gone \in Looks(fits, first, n) THEN gone + 1
  ELSE LET taken == Taken(fits, first, n) IN
       IF Cardinality(taken) < MaxOffer THEN n + 1 ELSE Min({n + 1, Max(taken) + 2})

(* What client i has when it started at place first of list r.  The job at *)
(* place gone is removed after it was found open: the client that comes    *)
(* upon it finds no constraints and stays as it was.                       *)
Given(m, i, r, first, gone) ==
  LET fits == Fits(ClassAt(m, i), r) IN
  IF gone \in Looks(fits, first, Len(r)) THEN temp[m][i].jobs
  ELSE {r[y] : y \in Taken(fits, first, Len(r))}

(* The n clients, in some order, go through one iterator over list r; from *)
(* says at which place each of them starts.                                *)
Iterates(m, r, n, order, from, gone) ==
  /\ \A x, y \in 1 .. n : order[x] = order[y] => x = y
  /\ from[1] = 1
  /\ \A x \in 1 .. n :
       from[x + 1] = Behind(Fits(ClassAt(m, order[x]), r), from[x], Len(r), gone)

Iterated(m, r, n, order, from, gone) ==
  [i \in Stored(m) |-> Given(m, i, r, from[CHOOSE x \in 1 .. n : order[x] = i], gone)]

(* The iterator has the open jobs, of which one at most is gone meanwhile. *)
BindFifo(m) ==
  LET n == Cardinality(Stored(m))
      r == Kept(line, {j \in Job : Exists(j) /\ Open(j)})
  IN
  /\ mode = "fifo" /\ n > 0
  /\ \E order \in [1 .. n -> Stored(m)], from \in [1 .. n + 1 -> 1 .. Len(r) + 1],
        gone \in 0 .. Len(r) :
       /\ Iterates(m, r, n, order, from, gone)
       /\ Bind(m, Iterated(m, r, n, order, from, gone))
  /\ UNCHANGED <<config, jobs, idx, num, spec, life, client, checkins, faults>>

(* The scheduler's groups are any that OfflineSchedule can hand out        *)
(* (GroupsSound).  Of the groups whose condition a specification meets,    *)
(* the last one binds it; without any it stays as it was.  With tiers,     *)
(* some clients of a group do without its front job, and a group without   *)
(* jobs binds nobody.                                                      *)
NoGroup == "none"
GroupsOf(classes) ==
  {g \in [classes -> Key \cup {NoGroup}] :
     \A s \in classes : g[s] # NoGroup => s \in Eligible[g[s]]}
Lists == {l \in [Key -> SUBSET Job] :
            \A k \in Key : \A j \in l[k] : KeyOf[j] = k /\ job[j] # "new"}

Binding(m, list, group, front, rest) ==
  [i \in Stored(m) |->
     LET k == group[ClassAt(m, i)] IN
     IF k = NoGroup \/ (TierNum > 1 /\ list[k] = {}) THEN temp[m][i].jobs
     ELSE IF i \in rest THEN list[k] \ {front} ELSE list[k]]

IrsBindings(m) ==
  {Binding(m, list, group, front, rest) :
     list \in Lists, group \in GroupsOf({ClassAt(m, i) : i \in Stored(m)}), front \in Job,
     rest \in IF TierNum > 1 THEN SUBSET Stored(m) ELSE {{}}}

BindIrs(m) ==
  /\ mode = "irs" /\ Stored(m) # {}
  /\ \E bound \in IrsBindings(m) : Bind(m, bound)
  /\ UNCHANGED <<config, jobs, idx, num, spec, life, client, checkins, faults>>

-----------------------------------------------------------------------------
ExpireSpec(m, i) ==
  /\ Fault /\ spec[m][i] # NoSpec
  /\ spec' = [spec EXCEPT ![m][i] = NoSpec]
  /\ UNCHANGED <<config, jobs, idx, num, temp, life, client, checkins>>

ExpireTemp(m, i) ==
  /\ Fault /\ temp[m][i] # NoTemp
  /\ temp' = [temp EXCEPT ![m][i] = NoTemp]
  /\ UNCHANGED <<config, jobs, idx, num, spec, life, client, checkins>>

(* A client manager starts again, flushes its Redis and counts from zero.  *)
ManagerRestarts(m) ==
  /\ Fault
  /\ life' = [life EXCEPT ![m] = @ + 1]
  /\ num' = [num EXCEPT ![m] = 0]
  /\ spec' = [spec EXCEPT ![m] = [i \in Id |-> NoSpec]]
  /\ temp' = [temp EXCEPT ![m] = [i \in Id |-> NoTemp]]
  /\ UNCHANGED <<config, jobs, idx, client, checkins>>

-----------------------------------------------------------------------------
JobStep(j) == JobEnters(j) \/ JobOpens(j) \/ JobEndsRound(j) \/ JobLeaves(j)

ManagerStep(m) == \/ BindFifo(m) \/ BindIrs(m) \/ ManagerRestarts(m)
                  \/ \E i \in Id : ExpireSpec(m, i) \/ ExpireTemp(m, i)

AssignStep(c) == Ping(c) \/ SelectNone(c) \/ Accept(c) \/ Refused(c) \/ Ends(c)

Next ==
  \/ \E j \in Job : JobStep(j)
  \/ \E m \in 0 .. cms - 1 : ManagerStep(m)
  \/ \E c \in Client : AssignStep(c) \/ Fails(c) \/ \E heard \in BOOLEAN : CheckIn(c, heard)

Spec == Init /\ [][Next]_vars

(* A client goes on; its calls return, with an answer or an error.         *)
FairSpec == Spec /\ \A c \in Client : WF_vars(AssignStep(c))

-----------------------------------------------------------------------------
SameLife(c) == client[c].on /\ client[c].life = life[client[c].home]

(* A client is only offered jobs whose public constraint its own           *)
(* specification satisfies, through whatever client manager, store, group  *)
(* or iterator the offer came, and whatever expired in between; unless its *)
(* client manager restarted and gave its id to another client.             *)
OffersSound ==
  \A c \in Client : SameLife(c) => \A j \in client[c].offers : Satisfies(ClassOf[c], j)

(* The calls of a client reach the client manager that has checked it in,  *)
(* and no other client has its id there.                                   *)
IdsApart ==
  /\ \A c \in Client : client[c].on => Route(client[c].id) = client[c].home
  /\ \A c, d \in Client :
       SameLife(c) /\ SameLife(d) /\ client[c].id = client[d].id => c = d

(* Why they hold, and inductive: the databases of a client manager have    *)
(* nothing else under the id of a client in the same life than what is     *)
(* about it, and jobs that suit what is stored with them.                  *)
ClientInv ==
  /\ \A c \in Client : client[c].on =>
       client[c].id \in Id /\ client[c].life <= life[client[c].home]
  /\ \A c \in Client : SameLife(c) =>
       LET m == client[c].home  i == client[c].id IN
       /\ spec[m][i] \in {ClassOf[c], NoSpec}
       /\ mode # "online" => temp[m][i] = NoTemp \/ ClassAt(m, i) = ClassOf[c]

TempInv == \A m \in Cm, i \in Id : \A j \in temp[m][i].jobs : Satisfies(ClassAt(m, i), j)

OffersInv == TypeOK /\ ClientInv /\ TempInv /\ OffersSound /\ IdsApart

(* auto_assign ends, whatever it is offered and however often it is        *)
(* refused.                                                                *)
AssignEnds == \A c \in Client : client[c].on ~> ~client[c].on
=============================================================================
