--------------------------- MODULE OfflineSchedule ---------------------------
(***************************************************************************)
(* The offline irs scheduler.  It keeps one group per public constraint    *)
(* (a key): the open jobs that have exactly this constraint, and a         *)
(* condition on client specifications, a query that the client managers    *)
(* run to find the clients they bind to the group's jobs.  Every           *)
(* GET_JOB_GROUP of a client manager makes a pass, offline(), that         *)
(* computes the groups anew.                                               *)
(*                                                                         *)
(* Atomicity.  The pass holds the scheduler's lock and never awaits, so    *)
(* registrations wait for its end, while the databases it reads change     *)
(* between its queries: one query is one step.  The two queries behind a   *)
(* proportion are one step, and so are those behind one comparison of two  *)
(* groups.                                                                 *)
(*                                                                         *)
(* Client specifications are told apart by the constraints they satisfy:   *)
(* a condition is a set of classes.  The order of jobs within a group,     *)
(* which only says what a client is offered first, is left out.            *)
(***************************************************************************)
EXTENDS Integers, Sequences, FiniteSets, Functions

CONSTANTS
  Class,        \* classes of client specifications
  Key,          \* public constraints
  Eligible,     \* key -> classes that satisfy it
  Job,
  KeyOf,        \* job -> its public constraint
  Client,       \* the clients that check in at the first client manager
  ClassOf,      \* client -> the class of its specification
  MaxError      \* bound: queries that fail

ASSUME ScheduleAssumption ==
  /\ Eligible \in [Key -> SUBSET Class]
  /\ KeyOf \in [Job -> Key]
  /\ IsFiniteSet(Client) /\ ClassOf \in [Client -> Class]
  /\ MaxError \in Nat

VARIABLES
  job,         \* job -> its document: absent, closed, open or gone for good
  called,      \* jobs whose registration waits for the scheduler
  registered,  \* history: jobs whose registration the scheduler has handled
  present,     \* clients with a document in the client database
  keys,        \* key_list
  list,        \* key_job_group_map
  cond,        \* key_group_condition_map
  pass,        \* the pass: at which query it is, or how the last one ended
  errors,      \* number of failed queries
  lost         \* history: keys removed because their query failed

env   == <<job, called, present>>
group == <<keys, list, cond>>
vars  == <<env, registered, group, pass, errors, lost>>

-----------------------------------------------------------------------------
(* Positions and local variables of the pass.  i and h are indices in      *)
(* key_list, seen is what the negative part of the query built so far      *)
(* excludes, size the client count that shares are taken of, prop the      *)
(* proportion of clients eligible for a key, alloc the number of those in  *)
(* its own region.                                                         *)
At(pc) == [pc |-> pc, i |-> 1, h |-> 1, seen |-> {}, size |-> 0,
           prop |-> [k \in Key |-> [n |-> 0, of |-> 1]],
           alloc |-> [k \in Key |-> 0]]
Ended == {"none", "aborted", "complete"}

(* Proportions, n / of.                                                    *)
Ratio == [n : Nat, of : Nat \ {0}]

Pass == [pc : Ended \cup {"lists", "proportions", "size", "allot", "steal"},
         i : Nat \ {0}, h : Nat \ {0}, seen : SUBSET Class, size : Nat,
         prop : [Key -> Ratio], alloc : [Key -> Nat]]

TypeOK ==
  /\ job \in [Job -> {"absent", "closed", "open", "gone"}]
  /\ called \subseteq Job /\ registered \subseteq Job
  /\ present \subseteq Client
  /\ keys \in Seq(Key)
  /\ \A x, y \in 1 .. Len(keys) : keys[x] = keys[y] => x = y
  /\ list \in [Key -> SUBSET Job]
  /\ cond \in [Key -> SUBSET Class]
  /\ pass \in Pass
  /\ pass.pc \notin Ended => pass.i <= Len(keys)
  /\ errors \in Nat
  /\ lost \subseteq Key

Init ==
  /\ job = [j \in Job |-> "absent"]
  /\ called = {} /\ registered = {}
  /\ present = {}
  /\ keys = <<>>
  /\ list = [k \in Key |-> {}] /\ cond = [k \in Key |-> {}]
  /\ pass = At("none")
  /\ errors = 0 /\ lost = {}

KeySet == {keys[x] : x \in 1 .. Len(keys)}

-----------------------------------------------------------------------------
(* The databases the scheduler reads, as the other services change them.   *)

(* JOB_REGIST of the job manager: the document is written, the scheduler   *)
(* is called next.                                                         *)
JobRegist(j) ==
  /\ job[j] = "absent"
  /\ job' = [job EXCEPT ![j] = "closed"]
  /\ called' = called \cup {j}
  /\ UNCHANGED <<present, registered, group, pass, errors, lost>>

JobTurns(j, from, to) ==
  /\ job[j] = from
  /\ job' = [job EXCEPT ![j] = to]
  /\ UNCHANGED <<called, present, registered, group, pass, errors, lost>>

JobStep(j) == \/ JobTurns(j, "closed", "open") \/ JobTurns(j, "open", "closed")
              \/ JobTurns(j, "closed", "gone") \/ JobTurns(j, "open", "gone")

(* A client checks in at the first client manager, or expires.             *)
ClientStep(c) ==
  /\ present' = IF c \in present THEN present \ {c} ELSE present \cup {c}
  /\ UNCHANGED <<job, called, registered, group, pass, errors, lost>>

-----------------------------------------------------------------------------
(* JOB_REGIST of the scheduler: a job without document has no constraints, *)
(* and a key that is there is not inserted again.                          *)

Exists(j) == job[j] \in {"closed", "open"}
JobsOf(k) == {j \in Job : KeyOf[j] = k /\ Exists(j)}
OpenJobsOf(k) == {j \in JobsOf(k) : job[j] = "open"}

ScRegist(j) ==
  LET k == KeyOf[j] IN
  /\ pass.pc \in Ended /\ j \in called
  /\ called' = called \ {j}
  /\ registered' = registered \cup {j}
  /\ IF Exists(j) /\ k \notin KeySet
     THEN /\ keys' = Append(keys, k)
          /\ list' = [list EXCEPT ![k] = {}]
          /\ cond' = [cond EXCEPT ![k] = {}]
          /\ lost' = lost \ {k}
          /\ pass' = At("none")
     ELSE UNCHANGED <<group, lost, pass>>
  /\ UNCHANGED <<job, present, errors>>

-----------------------------------------------------------------------------
(* The pass.                                                               *)

(* Clients in the client database of the given classes.                    *)
Count(classes) == Cardinality({c \in present : ClassOf[c] \in classes})

(* get_client_proportion: of the clients there are when this key's turn    *)
(* comes.  Nobody counts as a proportion of 0.01.                          *)
Proportion(k) ==
  LET n == Count(Eligible[k])
  IN  IF n = 0 THEN [n |-> 1, of |-> 100] ELSE [n |-> n, of |-> Count(Class)]

(* The pairs of keys of which the first has the smaller proportion.        *)
Scarcer(prop) == {e \in Key \X Key :
  prop[e[1]].n * prop[e[2]].of < prop[e[2]].n * prop[e[1]].of}
Commoner(prop) == {e \in Key \X Key : <<e[2], e[1]>> \in Scarcer(prop)}

(* key_list sorted by what goes before what, with ties left as they were:  *)
(* p says where each element comes from.                                   *)
Sorted(before) ==
  LET n == Len(keys)
      first(x, y) == \/ <<keys[x], keys[y]>> \in before
                     \/ <<keys[y], keys[x]>> \notin before /\ x < y
  IN
  {[x \in 1 .. n |-> keys[p[x]]] :
     p \in {q \in Bijection(1 .. n, 1 .. n) :
              \A x, y \in 1 .. n : x < y => first(q[x], q[y])}}

Step(p) == pass' = p

(* Mutant: the loop goes one key too far. *)
OnwardTooFar(p, pc) ==
  IF p.i <= Len(keys) THEN [p EXCEPT !.i = @ + 1] ELSE [p EXCEPT !.pc = pc, !.i = 1]

(* The next index of a loop over key_list, or the next loop.               *)
Onward(p, pc) ==
  IF p.i < Len(keys) THEN [p EXCEPT !.i = @ + 1] ELSE [p EXCEPT !.pc = pc, !.i = 1]

(* clear_group_info.                                                       *)
PassStart ==
  /\ pass.pc \in Ended
  /\ list' = [k \in Key |-> IF k \in KeySet THEN {} ELSE list[k]]
  /\ cond' = [k \in Key |-> IF k \in KeySet THEN {} ELSE cond[k]]
  /\ Step(At(IF keys = <<>> THEN "complete" ELSE "lists"))
  /\ UNCHANGED <<env, registered, keys, errors, lost>>

(* Mutant: a key is kept only while one of its jobs is open. *)
NoJobsOpen(k) == OpenJobsOf(k) = {}

(* get_job_list finds no job with the constraint.                          *)
NoJobs(k) == JobsOf(k) = {}

(* The open jobs of one key.                                               *)
PassList ==
  LET k == keys[pass.i] IN
  /\ pass.pc = "lists" /\ ~NoJobs(k)
  /\ list' = [list EXCEPT ![k] = OpenJobsOf(k)]
  /\ Step(Onward(pass, "proportions"))
  /\ UNCHANGED <<env, registered, keys, cond, errors, lost>>

(* Mutant: the key stays in key_list. *)
WithoutNone(i) == keys

Without(i) == [x \in 1 .. Len(keys) - 1 |-> IF x < i THEN keys[x] ELSE keys[x + 1]]

(* A key without jobs is removed, after which the pass looks up its list   *)
(* and dies of the KeyError.                                               *)
PassRemove ==
  LET k == keys[pass.i] IN
  /\ pass.pc = "lists" /\ NoJobs(k)
  /\ keys' = Without(pass.i)
  /\ Step(At("aborted"))
  /\ UNCHANGED <<env, registered, list, cond, errors, lost>>

(* A search that fails counts as one that found no job.                    *)
PassListFails ==
  LET k == keys[pass.i] IN
  /\ pass.pc = "lists" /\ errors < MaxError
  /\ errors' = errors + 1
  /\ keys' = Without(pass.i)
  /\ lost' = lost \cup {k}
  /\ Step(At("aborted"))
  /\ UNCHANGED <<env, registered, list, cond>>

PassProportion ==
  LET k == keys[pass.i] IN
  /\ pass.pc = "proportions"
  /\ Step(Onward([pass EXCEPT !.prop = [@ EXCEPT ![k] = Proportion(k)]], "size"))
  /\ UNCHANGED <<env, registered, group, errors, lost>>

(* The client count is read and the keys sorted, the scarcest first.       *)
PassSize ==
  /\ pass.pc = "size"
  /\ Step([At("allot") EXCEPT !.size = Count(Class), !.prop = pass.prop])
  /\ keys' \in Sorted(Scarcer(pass.prop))
  /\ UNCHANGED <<env, registered, list, cond, errors, lost>>

(* The clients of a region; without any client all shares are equal.       *)
Share(region) == IF pass.size # 0 THEN Count(region) ELSE 1

(* Mutant: the query excludes the key's own clients already. *)
RegionTooLate(k) == Eligible[k] \ (pass.seen \cup Eligible[k])

(* Each key in turn gets the eligible clients that none before it could    *)
(* get.  After the last one the keys are sorted the other way around.      *)
Region(k) == Eligible[k] \ pass.seen

PassAllot ==
  LET k == keys[pass.i]  region == Region(k) IN
  /\ pass.pc = "allot"
  /\ cond' = [cond EXCEPT ![k] = @ \cup region]
  /\ LET alloc == [pass.alloc EXCEPT ![k] = Share(region)] IN
     IF pass.i < Len(keys)
     THEN /\ Step([pass EXCEPT !.i = @ + 1, !.seen = @ \cup Eligible[k], !.alloc = alloc])
          /\ UNCHANGED keys
     ELSE /\ Step([At("steal") EXCEPT !.h = 2, !.alloc = alloc])
          /\ keys' \in Sorted(Commoner(pass.prop))
  /\ UNCHANGED <<env, registered, list, errors, lost>>

(* get_client_subset_size fails after the condition was inserted.          *)
PassAllotFails ==
  LET k == keys[pass.i] IN
  /\ pass.pc = "allot" /\ errors < MaxError
  /\ errors' = errors + 1
  /\ cond' = [cond EXCEPT ![k] = @ \cup Region(k)]
  /\ Step(At("aborted"))
  /\ UNCHANGED <<env, registered, keys, list, lost>>

(* The inner loop is over: the next key, or the end of the pass.           *)
NextKey ==
  IF pass.i < Len(keys) THEN [pass EXCEPT !.i = @ + 1, !.h = pass.i + 2]
  ELSE At("complete")

(* get_affected_len: at least one job of the group that still exists, at   *)
(* most all of them.                                                       *)
Affected(k) == LET n == Cardinality(list[k] \cap JobsOf(k)) IN (IF n = 0 THEN 0 ELSE 1) .. n

(* m jobs on the clients of k suffer more than the jobs of l on its own.   *)
Worse(m, k, l) == m * pass.alloc[l] > Cardinality(list[l]) * pass.alloc[k]

(* Mutants: k takes what l may use although it may not use it itself, or   *)
(* takes nothing although l gives up what k may use.                       *)
TakeForeign(k, l) ==
  cond' = [cond EXCEPT ![k] = @ \cup Eligible[l], ![l] = @ \ (cond[k] \cup Eligible[l])]
TakeNothing(k, l) ==
  cond' = [cond EXCEPT ![l] = @ \ Eligible[k]]

(* The clients that satisfy both constraints are given to k, and l keeps   *)
(* none of the clients of k.                                               *)
Take(k, l) ==
  LET taken == cond[k] \cup (Eligible[k] \cap Eligible[l])
  IN  cond' = [cond EXCEPT ![k] = taken, ![l] = @ \ taken]

PassTake ==
  LET k == keys[pass.i]  l == keys[pass.h] IN
  /\ pass.pc = "steal" /\ pass.h <= Len(keys)
  /\ pass.alloc[k] # 0 /\ pass.alloc[l] # 0
  /\ \E m \in Affected(k) : Worse(m, k, l)
  /\ Take(k, l)
  /\ Step([pass EXCEPT !.h = @ + 1])
  /\ UNCHANGED <<env, registered, keys, list, errors, lost>>

PassNext ==
  LET k == keys[pass.i]  l == keys[pass.h] IN
  /\ pass.pc = "steal"
  /\ pass.h <= Len(keys) => /\ pass.alloc[k] # 0 /\ pass.alloc[l] # 0
                            /\ \E m \in Affected(k) : ~Worse(m, k, l)
  /\ Step(NextKey)
  /\ UNCHANGED <<env, registered, group, errors, lost>>

(* A group whose region has no client divides by zero and ends the pass.   *)
PassZero ==
  /\ pass.pc = "steal" /\ pass.h <= Len(keys)
  /\ pass.alloc[keys[pass.i]] = 0 \/ pass.alloc[keys[pass.h]] = 0
  /\ Step(At("aborted"))
  /\ UNCHANGED <<env, registered, group, errors, lost>>

PassStep == \/ PassList \/ PassRemove \/ PassListFails \/ PassProportion \/ PassSize
            \/ PassAllot \/ PassAllotFails \/ PassTake \/ PassNext \/ PassZero

-----------------------------------------------------------------------------
Next ==
  \/ \E j \in Job : JobRegist(j) \/ JobStep(j) \/ ScRegist(j)
  \/ \E c \in Client : ClientStep(c)
  \/ PassStart \/ PassStep

Spec == Init /\ [][Next]_vars

(* A client manager asks for the groups every three seconds, and a pass    *)
(* runs to its end.  Nothing is assumed of jobs and clients.               *)
Fairness == WF_vars(PassStart \/ PassStep)

FairSpec == Spec /\ Fairness

-----------------------------------------------------------------------------
(* No client manager is ever handed a group that contains clients which    *)
(* do not satisfy the constraint of its jobs: the irs client manager binds *)
(* clients by the condition alone.                                         *)
GroupsSound == \A k \in Key : cond[k] \subseteq Eligible[k]

(* After a complete pass every client that satisfies the constraint of     *)
(* some group is in a group, whoever took whose clients.                   *)
Covered(ks) == UNION {cond[k] : k \in ks} = UNION {Eligible[k] : k \in ks}

GroupsCover == pass.pc = "complete" => Covered(KeySet)

(* A registered job with a document has a group, however registrations,    *)
(* removals and passes interleave, unless a search for its key failed:     *)
(* the key that pass drops is only inserted again with another job.        *)
RegisteredHaveGroup ==
  \A j \in registered : Exists(j) => KeyOf[j] \in KeySet \cup lost

(* The key of jobs that are gone leaves, although a pass removes one key   *)
(* at most and dies of it.                                                 *)
DeadKeysLeave ==
  \A k \in Key : k \in KeySet /\ JobsOf(k) = {} ~> (k \notin KeySet \/ JobsOf(k) # {})

(* The inductive invariant behind the safety properties: the keys allotted *)
(* so far cover what the query excludes and what is eligible for them, and *)
(* no pair of groups is a group with itself.                               *)
First(n) == {keys[x] : x \in 1 .. n}

ScheduleInv ==
  /\ TypeOK /\ GroupsSound /\ RegisteredHaveGroup
  /\ \A j \in called \cup registered : job[j] # "absent"
  /\ pass.pc = "allot" =>
       pass.seen \cup UNION {Eligible[k] : k \in First(pass.i - 1)}
         \subseteq UNION {cond[k] : k \in First(pass.i - 1)}
  /\ pass.pc = "steal" => pass.i < pass.h
  /\ pass.pc \in {"steal", "complete"} => Covered(KeySet)

-----------------------------------------------------------------------------
(* "Propius provide the guarantee that the requested demand will be        *)
(* satisfied": an open job for which clients are there, and which competes  *)
(* with no other open job, is handed out with clients sooner or later.     *)
Served(j) ==
  LET k == KeyOf[j]
  IN  pass.pc \in Ended /\ j \in list[k] /\ Count(cond[k]) > 0

Wanting(j) ==
  /\ j \in registered /\ job[j] = "open" /\ KeyOf[j] \in KeySet
  /\ Count(Eligible[KeyOf[j]]) > 0
  /\ \A i \in Job \ {j} : job[i] # "open"

OpenJobsServed == \A j \in Job : Wanting(j) ~> (~Wanting(j) \/ Served(j))
=============================================================================
