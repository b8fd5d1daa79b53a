---------------------------- MODULE OffersProofs ----------------------------
(***************************************************************************)
(* Proofs about Offers, for any number of clients, jobs and client         *)
(* managers, in each of its configurations: a client is only offered jobs  *)
(* whose public constraint it satisfies, and its calls reach the client    *)
(* manager that has checked it in.                                         *)
(***************************************************************************)
EXTENDS Offers, TLAPS, FiniteSetTheorems, WellFoundedInduction, NaturalsInduction,
        SequenceTheorems

-----------------------------------------------------------------------------
(* The list of jobs: what is kept of a sequence.                           *)

LEMMA LeastOf ==
  ASSUME NEW T, T \subseteq Nat, T # {}
  PROVE  \E n \in T : \A m \in T : n <= m
<1>1. PICK n \in T : \A m \in T : ~ (<<m, n>> \in OpToRel(<, Nat))
  BY NatLessThanWellFounded, WFMin
<1>2. ASSUME NEW m \in T PROVE n <= m
  <2>1. ~ (m < n)
    BY <1>1, <1>2 DEF OpToRel
  <2> QED  BY <2>1
<1> QED  BY <1>2

(* There is an nth element of a set of numbers that has as many.           *)
LEMMA Nth ==
  ASSUME NEW N \in Nat, NEW P \in SUBSET (1 .. N), NEW n \in 1 .. Cardinality(P)
  PROVE  \E i \in P : Cardinality({k \in P : k <= i}) = n
<1> DEFINE upto(i) == {k \in P : k <= i}
           I == {i \in Nat : n <= Cardinality(upto(i))}
<1>0. \A k \in P : k \in Nat /\ 1 <= k /\ k <= N
  OBVIOUS
<1>1. IsFiniteSet(P) /\ Cardinality(P) \in Nat
  <2>1. IsFiniteSet(1 .. N)
    BY FS_Interval
  <2> QED  BY <2>1, FS_Subset, FS_CardinalityType
<1>2. \A i : IsFiniteSet(upto(i)) /\ Cardinality(upto(i)) \in Nat
  <2>1. \A i : upto(i) \in SUBSET P
    OBVIOUS
  <2> QED  BY <1>1, <2>1, FS_Subset, FS_CardinalityType
<1>3. N \in I
  <2>1. upto(N) = P
    BY <1>0
  <2> HIDE DEF upto
  <2> QED  BY <1>1, <2>1
<1>4. PICK i \in I : \A m \in I : i <= m
  <2> HIDE DEF I
  <2>1. I \subseteq Nat
    BY DEF I
  <2> QED  BY <1>3, <2>1, LeastOf
<1>5. i # 0
  <2>1. upto(0) = {}
    <3>1. \A k \in P : ~ (k <= 0)
      BY <1>0
    <3> QED  BY <3>1
  <2>2. Cardinality(upto(0)) = 0
    BY <2>1, FS_EmptySet
  <2> HIDE DEF upto
  <2> QED  BY <2>2
<1>6. i - 1 \in Nat /\ i - 1 \notin I
  <2>1. i \in Nat /\ \A m \in I : i <= m
    BY <1>4
  <2> HIDE DEF I
  <2> QED  BY <1>5, <2>1
<1>7. Cardinality(upto(i - 1)) < n /\ n <= Cardinality(upto(i))
  <2> HIDE DEF upto
  <2> QED  BY <1>2, <1>6
<1>8. i \in P /\ Cardinality(upto(i)) = Cardinality(upto(i - 1)) + 1
  <2>1. CASE i \notin P
    <3>1. upto(i) = upto(i - 1)
      <4>1. \A k \in P : k <= i <=> k <= i - 1
        BY <1>0, <1>4, <2>1
      <4> QED  BY <4>1
    <3> HIDE DEF upto
    <3> QED  BY <1>2, <1>7, <3>1
  <2>2. CASE i \in P
    <3>1. upto(i) = upto(i - 1) \cup {i} /\ i \notin upto(i - 1)
      <4>1. \A k \in P : k <= i <=> k <= i - 1 \/ k = i
        BY <1>0, <1>4
      <4>2. i <= i /\ ~ (i <= i - 1)
        BY <1>4
      <4> QED  BY <2>2, <4>1, <4>2
    <3> HIDE DEF upto
    <3> QED  BY <1>2, <2>2, <3>1, FS_AddElement
  <2> QED  BY <2>1, <2>2
<1> HIDE DEF upto
<1>9. Cardinality(upto(i)) = n
  BY <1>2, <1>7, <1>8
<1> QED  BY <1>8, <1>9 DEF upto

LEMMA KeptType ==
  ASSUME NEW S, NEW s \in Seq(S), NEW T
  PROVE  Kept(s, T) \in Seq(S \cap T)
<1> DEFINE at == {i \in 1 .. Len(s) : s[i] \in T}
           nth(n) == CHOOSE i \in at : Cardinality({k \in at : k <= i}) = n
<1>1. at \in SUBSET (1 .. Len(s)) /\ Len(s) \in Nat /\ \A i \in at : s[i] \in S \cap T
  OBVIOUS
<1>2. Kept(s, T) = [n \in 1 .. Cardinality(at) |-> s[nth(n)]]
  BY DEF Kept
<1>3. Cardinality(at) \in Nat
  <2>1. IsFiniteSet(1 .. Len(s))
    BY <1>1, FS_Interval
  <2> HIDE DEF at
  <2> QED  BY <1>1, <2>1, FS_Subset, FS_CardinalityType
<1> HIDE DEF at
<1>4. ASSUME NEW n \in 1 .. Cardinality(at) PROVE nth(n) \in at
  <2>1. \E i \in at : Cardinality({k \in at : k <= i}) = n
    BY <1>1, Nth
  <2> QED  BY <2>1
<1> HIDE DEF nth
<1>5. \A n \in 1 .. Cardinality(at) : s[nth(n)] \in S \cap T
  BY <1>1, <1>4
<1> QED  BY <1>2, <1>3, <1>5

-----------------------------------------------------------------------------
(* Ids.                                                                    *)

LEMMA ManagerOfId ==
  ASSUME NEW W \in Nat \ {0}, NEW m \in Nat, NEW k \in 0 .. W - 1
  PROVE  (W * m + k) \div W = m
<1> DEFINE x == W * m + k
           q == x \div W
           r == x % W
<1>1. x \in Nat
  OBVIOUS
<1>2. q \in Int /\ r \in 0 .. W - 1 /\ x = W * q + r
  <2> HIDE DEF x
  <2> QED  BY <1>1
<1>3. W * m + k = W * q + r
  BY <1>2
<1> HIDE DEF q, r
<1>4. ~ (m > q)
  <2>1. ASSUME m > q PROVE FALSE
    <3>1. PICK d \in Nat : m = q + 1 + d
      BY <1>2, <2>1
    <3>2. W * m = W * q + W + W * d
      BY <1>2, <3>1
    <3>3. W * d >= 0
      OBVIOUS
    <3>4. W * m \in Int /\ W * q \in Int /\ W * d \in Int
      BY <1>2
    <3> QED  BY <1>2, <1>3, <3>2, <3>3, <3>4
  <2> QED  BY <2>1
<1>5. ~ (q > m)
  <2>1. ASSUME q > m PROVE FALSE
    <3>1. PICK d \in Nat : q = m + 1 + d
      BY <1>2, <2>1
    <3>2. W * q = W * m + W + W * d
      BY <1>2, <3>1
    <3>3. W * d >= 0
      OBVIOUS
    <3>4. W * m \in Int /\ W * q \in Int /\ W * d \in Int
      BY <1>2
    <3> QED  BY <1>2, <1>3, <3>2, <3>3, <3>4
  <2> QED  BY <2>1
<1>6. q = m
  BY <1>2, <1>4, <1>5
<1> QED  BY <1>6 DEF q

LEMMA NewIdIs ==
  ASSUME OffersAssumption, NEW m \in Cm, NEW n \in Nat
  PROVE  NewId(m, n) \in Id /\ Route(NewId(m, n)) = m
<1>1. /\ Weight \in Nat \ {0} /\ CmNum \in Nat \ {0} /\ m \in Nat /\ m <= CmNum - 1
      /\ n % Weight \in 0 .. Weight - 1
  BY DEF OffersAssumption, Cm
<1> DEFINE k == n % Weight
<1> HIDE DEF k
<1>2. (Weight * m + k) \div Weight = m
  BY <1>1, ManagerOfId DEF k
<1>3. Weight * m + k \in 0 .. CmNum * Weight - 1
  <2>1. PICK d \in Nat : CmNum = m + 1 + d
    BY <1>1
  <2>2. CmNum * Weight = Weight * m + Weight + Weight * d
    BY <1>1, <2>1
  <2>3. Weight * d >= 0 /\ Weight * m >= 0
    BY <1>1
  <2>4. Weight * m \in Int /\ Weight * d \in Int /\ k \in 0 .. Weight - 1
    BY <1>1 DEF k
  <2> QED  BY <1>1, <2>2, <2>3, <2>4
<1> QED  BY <1>2, <1>3 DEF NewId, Route, Id, k

-----------------------------------------------------------------------------
(* Type correctness.                                                       *)

Assigning == [on : BOOLEAN, id : Id \cup {-1}, ttl : 0 .. Ttl,
              offers : SUBSET Job, home : Cm, life : Nat]
JobTypes ==
  /\ job \in [Job -> {"new", "in", "gone"}] /\ left \in [Job -> 0 .. MaxPlaces]
  /\ \A j \in Job : left[j] > 0 => job[j] = "in"
  /\ line \in Seq(Job)
ManagerTypes ==
  /\ num \in [Cm -> Nat] /\ spec \in [Cm -> [Id -> Class \cup {NoSpec}]]
  /\ temp \in [Cm -> [Id -> Temp]] /\ life \in [Cm -> Nat]
RestTypes == <<mode, cms>> \in Config /\ idx \in Cm /\ checkins \in Nat /\ faults \in Nat

LEMMA TypeParts ==
  TypeOK <=> JobTypes /\ ManagerTypes /\ RestTypes /\ client \in [Client -> Assigning]
  BY DEF TypeOK, JobTypes, ManagerTypes, RestTypes, Assigning

LEMMA TypePartsNext ==
  TypeOK' <=> JobTypes' /\ ManagerTypes' /\ RestTypes' /\ (client \in [Client -> Assigning])'
  BY TypeParts, PTL

LEMMA Constants ==
  /\ CmNum \in Nat \ {0} /\ Weight \in Nat \ {0} /\ MaxPlaces \in Nat \ {0} /\ Ttl \in Nat
  /\ 0 \in Cm /\ Cm \subseteq Nat /\ NoTemp \in Temp /\ NotAssigning \in Assigning
  /\ ClassOf \in [Client -> Class] /\ KeyOf \in [Job -> Key] /\ NoTemp.jobs = {}
<1>1. /\ CmNum \in Nat \ {0} /\ Weight \in Nat \ {0} /\ MaxPlaces \in Nat \ {0} /\ Ttl \in Nat
      /\ ClassOf \in [Client -> Class] /\ KeyOf \in [Job -> Key]
  BY OffersAssumption DEF OffersAssumption
<1>2. 0 \in Cm /\ Cm \subseteq Nat /\ NoTemp \in Temp
  BY <1>1 DEF Cm, NoTemp, Temp
<1>3. NotAssigning \in Assigning
  BY <1>1, <1>2 DEF NotAssigning, Assigning
<1> QED  BY <1>1, <1>2, <1>3 DEF NoTemp

LEMMA Managers ==
  ASSUME RestTypes
  PROVE  cms \in Nat \ {0} /\ cms <= CmNum /\ 0 .. cms - 1 \subseteq Cm
<1>1. cms \in 1 .. CmNum
  BY OffersAssumption DEF OffersAssumption, RestTypes
<1> QED  BY <1>1, Constants DEF Cm

LEMMA TypeInit == Init => TypeOK
<1> SUFFICES ASSUME Init PROVE TypeOK
  OBVIOUS
<1>1. /\ job = [j \in Job |-> "new"] /\ left = [j \in Job |-> 0] /\ line = <<>> /\ idx = 0
      /\ num = [m \in Cm |-> 0] /\ spec = [m \in Cm |-> [i \in Id |-> NoSpec]]
      /\ temp = [m \in Cm |-> [i \in Id |-> NoTemp]] /\ client = [c \in Client |-> NotAssigning]
      /\ life = [m \in Cm |-> 0] /\ checkins = 0 /\ faults = 0
  BY DEF Init
<1>2. <<mode, cms>> \in Config
  <2>1. PICK c \in Config : mode = c[1] /\ cms = c[2]
    BY DEF Init
  <2>2. c \in {"online", "fifo", "irs"} \X (1 .. CmNum)
    BY OffersAssumption DEF OffersAssumption
  <2>3. c = <<c[1], c[2]>>
    BY <2>2
  <2> QED  BY <2>1, <2>3
<1>3. JobTypes
  BY <1>1, Constants DEF JobTypes
<1>4. ManagerTypes
  BY <1>1, Constants DEF ManagerTypes
<1>5. RestTypes
  BY <1>1, <1>2, Constants DEF RestTypes
<1>6. client \in [Client -> Assigning]
  BY <1>1, Constants
<1> QED  BY <1>3, <1>4, <1>5, <1>6, TypeParts

LEMMA JobStepTypes ==
  ASSUME TypeOK, NEW j \in Job, JobStep(j)
  PROVE  JobTypes' /\ UNCHANGED <<config, idx, managers, client, checkins, faults>>
<1>1. /\ job \in [Job -> {"new", "in", "gone"}] /\ left \in [Job -> 0 .. MaxPlaces]
      /\ \A i \in Job : left[i] > 0 => job[i] = "in"
      /\ line \in Seq(Job)
  BY TypeParts DEF JobTypes
<1>2. CASE JobEnters(j)
  <2>1. job' = [job EXCEPT ![j] = "in"] /\ left' = left
    BY <1>2 DEF JobEnters
  <2>2. line' \in Seq(Job)
    <3>1. PICK kept : kept = Kept(line, {x \in Job : Exists(x)})
      OBVIOUS
    <3>2. kept \in Seq(Job \cap {x \in Job : Exists(x)})
      BY <1>1, <3>1, KeptType
    <3>3. kept \in Seq(Job)
      BY <3>2
    <3>4. Append(kept, j) \in Seq(Job)
      BY <3>3, AppendProperties
    <3>5. line' = Append(kept, j) \/ line' = line
      BY <1>2, <3>1 DEF JobEnters
    <3> QED  BY <1>1, <3>4, <3>5
  <2> QED  BY <1>1, <1>2, <2>1, <2>2 DEF JobTypes, JobEnters
<1>3. CASE JobOpens(j)
  BY <1>1, <1>3, Constants DEF JobOpens, JobTypes, Exists, managers
<1>4. CASE JobEndsRound(j)
  BY <1>1, <1>4, Constants DEF JobEndsRound, JobTypes, managers
<1>5. CASE JobLeaves(j)
  BY <1>1, <1>5, Constants DEF JobLeaves, JobTypes, managers
<1> QED  BY <1>2, <1>3, <1>4, <1>5 DEF JobStep

(* An entry of a database of a client manager.                             *)
LEMMA Entry ==
  ASSUME NEW V, NEW f \in [Cm -> [Id -> V]], NEW m \in Cm, NEW i \in Id, NEW v \in V
  PROVE  LET g == [f EXCEPT ![m][i] = v] IN
         /\ g \in [Cm -> [Id -> V]] /\ g[m][i] = v
         /\ \A n \in Cm, k \in Id : n # m \/ k # i => g[n][k] = f[n][k]
  OBVIOUS

(* What a client is offered is of what there is to offer.                  *)
LEMMA CutToSubset == \A from : \A o \in CutTo(from) : o \subseteq from
  BY DEF CutTo

(* What a step may do with the offers and databases, when nobody checks    *)
(* in: clients end or get sound offers, entries expire or are bound to     *)
(* jobs that suit them, client managers start again.                       *)
ClientsGoOn == \A c \in Client : client'[c].on =>
  /\ client[c].on /\ client'[c].id = client[c].id /\ client'[c].home = client[c].home
  /\ client'[c].life = client[c].life
  /\ \/ client'[c].offers \subseteq client[c].offers
     \/ SameLife(c) => \A j \in client'[c].offers : Satisfies(ClassOf[c], j)
StoresGoOn ==
  /\ \A m \in Cm : life[m] <= life'[m]
  /\ \A m \in Cm, i \in Id :
       /\ spec'[m][i] \in {spec[m][i], NoSpec}
       /\ \/ temp'[m][i] = NoTemp
          \/ /\ temp[m][i] # NoTemp /\ temp'[m][i].class = temp[m][i].class
             /\ \A j \in temp'[m][i].jobs : Satisfies(temp[m][i].class, j)

LEMMA GoesOn ==
  ASSUME OffersInv, TypeOK', mode' = mode, ClientsGoOn, StoresGoOn
  PROVE  OffersInv'
<1>0. TypeOK /\ ClientInv /\ TempInv /\ OffersSound /\ IdsApart
  BY DEF OffersInv
<1>1. /\ client \in [Client -> Assigning] /\ life \in [Cm -> Nat] /\ life' \in [Cm -> Nat]
  BY <1>0 DEF TypeOK, Assigning
<1>2. ASSUME NEW c \in Client, client'[c].on
      PROVE  /\ client[c].on /\ client[c].home \in Cm /\ client[c].id \in Id
             /\ client[c].life \in Nat /\ client[c].life <= life[client[c].home]
             /\ Route(client[c].id) = client[c].home
             /\ client'[c].id = client[c].id /\ client'[c].home = client[c].home
             /\ client'[c].life = client[c].life
  <2>1. client[c] \in Assigning
    BY <1>1
  <2>2. client[c].home \in Cm /\ client[c].life \in Nat
    BY <2>1 DEF Assigning
  <2> QED  BY <1>0, <1>2, <2>2 DEF ClientsGoOn, ClientInv, IdsApart
<1>3. ASSUME NEW c \in Client, SameLife(c)'
      PROVE  SameLife(c) /\ client'[c].on
  <2>1. client'[c].on /\ client'[c].life = life'[client'[c].home]
    BY <1>3 DEF SameLife
  <2>2. life[client[c].home] <= life'[client[c].home]
    BY <1>2, <2>1 DEF StoresGoOn
  <2>3. life[client[c].home] \in Nat /\ life'[client[c].home] \in Nat
    BY <1>1, <1>2, <2>1
  <2>4. client[c].life = life[client[c].home]
    BY <1>2, <2>1, <2>2, <2>3
  <2> QED  BY <1>2, <2>1, <2>4 DEF SameLife
<1>4. ClientInv'
  <2>1. ASSUME NEW c \in Client, client'[c].on
        PROVE  client'[c].id \in Id /\ client'[c].life <= life'[client'[c].home]
    <3>1. life[client[c].home] <= life'[client[c].home]
      BY <1>2, <2>1 DEF StoresGoOn
    <3>2. life[client[c].home] \in Nat /\ life'[client[c].home] \in Nat
      BY <1>1, <1>2, <2>1
    <3> QED  BY <1>2, <2>1, <3>1, <3>2
  <2>2. ASSUME NEW c \in Client, SameLife(c)', NEW m, NEW i, m = client'[c].home, i = client'[c].id
        PROVE  /\ spec'[m][i] \in {ClassOf[c], NoSpec}
               /\ mode' # "online" => temp'[m][i] = NoTemp \/ temp'[m][i].class = ClassOf[c]
    <3>1. m \in Cm /\ i \in Id /\ SameLife(c) /\ m = client[c].home /\ i = client[c].id
      BY <1>2, <1>3, <2>2
    <3>2. /\ spec[m][i] \in {ClassOf[c], NoSpec}
          /\ mode # "online" => temp[m][i] = NoTemp \/ temp[m][i].class = ClassOf[c]
      BY <1>0, <3>1 DEF ClientInv, ClassAt
    <3> QED  BY <3>1, <3>2 DEF StoresGoOn
  <2> QED  BY <2>1, <2>2 DEF ClientInv, ClassAt
<1>5. TempInv'
  <2>1. ASSUME NEW m \in Cm, NEW i \in Id, NEW j \in temp'[m][i].jobs
        PROVE  Satisfies(temp'[m][i].class, j)
    BY Constants DEF StoresGoOn
  <2> QED  BY <2>1 DEF TempInv, ClassAt
<1>6. OffersSound'
  <2>1. ASSUME NEW c \in Client, SameLife(c)', NEW j \in client'[c].offers
        PROVE  Satisfies(ClassOf[c], j)
    BY <1>0, <1>3, <2>1 DEF ClientsGoOn, OffersSound
  <2> QED  BY <2>1 DEF OffersSound
<1>7. IdsApart'
  <2>1. \A c \in Client : client'[c].on => Route(client'[c].id) = client'[c].home
    BY <1>2
  <2>2. ASSUME NEW c \in Client, NEW d \in Client, SameLife(c)', SameLife(d)',
               client'[c].id = client'[d].id
        PROVE  c = d
    BY <1>0, <1>2, <1>3, <2>2 DEF IdsApart
  <2> QED  BY <2>1, <2>2 DEF IdsApart
<1> QED  BY <1>4, <1>5, <1>6, <1>7 DEF OffersInv

-----------------------------------------------------------------------------
(* The steps, one lemma each: types, and what GoesOn asks for.             *)

LEMMA StoresAsBefore ==
  ASSUME OffersInv, UNCHANGED managers
  PROVE  StoresGoOn
<1>1. TempInv /\ life \in [Cm -> Nat]
  BY DEF OffersInv, TypeOK
<1>2. ASSUME NEW m \in Cm, NEW i \in Id
      PROVE  temp[m][i] = NoTemp \/ \A k \in temp[m][i].jobs : Satisfies(temp[m][i].class, k)
  BY <1>1 DEF TempInv, ClassAt
<1> QED  BY <1>1, <1>2 DEF StoresGoOn, managers

LEMMA JobStepGoesOn ==
  ASSUME OffersInv, NEW j \in Job, JobStep(j)
  PROVE  OffersInv'
<1>1. TypeOK
  BY DEF OffersInv
<1>2. JobTypes' /\ UNCHANGED <<config, idx, managers, client, checkins, faults>>
  BY <1>1, JobStepTypes
<1>3. TypeOK'
  <2>1. ManagerTypes /\ RestTypes /\ client \in [Client -> Assigning]
    BY <1>1, TypeParts
  <2>2. ManagerTypes' /\ RestTypes' /\ (client \in [Client -> Assigning])'
    BY <1>2, <2>1 DEF ManagerTypes, RestTypes, config, managers
  <2> QED  BY <1>2, <2>2, TypePartsNext
<1>4. ClientsGoOn
  BY <1>2 DEF ClientsGoOn
<1>5. StoresGoOn
  BY <1>2, StoresAsBefore
<1> QED  BY <1>2, <1>3, <1>4, <1>5, GoesOn DEF config

(* What a client manager finds about a client that pings.                  *)
LEMMA FoundOnline ==
  ASSUME OffersInv, NEW c \in Client, SameLife(c),
         NEW o \in Assigned(SpecOf(Route(client[c].id), client[c].id)), NEW j \in o
  PROVE  Satisfies(ClassOf[c], j)
<1> DEFINE m == client[c].home
           i == client[c].id
<1>1. Route(i) = m /\ spec[m][i] \in {ClassOf[c], NoSpec}
  BY DEF OffersInv, IdsApart, ClientInv, SameLife
<1>2. j \in Job /\ Satisfies(SpecOf(m, i), j)
  BY <1>1, CutToSubset DEF Assigned
<1>3. SpecOf(m, i) \in {ClassOf[c], Zero}
  BY <1>1 DEF SpecOf
<1>4. KeyOf[j] \in Key /\ ClassOf[c] \in Class
  BY <1>2, Constants
<1>5. Zero \in Eligible[KeyOf[j]] => ClassOf[c] \in Eligible[KeyOf[j]]
  BY <1>4, OffersAssumption DEF OffersAssumption
<1> QED  BY <1>2, <1>3, <1>5 DEF Satisfies

LEMMA FoundOffline ==
  ASSUME OffersInv, mode # "online", NEW c \in Client, SameLife(c),
         NEW o \in Bound(Route(client[c].id), client[c].id), NEW j \in o
  PROVE  Satisfies(ClassOf[c], j)
<1> DEFINE m == client[c].home
           i == client[c].id
<1>1. /\ Route(i) = m /\ i \in Id
      /\ temp[m][i] = NoTemp \/ ClassAt(m, i) = ClassOf[c]
  BY DEF OffersInv, IdsApart, ClientInv, SameLife
<1>2. j \in temp[m][i].jobs
  BY <1>1, CutToSubset DEF Bound
<1>3. client[c] \in Assigning /\ m \in Cm
  <2>1. client[c] \in Assigning
    BY TypeParts DEF OffersInv
  <2> QED  BY <2>1 DEF Assigning
<1>4. Satisfies(ClassAt(m, i), j)
  BY <1>1, <1>2, <1>3 DEF OffersInv, TempInv
<1>5. temp[m][i] # NoTemp
  BY <1>2, Constants
<1> QED  BY <1>1, <1>4, <1>5

(* A client changes at most its offers and its attempts, or ends.          *)
LEMMA AClientGoesOn ==
  ASSUME OffersInv, NEW c \in Client, UNCHANGED <<config, idx, num, spec, life>>,
         JobTypes', temp' \in [Cm -> [Id -> Temp]], StoresGoOn, checkins' \in Nat, faults' \in Nat,
         \/ client' = [client EXCEPT ![c] = NotAssigning]
         \/ \E o \in SUBSET Job, t \in 0 .. Ttl :
              /\ client' = [client EXCEPT ![c].offers = o, ![c].ttl = t]
              /\ client[c].on
              /\ SameLife(c) => \A j \in o : Satisfies(ClassOf[c], j)
  PROVE  OffersInv'
<1>1. TypeOK /\ client \in [Client -> Assigning] /\ ManagerTypes /\ RestTypes
  BY TypeParts DEF OffersInv
<1>2. client[c] \in Assigning
  BY <1>1
<1>3. (client \in [Client -> Assigning])' /\ ClientsGoOn
  <2>1. CASE client' = [client EXCEPT ![c] = NotAssigning]
    <3>1. client' \in [Client -> Assigning]
      BY <1>1, <2>1, Constants
    <3>2. ~ client'[c].on
      BY <1>1, <2>1 DEF NotAssigning
    <3> QED  BY <1>1, <2>1, <3>1, <3>2 DEF ClientsGoOn, Assigning
  <2>2. ASSUME NEW o \in SUBSET Job, NEW t \in 0 .. Ttl,
               client' = [client EXCEPT ![c].offers = o, ![c].ttl = t], client[c].on,
               SameLife(c) => \A j \in o : Satisfies(ClassOf[c], j)
        PROVE  (client \in [Client -> Assigning])' /\ ClientsGoOn
    <3>1. PICK v : v = [client[c] EXCEPT !.offers = o, !.ttl = t]
      OBVIOUS
    <3>2. v \in Assigning
      BY <1>2, <2>2, <3>1 DEF Assigning
    <3>3. /\ v.on = client[c].on /\ v.id = client[c].id /\ v.home = client[c].home
          /\ v.life = client[c].life /\ v.offers = o
      BY <1>2, <3>1 DEF Assigning
    <3>4. client' = [client EXCEPT ![c] = v]
      BY <1>1, <2>2, <3>1
    <3>5. client'[c] = v /\ \A d \in Client : d # c => client'[d] = client[d]
      BY <1>1, <3>4
    <3>6. client' \in [Client -> Assigning]
      BY <1>1, <3>2, <3>4
    <3> HIDE DEF Assigning
    <3> QED  BY <2>2, <3>3, <3>5, <3>6 DEF ClientsGoOn, Assigning
  <2> QED  BY <2>1, <2>2
<1>4. TypeOK'
  BY <1>1, <1>3, TypePartsNext DEF ManagerTypes, RestTypes, config
<1> QED  BY <1>3, <1>4, GoesOn DEF config

LEMMA AssignStepGoesOn ==
  ASSUME OffersInv, NEW c \in Client, AssignStep(c) \/ Fails(c)
  PROVE  OffersInv'
<1>1. TypeOK /\ JobTypes /\ ManagerTypes /\ RestTypes /\ client \in [Client -> Assigning]
  BY TypeParts DEF OffersInv
<1>2. client[c] \in Assigning
  BY <1>1
<1>3. /\ client[c].ttl \in 0 .. Ttl /\ client[c].offers \in SUBSET Job
      /\ Ttl \in Nat /\ faults \in Nat /\ checkins \in Nat
  BY <1>1, <1>2, Constants DEF Assigning, RestTypes
<1>4. ASSUME UNCHANGED jobs PROVE JobTypes'
  BY <1>1, <1>4 DEF JobTypes, jobs
<1>5. ASSUME UNCHANGED managers
      PROVE  /\ StoresGoOn /\ temp' \in [Cm -> [Id -> Temp]]
             /\ UNCHANGED <<num, spec, life>>
  BY <1>1, <1>5, StoresAsBefore DEF ManagerTypes, managers
<1>6. CASE Ping(c)
  <2>1. PICK o \in IF mode = "online"
                   THEN Assigned(SpecOf(Route(client[c].id), client[c].id))
                   ELSE Bound(Route(client[c].id), client[c].id) :
          client' = [client EXCEPT ![c].offers = o, ![c].ttl = @ - 1]
    BY <1>6 DEF Ping
  <2>2. client[c].on /\ client[c].ttl - 1 \in 0 .. Ttl
    BY <1>3, <1>6 DEF Ping, NeedsOffer
  <2>3. client' = [client EXCEPT ![c].offers = o, ![c].ttl = client[c].ttl - 1]
    BY <1>1, <2>1
  <2>4. /\ o \in SUBSET Job
        /\ SameLife(c) => \A j \in o : Satisfies(ClassOf[c], j)
    <3>1. CASE mode = "online"
      <4>1. o \in Assigned(SpecOf(Route(client[c].id), client[c].id))
        BY <2>1, <3>1
      <4>2. o \in SUBSET Job
        BY <4>1, CutToSubset DEF Assigned
      <4>3. SameLife(c) => \A j \in o : Satisfies(ClassOf[c], j)
        BY <4>1, FoundOnline
      <4> QED  BY <4>2, <4>3
    <3>2. CASE mode # "online"
      <4>1. o \in Bound(Route(client[c].id), client[c].id)
        BY <2>1, <3>2
      <4>2. o \in SUBSET Job
        <5>1. Route(client[c].id) \in Cm /\ client[c].id \in Id
          BY <1>1, <1>2, <2>2 DEF OffersInv, IdsApart, ClientInv, Assigning
        <5>2. temp[Route(client[c].id)][client[c].id] \in Temp
          BY <1>1, <5>1 DEF ManagerTypes
        <5>3. temp[Route(client[c].id)][client[c].id].jobs \in SUBSET Job
          BY <5>2 DEF Temp
        <5> QED  BY <4>1, <5>3, CutToSubset DEF Bound
      <4>3. SameLife(c) => \A j \in o : Satisfies(ClassOf[c], j)
        BY <3>2, <4>1, FoundOffline
      <4> QED  BY <4>2, <4>3
    <3> QED  BY <3>1, <3>2
  <2>5. UNCHANGED <<config, jobs, idx, managers, checkins, faults>>
    BY <1>6 DEF Ping
  <2> QED  BY <1>3, <1>4, <1>5, <2>2, <2>3, <2>4, <2>5, AClientGoesOn
<1>7. ASSUME TriesOn(c), client[c].on, UNCHANGED <<config, jobs, idx, managers, checkins, faults>>
      PROVE  OffersInv'
  <2>1. \E t \in 0 .. Ttl : client' = [client EXCEPT ![c].offers = {}, ![c].ttl = t]
    <3>1. client' = [client EXCEPT ![c].offers = {}]
      BY <1>7 DEF TriesOn
    <3>2. PICK t \in 0 .. Ttl : t = client[c].ttl
      BY <1>3
    <3>3. [client[c] EXCEPT !.offers = {}] = [client[c] EXCEPT !.offers = {}, !.ttl = t]
      BY <1>2, <3>2 DEF Assigning
    <3>4. [client EXCEPT ![c] = [client[c] EXCEPT !.offers = {}]]
            = [client EXCEPT ![c] = [client[c] EXCEPT !.offers = {}, !.ttl = t]]
      BY <3>3
    <3>5. client' = [client EXCEPT ![c].offers = {}, ![c].ttl = t]
      BY <1>1, <3>1, <3>4
    <3> QED  BY <3>2, <3>5
  <2>2. \E o \in SUBSET Job, t \in 0 .. Ttl :
          /\ client' = [client EXCEPT ![c].offers = o, ![c].ttl = t]
          /\ client[c].on
          /\ SameLife(c) => \A j \in o : Satisfies(ClassOf[c], j)
    <3>1. PICK t \in 0 .. Ttl : client' = [client EXCEPT ![c].offers = {}, ![c].ttl = t]
      BY <2>1
    <3>2. PICK o : o = {}
      OBVIOUS
    <3>3. o \in SUBSET Job /\ \A j \in o : Satisfies(ClassOf[c], j)
      BY <3>2
    <3>4. client' = [client EXCEPT ![c].offers = o, ![c].ttl = t]
      BY <3>1, <3>2
    <3> QED  BY <1>7, <3>3, <3>4
  <2>3. JobTypes' /\ StoresGoOn /\ temp' \in [Cm -> [Id -> Temp]]
        /\ UNCHANGED <<config, idx, num, spec, life>> /\ checkins' \in Nat /\ faults' \in Nat
    BY <1>3, <1>4, <1>5, <1>7
  <2> QED  BY <2>2, <2>3, AClientGoesOn
<1>8. CASE SelectNone(c)
  BY <1>7, <1>8 DEF SelectNone
<1>9. CASE Refused(c)
  BY <1>7, <1>9 DEF Refused
<1>10. CASE Ends(c) \/ Fails(c)
  <2>1. /\ Stops(c) /\ UNCHANGED <<config, jobs, idx, managers, checkins>>
        /\ faults' \in Nat
    BY <1>3, <1>10 DEF Ends, Fails, Fault
  <2> QED  BY <1>3, <1>4, <1>5, <2>1, AClientGoesOn DEF Stops
<1>11. CASE Accept(c)
  <2>1. PICK j \in client[c].offers \cap Suits[c] :
          /\ client[c].on /\ Open(j)
          /\ left' = [left EXCEPT ![j] = @ - 1]
          /\ temp' = [temp EXCEPT ![Route(client[c].id)][client[c].id] = NoTemp]
          /\ Stops(c)
          /\ UNCHANGED <<config, job, line, idx, num, spec, life, checkins, faults>>
    BY <1>11 DEF Accept
  <2>2. j \in Job /\ left[j] \in 0 .. MaxPlaces /\ left[j] > 0
    BY <1>1, <1>3, <2>1 DEF JobTypes, Open
  <2>3. JobTypes'
    <3>1. left' \in [Job -> 0 .. MaxPlaces]
      BY <1>1, <2>1, <2>2, Constants DEF JobTypes
    <3>2. \A k \in Job : left'[k] > 0 => left[k] > 0
      BY <1>1, <2>1, <2>2, Constants DEF JobTypes
    <3> QED  BY <1>1, <2>1, <3>1, <3>2 DEF JobTypes
  <2>4. PICK m \in Cm, i \in Id : m = Route(client[c].id) /\ i = client[c].id
    BY <1>1, <1>2, <2>1 DEF OffersInv, IdsApart, ClientInv, Assigning
  <2>5. temp' = [temp EXCEPT ![m][i] = NoTemp]
    BY <2>1, <2>4
  <2>6. /\ temp' \in [Cm -> [Id -> Temp]] /\ temp'[m][i] = NoTemp
        /\ \A n \in Cm, k \in Id : n # m \/ k # i => temp'[n][k] = temp[n][k]
    BY <1>1, <2>5, Entry, Constants DEF ManagerTypes
  <2>7. StoresGoOn
    <3>1. ASSUME NEW n \in Cm, NEW k \in Id
          PROVE  \/ temp'[n][k] = NoTemp
                 \/ /\ temp[n][k] # NoTemp /\ temp'[n][k].class = temp[n][k].class
                    /\ \A x \in temp'[n][k].jobs : Satisfies(temp[n][k].class, x)
      <4>1. CASE n = m /\ k = i
        BY <2>6, <4>1
      <4>2. CASE n # m \/ k # i
        BY <2>6, <4>2 DEF OffersInv, TempInv, ClassAt
      <4> QED  BY <4>1, <4>2
    <3> QED  BY <1>1, <2>1, <3>1 DEF StoresGoOn, ManagerTypes
  <2> QED  BY <1>3, <2>1, <2>3, <2>6, <2>7, AClientGoesOn DEF Stops
<1> QED  BY <1>6, <1>8, <1>9, <1>10, <1>11 DEF AssignStep

(* A step of the client managers.                                          *)
LEMMA StoresGoOnSuffices ==
  ASSUME OffersInv, UNCHANGED <<config, jobs, client, checkins>>, idx' = idx,
         num' \in [Cm -> Nat], life' \in [Cm -> Nat], faults' \in Nat,
         spec' \in [Cm -> [Id -> Class \cup {NoSpec}]], temp' \in [Cm -> [Id -> Temp]],
         StoresGoOn
  PROVE  OffersInv'
<1>1. JobTypes /\ RestTypes /\ client \in [Client -> Assigning]
  BY TypeParts DEF OffersInv
<1>2. JobTypes' /\ RestTypes' /\ (client \in [Client -> Assigning])' /\ ManagerTypes'
  BY <1>1 DEF JobTypes, RestTypes, ManagerTypes, config, jobs
<1>3. TypeOK'
  BY <1>2, TypePartsNext
<1>4. ClientsGoOn
  BY DEF ClientsGoOn
<1> QED  BY <1>3, <1>4, GoesOn DEF config

(* The jobs that a round of binding gives to the clients of a store.       *)
LEMMA BindGoesOn ==
  ASSUME OffersInv, NEW m \in Cm, NEW bound, Bind(m, bound),
         UNCHANGED <<config, jobs, idx, num, spec, life, client, checkins, faults>>,
         DOMAIN bound = Stored(m),
         \A i \in Stored(m) : /\ bound[i] \in SUBSET Job
                              /\ \A j \in bound[i] : Satisfies(ClassAt(m, i), j)
  PROVE  OffersInv'
<1>1. ManagerTypes /\ RestTypes /\ TempInv
  BY TypeParts DEF OffersInv
<1>2. temp \in [Cm -> [Id -> Temp]] /\ life \in [Cm -> Nat] /\ faults \in Nat
  BY <1>1 DEF ManagerTypes, RestTypes
<1> DEFINE store == [i \in Id |-> [class |-> ClassAt(m, i),
                       jobs |-> IF i \in DOMAIN bound THEN bound[i] ELSE temp[m][i].jobs]]
<1>3. temp' = [temp EXCEPT ![m] = store]
  BY DEF Bind
<1>4. ASSUME NEW i \in Id
      PROVE  /\ store[i] \in Temp
             /\ i \notin Stored(m) => store[i] = NoTemp
             /\ i \in Stored(m) => /\ temp[m][i] # NoTemp
                                   /\ store[i].class = temp[m][i].class
                                   /\ store[i].jobs = bound[i]
  <2>1. temp[m][i] \in Temp
    BY <1>2
  <2>2. temp[m][i].class \in Class \cup {NoSpec} /\ temp[m][i].jobs \in SUBSET Job
    BY <2>1 DEF Temp
  <2>3. CASE i \in Stored(m)
    <3>1. store[i] = [class |-> temp[m][i].class, jobs |-> bound[i]]
      BY <2>3 DEF ClassAt
    <3>2. temp[m][i] # NoTemp
      BY <2>3 DEF Stored
    <3> HIDE DEF store
    <3> QED  BY <2>2, <2>3, <3>1, <3>2 DEF Temp
  <2>4. CASE i \notin Stored(m)
    <3>1. temp[m][i] = NoTemp
      BY <2>4 DEF Stored
    <3>2. store[i] = [class |-> NoTemp.class, jobs |-> NoTemp.jobs]
      BY <2>4, <3>1 DEF ClassAt
    <3>3. store[i] = NoTemp
      BY <3>2 DEF NoTemp
    <3> HIDE DEF store
    <3> QED  BY <2>4, <3>3, Constants
  <2> QED  BY <2>3, <2>4
<1>5. store \in [Id -> Temp]
  BY <1>4
<1> HIDE DEF store
<1>6. /\ temp' \in [Cm -> [Id -> Temp]] /\ temp'[m] = store
      /\ \A n \in Cm : n # m => temp'[n] = temp[n]
  BY <1>2, <1>3, <1>5
<1>7. StoresGoOn
  <2>1. ASSUME NEW n \in Cm, NEW i \in Id
        PROVE  \/ temp'[n][i] = NoTemp
               \/ /\ temp[n][i] # NoTemp /\ temp'[n][i].class = temp[n][i].class
                  /\ \A j \in temp'[n][i].jobs : Satisfies(temp[n][i].class, j)
    <3>1. CASE n = m
      BY <1>4, <1>6, <3>1 DEF ClassAt
    <3>2. CASE n # m
      BY <1>1, <1>6, <3>2 DEF TempInv, ClassAt
    <3> QED  BY <3>1, <3>2
  <2> QED  BY <1>2, <2>1 DEF StoresGoOn
<1> QED  BY <1>1, <1>2, <1>6, <1>7, StoresGoOnSuffices DEF ManagerTypes

LEMMA BindFifoGoesOn ==
  ASSUME OffersInv, NEW m \in Cm, BindFifo(m)
  PROVE  OffersInv'
<1> DEFINE n == Cardinality(Stored(m))
           r == Kept(line, {j \in Job : Exists(j) /\ Open(j)})
<1>1. \E order \in [1 .. n -> Stored(m)], from \in [1 .. n + 1 -> 1 .. Len(r) + 1],
         gone \in 0 .. Len(r) :
        Bind(m, Iterated(m, r, n, order, from, gone))
  BY Zenon DEF BindFifo
<1>2. UNCHANGED <<config, jobs, idx, num, spec, life, client, checkins, faults>>
  BY DEF BindFifo
<1>3. r \in Seq(Job)
  <2>1. line \in Seq(Job)
    BY DEF OffersInv, TypeOK
  <2>2. r \in Seq(Job \cap {j \in Job : Exists(j) /\ Open(j)})
    BY <2>1, KeptType
  <2> HIDE DEF r
  <2> QED  BY <2>2
<1> HIDE DEF n, r
<1>4. PICK order \in [1 .. n -> Stored(m)], from \in [1 .. n + 1 -> 1 .. Len(r) + 1],
           gone \in 0 .. Len(r) :
        Bind(m, Iterated(m, r, n, order, from, gone))
  BY <1>1, Zenon
<1>5. ASSUME NEW i \in Stored(m), NEW f, NEW y \in Taken(Fits(ClassAt(m, i), r), f, Len(r))
      PROVE  r[y] \in Job /\ Satisfies(ClassAt(m, i), r[y])
  <2>1. y \in Fits(ClassAt(m, i), r)
    BY <1>5 DEF Taken
  <2>2. y \in 1 .. Len(r) /\ Satisfies(ClassAt(m, i), r[y])
    BY <2>1 DEF Fits
  <2> QED  BY <1>3, <2>2
<1>6. ASSUME NEW i \in Stored(m)
      PROVE  temp[m][i].jobs \in SUBSET Job /\ \A j \in temp[m][i].jobs : Satisfies(ClassAt(m, i), j)
  <2>1. temp \in [Cm -> [Id -> Temp]] /\ TempInv
    BY DEF OffersInv, TypeOK
  <2>2. i \in Id
    BY DEF Stored
  <2>3. temp[m][i] \in Temp
    BY <2>1, <2>2
  <2>4. temp[m][i].jobs \in SUBSET Job
    BY <2>3 DEF Temp
  <2> QED  BY <2>1, <2>2, <2>4 DEF TempInv
<1>7. ASSUME NEW i \in Stored(m), NEW f
      PROVE  /\ Given(m, i, r, f, gone) \in SUBSET Job
             /\ \A j \in Given(m, i, r, f, gone) : Satisfies(ClassAt(m, i), j)
  <2>1. CASE gone \in Looks(Fits(ClassAt(m, i), r), f, Len(r))
    BY <1>6, <2>1 DEF Given
  <2>2. CASE gone \notin Looks(Fits(ClassAt(m, i), r), f, Len(r))
    BY <1>5, <2>2 DEF Given
  <2> QED  BY <2>1, <2>2
<1> DEFINE bound == Iterated(m, r, n, order, from, gone)
<1>8. DOMAIN bound = Stored(m) /\ Bind(m, bound)
  BY <1>4 DEF Iterated
<1>9. ASSUME NEW i \in Stored(m)
      PROVE  /\ bound[i] \in SUBSET Job
             /\ \A j \in bound[i] : Satisfies(ClassAt(m, i), j)
  BY <1>7 DEF Iterated
<1> HIDE DEF bound
<1> QED  BY <1>2, <1>8, <1>9, BindGoesOn

LEMMA BindIrsGoesOn ==
  ASSUME OffersInv, NEW m \in Cm, BindIrs(m)
  PROVE  OffersInv'
<1>1. PICK bound \in IrsBindings(m) : Bind(m, bound)
  BY DEF BindIrs
<1>2. UNCHANGED <<config, jobs, idx, num, spec, life, client, checkins, faults>>
  BY DEF BindIrs
<1>3. temp \in [Cm -> [Id -> Temp]] /\ TempInv
  BY DEF OffersInv, TypeOK
<1> DEFINE classes == {ClassAt(m, i) : i \in Stored(m)}
           rests == IF TierNum > 1 THEN SUBSET Stored(m) ELSE {{}}
<1>4. IrsBindings(m) = {Binding(m, list, group, front, rest) :
          list \in Lists, group \in GroupsOf(classes), front \in Job, rest \in rests}
  BY DEF IrsBindings
<1> HIDE DEF classes, rests
<1>5. \E list \in Lists, group \in GroupsOf(classes), front \in Job, rest \in rests :
        bound = Binding(m, list, group, front, rest)
  BY <1>1, <1>4
<1>6. PICK list \in Lists, group \in GroupsOf(classes), front \in Job, rest \in rests :
        bound = Binding(m, list, group, front, rest)
  BY <1>5
<1>7. DOMAIN bound = Stored(m)
  BY <1>6 DEF Binding
<1>8. ASSUME NEW i \in Stored(m)
      PROVE  /\ bound[i] \in SUBSET Job
             /\ \A j \in bound[i] : Satisfies(ClassAt(m, i), j)
  <2>1. PICK k : k = group[ClassAt(m, i)]
    OBVIOUS
  <2>2. bound[i] = IF k = NoGroup \/ (TierNum > 1 /\ list[k] = {}) THEN temp[m][i].jobs
                   ELSE IF i \in rest THEN list[k] \ {front} ELSE list[k]
    BY <1>6, <2>1 DEF Binding
  <2>3. /\ temp[m][i].jobs \in SUBSET Job
        /\ \A j \in temp[m][i].jobs : Satisfies(ClassAt(m, i), j)
    <3>1. i \in Id
      BY DEF Stored
    <3>2. temp[m][i] \in Temp
      BY <1>3, <3>1
    <3>3. temp[m][i].jobs \in SUBSET Job
      BY <3>2 DEF Temp
    <3> QED  BY <1>3, <3>1, <3>3 DEF TempInv
  <2>4. k # NoGroup => /\ list[k] \in SUBSET Job
                       /\ \A j \in list[k] : Satisfies(ClassAt(m, i), j)
    <3>1. ClassAt(m, i) \in classes
      BY DEF classes
    <3>2. k # NoGroup => k \in Key /\ ClassAt(m, i) \in Eligible[k]
      BY <2>1, <3>1 DEF GroupsOf
    <3>3. \A x \in Key : list[x] \in SUBSET Job /\ \A j \in list[x] : KeyOf[j] = x
      BY DEF Lists
    <3> QED  BY <3>2, <3>3 DEF Satisfies
  <2> QED  BY <2>2, <2>3, <2>4
<1> QED  BY <1>1, <1>2, <1>7, <1>8, BindGoesOn

LEMMA ExpireGoesOn ==
  ASSUME OffersInv, NEW m \in Cm, NEW i \in Id, ExpireSpec(m, i) \/ ExpireTemp(m, i)
  PROVE  OffersInv'
<1>1. ManagerTypes /\ RestTypes /\ TempInv
  BY TypeParts DEF OffersInv
<1>2. /\ num \in [Cm -> Nat] /\ spec \in [Cm -> [Id -> Class \cup {NoSpec}]]
      /\ temp \in [Cm -> [Id -> Temp]] /\ life \in [Cm -> Nat] /\ faults \in Nat
  BY <1>1 DEF ManagerTypes, RestTypes
<1>3. ASSUME NEW n \in Cm, NEW k \in Id
      PROVE  \/ temp[n][k] = NoTemp
             \/ /\ temp[n][k] # NoTemp
                /\ \A j \in temp[n][k].jobs : Satisfies(temp[n][k].class, j)
  BY <1>1 DEF TempInv, ClassAt
<1>4. UNCHANGED <<config, jobs, idx, num, life, client, checkins>> /\ faults' \in Nat
  BY <1>2 DEF ExpireSpec, ExpireTemp, Fault
<1>5. CASE ExpireSpec(m, i)
  <2>1. spec' = [spec EXCEPT ![m][i] = NoSpec] /\ temp' = temp
    BY <1>5 DEF ExpireSpec
  <2>2. /\ spec' \in [Cm -> [Id -> Class \cup {NoSpec}]] /\ spec'[m][i] = NoSpec
        /\ \A n \in Cm, k \in Id : n # m \/ k # i => spec'[n][k] = spec[n][k]
    BY <1>2, <2>1, Entry
  <2>3. \A n \in Cm, k \in Id : spec'[n][k] \in {spec[n][k], NoSpec}
    BY <2>2
  <2>4. StoresGoOn
    BY <1>2, <1>3, <1>4, <2>1, <2>3 DEF StoresGoOn
  <2> QED  BY <1>2, <1>4, <2>1, <2>2, <2>4, StoresGoOnSuffices
<1>6. CASE ExpireTemp(m, i)
  <2>1. temp' = [temp EXCEPT ![m][i] = NoTemp] /\ spec' = spec
    BY <1>6 DEF ExpireTemp
  <2>2. /\ temp' \in [Cm -> [Id -> Temp]] /\ temp'[m][i] = NoTemp
        /\ \A n \in Cm, k \in Id : n # m \/ k # i => temp'[n][k] = temp[n][k]
    BY <1>2, <2>1, Entry, Constants
  <2>3. ASSUME NEW n \in Cm, NEW k \in Id
        PROVE  \/ temp'[n][k] = NoTemp
               \/ /\ temp[n][k] # NoTemp /\ temp'[n][k].class = temp[n][k].class
                  /\ \A j \in temp'[n][k].jobs : Satisfies(temp[n][k].class, j)
    <3>1. CASE n = m /\ k = i
      BY <2>2, <3>1
    <3>2. CASE n # m \/ k # i
      BY <1>3, <2>2, <3>2
    <3> QED  BY <3>1, <3>2
  <2>4. StoresGoOn
    BY <1>2, <1>4, <2>1, <2>3 DEF StoresGoOn
  <2> QED  BY <1>2, <1>4, <2>1, <2>2, <2>4, StoresGoOnSuffices
<1> QED  BY <1>5, <1>6

LEMMA RestartGoesOn ==
  ASSUME OffersInv, NEW m \in Cm, ManagerRestarts(m)
  PROVE  OffersInv'
<1>1. ManagerTypes /\ RestTypes /\ TempInv
  BY TypeParts DEF OffersInv
<1>2. /\ num \in [Cm -> Nat] /\ spec \in [Cm -> [Id -> Class \cup {NoSpec}]]
      /\ temp \in [Cm -> [Id -> Temp]] /\ life \in [Cm -> Nat] /\ faults \in Nat
  BY <1>1 DEF ManagerTypes, RestTypes
<1> DEFINE none == [i \in Id |-> NoSpec]
           empty == [i \in Id |-> NoTemp]
<1>3. none \in [Id -> Class \cup {NoSpec}] /\ empty \in [Id -> Temp]
      /\ \A i \in Id : none[i] = NoSpec /\ empty[i] = NoTemp
  BY Constants
<1>4. /\ spec' = [spec EXCEPT ![m] = none] /\ temp' = [temp EXCEPT ![m] = empty]
      /\ life' = [life EXCEPT ![m] = life[m] + 1] /\ num' = [num EXCEPT ![m] = 0]
      /\ UNCHANGED <<config, jobs, idx, client, checkins>> /\ faults' \in Nat
  BY <1>2 DEF ManagerRestarts, Fault
<1> HIDE DEF none, empty
<1>5. /\ spec' \in [Cm -> [Id -> Class \cup {NoSpec}]] /\ temp' \in [Cm -> [Id -> Temp]]
      /\ spec'[m] = none /\ temp'[m] = empty
      /\ \A n \in Cm : n # m => spec'[n] = spec[n] /\ temp'[n] = temp[n]
  BY <1>2, <1>3, <1>4
<1>6. life' \in [Cm -> Nat] /\ num' \in [Cm -> Nat] /\ \A n \in Cm : life[n] <= life'[n]
  BY <1>2, <1>4
<1>7. StoresGoOn
  <2>1. ASSUME NEW n \in Cm, NEW i \in Id
        PROVE  /\ spec'[n][i] \in {spec[n][i], NoSpec}
               /\ \/ temp'[n][i] = NoTemp
                  \/ /\ temp[n][i] # NoTemp /\ temp'[n][i].class = temp[n][i].class
                     /\ \A j \in temp'[n][i].jobs : Satisfies(temp[n][i].class, j)
    <3>1. CASE n = m
      BY <1>3, <1>5, <3>1
    <3>2. CASE n # m
      BY <1>1, <1>5, <3>2 DEF TempInv, ClassAt
    <3> QED  BY <3>1, <3>2
  <2> QED  BY <1>6, <2>1 DEF StoresGoOn
<1> QED  BY <1>4, <1>5, <1>6, <1>7, StoresGoOnSuffices

-----------------------------------------------------------------------------
(* The check-in: the one step that writes an entry of a client.            *)

LEMMA CheckInGoesOn ==
  ASSUME OffersInv, NEW c \in Client, NEW heard \in BOOLEAN, CheckIn(c, heard)
  PROVE  OffersInv'
<1>1. /\ TypeOK /\ ClientInv /\ TempInv /\ OffersSound /\ IdsApart
      /\ JobTypes /\ ManagerTypes /\ RestTypes /\ client \in [Client -> Assigning]
  BY TypeParts DEF OffersInv
<1>2. /\ num \in [Cm -> Nat] /\ spec \in [Cm -> [Id -> Class \cup {NoSpec}]]
      /\ temp \in [Cm -> [Id -> Temp]] /\ life \in [Cm -> Nat]
      /\ faults \in Nat /\ checkins \in Nat /\ idx \in Nat
  BY <1>1, Constants DEF ManagerTypes, RestTypes
<1>3. PICK m : m = (idx + 1) % cms
  OBVIOUS
<1>4. m \in Cm
  BY <1>1, <1>2, <1>3, Managers
<1>5. PICK i : i = NewId(m, num[m])
  OBVIOUS
<1>6. i \in Id /\ Route(i) = m
  BY <1>2, <1>4, <1>5, NewIdIs, OffersAssumption
<1>7. /\ ~ client[c].on /\ EarlierEnded(m, i)
      /\ faults' \in Nat /\ checkins' \in Nat /\ idx' = m
      /\ num' = [num EXCEPT ![m] = num[m] + 1]
      /\ spec' = [spec EXCEPT ![m][i] = ClassOf[c]]
      /\ UNCHANGED <<config, jobs, life>>
  BY <1>2, <1>3, <1>5 DEF CheckIn, Fault
<1>8. \/ temp' = temp /\ mode = "online"
      \/ temp' = [temp EXCEPT ![m][i] = [class |-> ClassOf[c], jobs |-> {}]]
  BY <1>3, <1>5 DEF CheckIn
<1>9. PICK o \in (IF mode = "online" THEN Assigned(ClassOf[c]) ELSE {{}}) :
        client' = IF heard
                  THEN [client EXCEPT ![c] = [on |-> TRUE, id |-> i, ttl |-> Ttl, offers |-> o,
                                              home |-> m, life |-> life[m]]]
                  ELSE client
  BY <1>3, <1>5 DEF CheckIn
<1>10. o \in SUBSET Job /\ \A j \in o : Satisfies(ClassOf[c], j)
  <2>1. CASE mode = "online"
    BY <1>9, <2>1, CutToSubset DEF Assigned
  <2>2. CASE mode # "online"
    BY <1>9, <2>2
  <2> QED  BY <2>1, <2>2
<1>11. /\ (client \in [Client -> Assigning])'
       /\ \A d \in Client : d # c => client'[d] = client[d]
       /\ client'[c].on => /\ client'[c].id = i /\ client'[c].offers = o
                           /\ client'[c].home = m /\ client'[c].life = life[m]
  <2>1. CASE ~ heard
    BY <1>1, <1>7, <1>9, <2>1
  <2>2. CASE heard
    <3>1. PICK new : new = [on |-> TRUE, id |-> i, ttl |-> Ttl, offers |-> o,
                            home |-> m, life |-> life[m]]
      OBVIOUS
    <3>2. new \in Assigning
      <4>1. life[m] \in Nat /\ Ttl \in 0 .. Ttl
        BY <1>2, <1>4, Constants
      <4> QED  BY <1>4, <1>6, <1>10, <3>1, <4>1 DEF Assigning
    <3>3. client' = [client EXCEPT ![c] = new]
      BY <1>9, <2>2, <3>1
    <3>4. client'[c] = new /\ \A d \in Client : d # c => client'[d] = client[d]
      BY <1>1, <3>3
    <3>5. new.id = i /\ new.offers = o /\ new.home = m /\ new.life = life[m]
      BY <3>1
    <3> QED  BY <1>1, <3>2, <3>3, <3>4, <3>5
  <2> QED  BY <2>1, <2>2
<1>12. /\ spec' \in [Cm -> [Id -> Class \cup {NoSpec}]] /\ spec'[m][i] = ClassOf[c]
       /\ \A n \in Cm, k \in Id : n # m \/ k # i => spec'[n][k] = spec[n][k]
  <2>1. ClassOf[c] \in Class \cup {NoSpec}
    BY Constants
  <2> QED  BY <1>2, <1>4, <1>6, <1>7, <2>1, Entry
<1>13. /\ temp' \in [Cm -> [Id -> Temp]]
       /\ \A n \in Cm, k \in Id : n # m \/ k # i => temp'[n][k] = temp[n][k]
       /\ \/ mode = "online" /\ temp' = temp
          \/ temp'[m][i].class = ClassOf[c] /\ temp'[m][i].jobs = {}
  <2>1. CASE temp' = temp /\ mode = "online"
    BY <1>2, <2>1
  <2>2. CASE temp' = [temp EXCEPT ![m][i] = [class |-> ClassOf[c], jobs |-> {}]]
    <3>1. PICK entry : entry = [class |-> ClassOf[c], jobs |-> {}]
      OBVIOUS
    <3>2. entry \in Temp /\ entry.class = ClassOf[c] /\ entry.jobs = {}
      <4>1. ClassOf[c] \in Class
        BY Constants
      <4> QED  BY <3>1, <4>1 DEF Temp
    <3>3. temp' = [temp EXCEPT ![m][i] = entry]
      BY <2>2, <3>1
    <3>4. /\ temp' \in [Cm -> [Id -> Temp]] /\ temp'[m][i] = entry
          /\ \A n \in Cm, k \in Id : n # m \/ k # i => temp'[n][k] = temp[n][k]
      BY <1>2, <1>4, <1>6, <3>2, <3>3, Entry
    <3> QED  BY <3>2, <3>4
  <2> QED  BY <1>8, <2>1, <2>2
<1>14. TypeOK'
  <2>1. num' \in [Cm -> Nat]
    BY <1>2, <1>4, <1>7
  <2>2. ManagerTypes'
    BY <1>2, <1>7, <1>12, <1>13, <2>1 DEF ManagerTypes
  <2>3. JobTypes' /\ RestTypes'
    BY <1>1, <1>4, <1>7 DEF JobTypes, RestTypes, config, jobs
  <2> QED  BY <1>11, <2>2, <2>3, TypePartsNext
<1>15. life' = life /\ mode' = mode
  BY <1>7 DEF config
(* No other client in the same life has the entry.                         *)
<1>16. ASSUME NEW d \in Client, d # c, SameLife(d)'
       PROVE  /\ SameLife(d) /\ client'[d] = client[d] /\ client[d].on
              /\ client[d].home \in Cm /\ client[d].id \in Id
              /\ client[d].home # m \/ client[d].id # i
  <2>1. SameLife(d) /\ client'[d] = client[d] /\ client[d].on
    BY <1>11, <1>15, <1>16 DEF SameLife
  <2>2. client[d].home \in Cm /\ client[d].id \in Id
    <3>1. client[d] \in Assigning
      BY <1>1
    <3> QED  BY <1>1, <2>1, <3>1 DEF Assigning, ClientInv
  <2> QED  BY <1>7, <2>1, <2>2 DEF EarlierEnded, SameLife
<1>17. ClientInv'
  <2>1. ASSUME NEW d \in Client, client'[d].on
        PROVE  client'[d].id \in Id /\ client'[d].life <= life'[client'[d].home]
    <3>1. CASE d = c
      BY <1>2, <1>4, <1>6, <1>11, <1>15, <2>1, <3>1
    <3>2. CASE d # c
      BY <1>1, <1>11, <1>15, <2>1, <3>2 DEF ClientInv
    <3> QED  BY <3>1, <3>2
  <2>2. ASSUME NEW d \in Client, SameLife(d)', NEW n, NEW k, n = client'[d].home, k = client'[d].id
        PROVE  /\ spec'[n][k] \in {ClassOf[d], NoSpec}
               /\ mode' # "online" => temp'[n][k] = NoTemp \/ temp'[n][k].class = ClassOf[d]
    <3>1. CASE d = c
      <4>1. n = m /\ k = i
        BY <1>11, <2>2, <3>1 DEF SameLife
      <4> QED  BY <1>12, <1>13, <1>15, <3>1, <4>1
    <3>2. CASE d # c
      <4>1. /\ SameLife(d) /\ n = client[d].home /\ k = client[d].id
            /\ n \in Cm /\ k \in Id /\ (n # m \/ k # i)
        BY <1>16, <2>2, <3>2
      <4>2. spec'[n][k] = spec[n][k] /\ temp'[n][k] = temp[n][k]
        BY <1>12, <1>13, <4>1
      <4> QED  BY <1>1, <1>15, <4>1, <4>2 DEF ClientInv, ClassAt
    <3> QED  BY <3>1, <3>2
  <2> QED  BY <2>1, <2>2 DEF ClientInv, ClassAt
<1>18. TempInv'
  <2>1. ASSUME NEW n \in Cm, NEW k \in Id, NEW j \in temp'[n][k].jobs
        PROVE  Satisfies(temp'[n][k].class, j)
    <3>1. CASE temp' = temp
      BY <1>1, <2>1, <3>1 DEF TempInv, ClassAt
    <3>2. CASE n = m /\ k = i /\ temp'[m][i].jobs = {}
      BY <2>1, <3>2
    <3>3. CASE n # m \/ k # i
      BY <1>1, <1>13, <2>1, <3>3 DEF TempInv, ClassAt
    <3> QED  BY <1>13, <3>1, <3>2, <3>3
  <2> QED  BY <2>1 DEF TempInv, ClassAt
<1>19. OffersSound'
  <2>1. ASSUME NEW d \in Client, SameLife(d)', NEW j \in client'[d].offers
        PROVE  Satisfies(ClassOf[d], j)
    <3>1. CASE d = c
      BY <1>10, <1>11, <2>1, <3>1 DEF SameLife
    <3>2. CASE d # c
      BY <1>1, <1>16, <2>1, <3>2 DEF OffersSound
    <3> QED  BY <3>1, <3>2
  <2> QED  BY <2>1 DEF OffersSound
<1>20. IdsApart'
  <2>1. ASSUME NEW d \in Client, client'[d].on
        PROVE  Route(client'[d].id) = client'[d].home
    <3>1. CASE d = c
      BY <1>6, <1>11, <2>1, <3>1
    <3>2. CASE d # c
      BY <1>1, <1>11, <2>1, <3>2 DEF IdsApart
    <3> QED  BY <3>1, <3>2
  <2>2. ASSUME NEW d \in Client, SameLife(d)', d # c, SameLife(c)'
        PROVE  client'[d].id # client'[c].id
    <3>1. client'[c].id = i
      BY <1>11, <2>2 DEF SameLife
    <3>2. Route(client[d].id) = client[d].home
      BY <1>1, <1>16, <2>2 DEF IdsApart
    <3> QED  BY <1>6, <1>16, <2>2, <3>1, <3>2
  <2>3. ASSUME NEW d \in Client, NEW e \in Client, SameLife(d)', SameLife(e)',
               client'[d].id = client'[e].id
        PROVE  d = e
    <3>1. CASE d # c /\ e # c
      BY <1>1, <1>16, <2>3, <3>1 DEF IdsApart
    <3>2. CASE d = c \/ e = c
      BY <2>2, <2>3, <3>2
    <3> QED  BY <3>1, <3>2
  <2> QED  BY <2>1, <2>3 DEF IdsApart
<1> QED  BY <1>14, <1>17, <1>18, <1>19, <1>20 DEF OffersInv

-----------------------------------------------------------------------------
(* The theorems.                                                           *)

LEMMA OffersInit == Init => OffersInv
<1> SUFFICES ASSUME Init PROVE OffersInv
  OBVIOUS
<1>1. TypeOK
  BY TypeInit
<1>2. \A c \in Client : ~ client[c].on
  BY DEF Init, NotAssigning
<1>3. \A m \in Cm, i \in Id : temp[m][i] = NoTemp
  BY DEF Init
<1>4. ClientInv /\ OffersSound /\ IdsApart
  BY <1>2 DEF ClientInv, OffersSound, IdsApart, SameLife
<1>5. TempInv
  BY <1>3, Constants DEF TempInv
<1> QED  BY <1>1, <1>4, <1>5 DEF OffersInv

LEMMA OffersNext == OffersInv /\ [Next]_vars => OffersInv'
<1> SUFFICES ASSUME OffersInv, [Next]_vars PROVE OffersInv'
  OBVIOUS
<1>1. CASE UNCHANGED vars
  <2>1. UNCHANGED <<mode, cms, job, left, line, idx, num, spec, temp, client, life, checkins, faults>>
    BY <1>1 DEF vars, config, jobs, managers
  <2>2. JobTypes /\ ManagerTypes /\ RestTypes /\ client \in [Client -> Assigning]
    BY TypeParts DEF OffersInv
  <2>3. StoresGoOn
    BY <2>1, StoresAsBefore DEF managers
  <2>4. UNCHANGED <<config, jobs, client, checkins>> /\ faults' \in Nat
    BY <2>1, <2>2 DEF config, jobs, RestTypes
  <2> QED  BY <2>1, <2>2, <2>3, <2>4, StoresGoOnSuffices DEF ManagerTypes
<1>2. CASE \E j \in Job : JobStep(j)
  BY <1>2, JobStepGoesOn
<1>3. ASSUME NEW m \in 0 .. cms - 1, ManagerStep(m) PROVE OffersInv'
  <2>1. m \in Cm
    BY Managers, TypeParts DEF OffersInv
  <2> QED  BY <1>3, <2>1, BindFifoGoesOn, BindIrsGoesOn, RestartGoesOn, ExpireGoesOn
           DEF ManagerStep
<1>4. ASSUME NEW c \in Client, AssignStep(c) \/ Fails(c) \/ \E heard \in BOOLEAN : CheckIn(c, heard)
      PROVE  OffersInv'
  BY <1>4, AssignStepGoesOn, CheckInGoesOn
<1> QED  BY <1>1, <1>2, <1>3, <1>4 DEF Next

(* The inductive invariant: what a client manager keeps under the id of a  *)
(* client that it has checked in since its last restart is about that      *)
(* client, and jobs are only stored with a specification that satisfies    *)
(* their public constraint; whatever expires, fails, restarts or is bound. *)
THEOREM OffersInvariant == Spec => []OffersInv
<1> QED  BY OffersInit, OffersNext, PTL DEF Spec

(* Every variable keeps its type; in particular a job has places left only *)
(* while it is in the database, however acceptances, ends of rounds and    *)
(* departures of jobs interleave.                                          *)
THEOREM OffersTypes == Spec => []TypeOK
<1>1. OffersInv => TypeOK
  BY DEF OffersInv
<1> QED  BY <1>1, OffersInvariant, PTL

(* A client is only offered jobs whose public constraint its own           *)
(* specification satisfies, in each configuration of scheduler and client  *)
(* managers, with any databases expiring at any time.                      *)
THEOREM OffersAreSound == Spec => []OffersSound
<1>1. OffersInv => OffersSound
  BY DEF OffersInv
<1> QED  BY <1>1, OffersInvariant, PTL

(* The load balancer sends every call of a client to the client manager    *)
(* that has checked it in, and no two clients of one life of a client      *)
(* manager have the same id.                                               *)
THEOREM ClientsKeptApart == Spec => []IdsApart
<1>1. OffersInv => IdsApart
  BY DEF OffersInv
<1> QED  BY <1>1, OffersInvariant, PTL

=============================================================================
