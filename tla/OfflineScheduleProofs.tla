------------------------ MODULE OfflineScheduleProofs ------------------------
(***************************************************************************)
(* Proofs about OfflineSchedule: for any classes, constraints, jobs and    *)
(* clients, the groups handed out are sound, a complete pass leaves no     *)
(* eligible client out, and registered jobs keep their group.              *)
(***************************************************************************)
EXTENDS OfflineSchedule, TLAPS, FiniteSetTheorems

(* Counts are natural numbers.                                             *)
LEMMA CountNat ==
  ASSUME present \subseteq Client, NEW classes
  PROVE  Count(classes) \in Nat
<1>1. IsFiniteSet({c \in present : ClassOf[c] \in classes})
  BY ScheduleAssumption, FS_Subset
<1> QED  BY <1>1, FS_CardinalityType DEF Count

(* So is the number of all clients, which is no smaller, so that it is not  *)
(* zero where a proportion is taken of it.                                 *)
LEMMA ProportionType ==
  ASSUME present \subseteq Client, NEW k \in Key
  PROVE  Proportion(k) \in Ratio
<1> DEFINE some == {c \in present : ClassOf[c] \in Eligible[k]}
           all == {c \in present : ClassOf[c] \in Class}
<1>1. Count(Eligible[k]) \in Nat /\ Count(Class) \in Nat
  BY CountNat
<1>2. some \subseteq all
  BY ScheduleAssumption
<1>3. IsFiniteSet(all)
  BY ScheduleAssumption, FS_Subset
<1>4. Cardinality(some) <= Cardinality(all)
  BY <1>2, <1>3, FS_Subset
<1>5. Count(Eligible[k]) <= Count(Class)
  BY <1>4 DEF Count
<1> QED  BY <1>1, <1>5 DEF Proportion, Ratio

(* Sorting permutes key_list.                                              *)
LEMMA SortedKeys ==
  ASSUME keys \in Seq(Key),
         \A x, y \in 1 .. Len(keys) : keys[x] = keys[y] => x = y,
         NEW rank, NEW s \in Sorted(rank)
  PROVE  /\ s \in Seq(Key) /\ Len(s) = Len(keys)
         /\ \A x, y \in 1 .. Len(s) : s[x] = s[y] => x = y
         /\ {s[x] : x \in 1 .. Len(s)} = KeySet
<1> DEFINE n == Len(keys)
<1>1. n \in Nat
  OBVIOUS
<1>2. PICK p \in Bijection(1 .. n, 1 .. n) : s = [x \in 1 .. n |-> keys[p[x]]]
  BY DEF Sorted
<1>3. /\ p \in [1 .. n -> 1 .. n]
      /\ \A x, y \in 1 .. n : p[x] = p[y] => x = y
      /\ \A y \in 1 .. n : \E x \in 1 .. n : p[x] = y
  BY DEF Bijection, Injection, Surjection, IsInjective
<1>4. s \in Seq(Key) /\ Len(s) = n
  <2>1. \A x \in 1 .. n : keys[p[x]] \in Key
    BY <1>1, <1>3
  <2> HIDE DEF n
  <2> QED  BY <2>1, <1>1, <1>2
<1>7. \A x \in 1 .. n : s[x] = keys[p[x]] /\ p[x] \in 1 .. n
  <2> HIDE DEF n
  <2> QED  BY <1>2, <1>3
<1>5. ASSUME NEW x \in 1 .. n, NEW y \in 1 .. n, s[x] = s[y]
      PROVE  x = y
  <2>1. p[x] = p[y]
    BY <1>7, <1>5
  <2> QED  BY <2>1, <1>3
<1>6. {s[x] : x \in 1 .. n} = KeySet
  <2>1. \A x \in 1 .. n : s[x] \in KeySet
    BY <1>7 DEF KeySet
  <2>2. ASSUME NEW k \in KeySet
        PROVE  \E x \in 1 .. n : s[x] = k
    <3>1. PICK y \in 1 .. n : keys[y] = k
      BY DEF KeySet
    <3>2. PICK x \in 1 .. n : p[x] = y
      BY <1>3
    <3> QED  BY <3>1, <3>2, <1>7
  <2> QED  BY <2>1, <2>2
<1> QED  BY <1>4, <1>5, <1>6

(* Removing one key keeps the others.                                      *)
LEMMA WithoutKeys ==
  ASSUME keys \in Seq(Key),
         \A x, y \in 1 .. Len(keys) : keys[x] = keys[y] => x = y,
         NEW i \in 1 .. Len(keys)
  PROVE  /\ Without(i) \in Seq(Key)
         /\ Len(Without(i)) = Len(keys) - 1
         /\ \A x, y \in 1 .. Len(Without(i)) : Without(i)[x] = Without(i)[y] => x = y
         /\ {Without(i)[x] : x \in 1 .. Len(Without(i))} = KeySet \ {keys[i]}
<1> DEFINE n == Len(keys)
           s == Without(i)
<1>1. n \in Nat /\ i \in 1 .. n
  OBVIOUS
<1>2. s \in Seq(Key) /\ Len(s) = n - 1
  BY <1>1 DEF Without
<1>3. \A x \in 1 .. n - 1 : s[x] = IF x < i THEN keys[x] ELSE keys[x + 1]
  BY <1>1 DEF Without
<1>4. \A x, y \in 1 .. n - 1 : s[x] = s[y] => x = y
  BY <1>1, <1>3
<1>5. \A x \in 1 .. n - 1 : s[x] \in KeySet \ {keys[i]}
  BY <1>1, <1>3 DEF KeySet
<1>6. ASSUME NEW k \in KeySet \ {keys[i]}
      PROVE  \E x \in 1 .. n - 1 : s[x] = k
  <2>1. PICK y \in 1 .. n : keys[y] = k /\ y # i
    BY DEF KeySet
  <2>2. CASE y < i
    BY <2>1, <2>2, <1>1, <1>3
  <2>3. CASE y > i
    <3>1. y - 1 \in 1 .. n - 1 /\ ~(y - 1 < i) /\ (y - 1) + 1 = y
      BY <2>3, <1>1
    <3> QED  BY <3>1, <2>1, <1>3
  <2> QED  BY <2>1, <2>2, <2>3, <1>1
<1>7. {s[x] : x \in 1 .. n - 1} = KeySet \ {keys[i]}
  BY <1>5, <1>6
<1> QED  BY <1>2, <1>4, <1>7

-----------------------------------------------------------------------------
(* Type correctness.                                                       *)

LEMMA PassTypes ==
  ASSUME NEW pc \in {"none", "aborted", "complete", "lists", "allot", "steal"}
  PROVE  At(pc) \in Pass /\ At(pc).pc = pc /\ At(pc).i = 1
<1>1. [n |-> 0, of |-> 1] \in Ratio
  BY DEF Ratio
<1> QED  BY <1>1 DEF At, Pass, Ended

LEMMA TypeInit == Init => TypeOK
<1> SUFFICES ASSUME Init PROVE TypeOK
  OBVIOUS
<1>1. pass \in Pass /\ pass.pc \in Ended
  BY PassTypes DEF Init, Ended
<1>2. keys \in Seq(Key) /\ Len(keys) = 0
  BY DEF Init
<1> QED  BY <1>1, <1>2 DEF Init, TypeOK

(* The next index of a loop stays within key_list.                         *)
LEMMA OnwardType ==
  ASSUME TypeOK, NEW p \in Pass, p.i = pass.i, pass.pc \notin Ended,
         NEW pc \in {"proportions", "size"}
  PROVE  Onward(p, pc) \in Pass /\ Onward(p, pc).i <= Len(keys)
<1>1. Len(keys) \in Nat /\ pass.i \in Nat \ {0} /\ pass.i <= Len(keys)
  BY DEF TypeOK, Pass
<1>2. CASE p.i < Len(keys)
  <2>1. Onward(p, pc) = [p EXCEPT !.i = @ + 1]
    BY <1>2 DEF Onward
  <2>2. p.i + 1 \in Nat \ {0} /\ p.i + 1 <= Len(keys)
    BY <1>1, <1>2
  <2> QED  BY <2>1, <2>2 DEF Pass
<1>3. CASE ~(p.i < Len(keys))
  <2>1. Onward(p, pc) = [p EXCEPT !.pc = pc, !.i = 1]
    BY <1>3 DEF Onward
  <2>2. Onward(p, pc) \in Pass
    <3>1. pc \in Ended \cup {"lists", "proportions", "size", "allot", "steal"}
      OBVIOUS
    <3>2. 1 \in Nat \ {0}
      OBVIOUS
    <3> QED  BY <2>1, <3>1, <3>2 DEF Pass
  <2>3. Onward(p, pc).i = 1
    BY <2>1 DEF Pass
  <2> QED  BY <2>2, <2>3, <1>1
<1> QED  BY <1>2, <1>3

LEMMA TypeStep == TypeOK /\ [Next]_vars => TypeOK'
<1> SUFFICES ASSUME TypeOK, [Next]_vars PROVE TypeOK'
  OBVIOUS
<1> USE ScheduleAssumption
<1>1. ASSUME NEW j \in Job, JobRegist(j) \/ JobStep(j) PROVE TypeOK'
  BY <1>1 DEF TypeOK, JobRegist, JobStep, JobTurns, group
<1>2. ASSUME NEW j \in Job, ScRegist(j) PROVE TypeOK'
  <2>1. CASE Exists(j) /\ KeyOf[j] \notin KeySet
    <3> DEFINE k == KeyOf[j]
    <3>1. keys' = Append(keys, k) /\ k \in Key
      BY <1>2, <2>1 DEF ScRegist
    <3>2. /\ keys' \in Seq(Key) /\ Len(keys') = Len(keys) + 1
          /\ \A x \in 1 .. Len(keys) : keys'[x] = keys[x]
          /\ keys'[Len(keys) + 1] = k
      BY <3>1 DEF TypeOK
    <3>3. \A x \in 1 .. Len(keys) : keys[x] # k
      BY <2>1 DEF KeySet
    <3>4. ASSUME NEW x \in 1 .. Len(keys'), NEW y \in 1 .. Len(keys'), keys'[x] = keys'[y]
          PROVE  x = y
      <4>1. Len(keys) \in Nat
        BY DEF TypeOK
      <4> QED  BY <3>2, <3>3, <3>4, <4>1 DEF TypeOK
    <3>5. pass' \in Pass /\ pass'.pc \in Ended
      BY <1>2, <2>1, PassTypes DEF ScRegist, Ended
    <3> QED  BY <1>2, <2>1, <3>2, <3>4, <3>5 DEF ScRegist, TypeOK
  <2>2. CASE ~(Exists(j) /\ KeyOf[j] \notin KeySet)
    BY <1>2, <2>2 DEF ScRegist, TypeOK, group
  <2> QED  BY <2>1, <2>2
<1>3. ASSUME NEW c \in Client, ClientStep(c) PROVE TypeOK'
  BY <1>3 DEF TypeOK, ClientStep, group
<1>4. ASSUME PassStart PROVE TypeOK'
  <2>1. CASE keys = <<>>
    <3>1. pass' = At("complete")
      BY <1>4, <2>1 DEF PassStart, Step
    <3>2. pass' \in Pass /\ pass'.pc \in Ended
      BY <3>1, PassTypes DEF Ended
    <3> QED  BY <1>4, <3>2 DEF PassStart, TypeOK, env
  <2>2. CASE keys # <<>>
    <3>1. pass' = At("lists")
      BY <1>4, <2>2 DEF PassStart, Step
    <3>2. pass' \in Pass /\ pass'.i = 1
      BY <3>1, PassTypes
    <3>3. 1 <= Len(keys)
      BY <2>2 DEF TypeOK
    <3> QED  BY <1>4, <3>2, <3>3 DEF PassStart, TypeOK, env
  <2> QED  BY <2>1, <2>2
<1>5. ASSUME PassStep PROVE TypeOK'
  <2>0. pass.pc \notin Ended
    BY <1>5 DEF PassStep, PassList, PassRemove, PassListFails, PassProportion, PassSize,
       PassAllot, PassAllotFails, PassTake, PassNext, PassZero, Ended
  <2>1. /\ Len(keys) \in Nat /\ pass.i \in 1 .. Len(keys) /\ keys[pass.i] \in Key
        /\ pass.h \in Nat \ {0}
    BY <2>0 DEF TypeOK, Pass
  <2>2. CASE PassList
    <3>1. pass' \in Pass /\ pass'.i <= Len(keys)
      BY <2>0, <2>2, OnwardType DEF TypeOK, PassList, Step
    <3>2. OpenJobsOf(keys[pass.i]) \subseteq Job
      BY DEF OpenJobsOf, JobsOf
    <3> QED  BY <2>2, <3>1, <3>2 DEF PassList, TypeOK, env
  <2>3. CASE PassRemove \/ PassListFails
    <3>1. pass' = At("aborted") /\ keys' = Without(pass.i)
      BY <2>3 DEF PassRemove, PassListFails, Step
    <3>2. pass' \in Pass /\ pass'.pc \in Ended
      BY <3>1, PassTypes DEF Ended
    <3>3. keys' \in Seq(Key) /\ \A x, y \in 1 .. Len(keys') : keys'[x] = keys'[y] => x = y
      BY <2>1, <3>1, WithoutKeys DEF TypeOK
    <3>4. UNCHANGED <<env, registered, list, cond>>
      BY <2>3 DEF PassRemove, PassListFails
    <3>5. errors' \in Nat /\ lost' \subseteq Key
      BY <2>1, <2>3 DEF PassRemove, PassListFails, TypeOK
    <3> QED  BY <3>2, <3>3, <3>4, <3>5 DEF TypeOK, env
  <2>4. CASE PassProportion
    <3> DEFINE q == [pass EXCEPT !.prop = [@ EXCEPT ![keys[pass.i]] = Proportion(keys[pass.i])]]
    <3>1. Proportion(keys[pass.i]) \in Ratio
      BY <2>1, ProportionType DEF TypeOK
    <3>2. q \in Pass /\ q.i = pass.i
      BY <3>1 DEF TypeOK, Pass
    <3>3. pass' = Onward(q, "size")
      BY <2>4 DEF PassProportion, Step
    <3>4. pass' \in Pass /\ pass'.i <= Len(keys)
      BY <2>0, <3>2, <3>3, OnwardType
    <3> QED  BY <2>4, <3>4 DEF PassProportion, TypeOK, env, group
  <2>5. CASE PassSize
    <3>1. PICK rank : keys' \in Sorted(rank)
      BY <2>5 DEF PassSize
    <3>2. /\ keys' \in Seq(Key) /\ Len(keys') = Len(keys)
          /\ \A x, y \in 1 .. Len(keys') : keys'[x] = keys'[y] => x = y
      BY <3>1, SortedKeys DEF TypeOK
    <3>3. Count(Class) \in Nat
      BY CountNat DEF TypeOK
    <3>4. pass' \in Pass /\ pass'.i = 1
      <4>1. pass' = [At("allot") EXCEPT !.size = Count(Class), !.prop = pass.prop]
        BY <2>5 DEF PassSize, Step
      <4>2. At("allot") \in Pass /\ At("allot").i = 1 /\ pass \in Pass
        BY PassTypes DEF TypeOK
      <4> QED  BY <3>3, <4>1, <4>2 DEF Pass
    <3> QED  BY <2>1, <2>5, <3>2, <3>4 DEF PassSize, TypeOK, env
  <2>6. CASE PassAllot
    <3> DEFINE k == keys[pass.i]
               alloc == [pass.alloc EXCEPT ![k] = Share(Region(k))]
    <3>1. Region(k) \subseteq Class
      BY <2>1 DEF Region
    <3>2. alloc \in [Key -> Nat]
      BY CountNat DEF TypeOK, Pass, Share
    <3>3. cond' \in [Key -> SUBSET Class]
      BY <2>6, <3>1 DEF PassAllot, TypeOK
    <3>4. CASE pass.i < Len(keys)
      <4>1. /\ pass' = [pass EXCEPT !.i = @ + 1, !.seen = @ \cup Eligible[k], !.alloc = alloc]
            /\ keys' = keys
        BY <2>6, <3>4 DEF PassAllot, Step
      <4>2. pass.i + 1 \in Nat \ {0} /\ pass.i + 1 <= Len(keys) /\ Eligible[k] \subseteq Class
        BY <2>1, <3>4
      <4> HIDE DEF alloc, k
      <4>3. pass' \in Pass /\ pass'.i <= Len(keys)
        BY <3>2, <4>1, <4>2 DEF TypeOK, Pass
      <4> QED  BY <2>6, <3>3, <4>1, <4>3 DEF PassAllot, TypeOK, env
    <3>5. CASE ~(pass.i < Len(keys))
      <4>1. /\ pass' = [At("steal") EXCEPT !.h = 2, !.alloc = alloc]
            /\ keys' \in Sorted(Commoner(pass.prop))
        BY <2>6, <3>5 DEF PassAllot, Step
      <4>2. /\ keys' \in Seq(Key) /\ Len(keys') = Len(keys)
            /\ \A x, y \in 1 .. Len(keys') : keys'[x] = keys'[y] => x = y
        BY <4>1, SortedKeys DEF TypeOK
      <4> HIDE DEF alloc, k
      <4>3. pass' \in Pass /\ pass'.i = 1
        <5>1. At("steal") \in Pass /\ At("steal").i = 1
          BY PassTypes
        <5>2. 2 \in Nat \ {0}
          OBVIOUS
        <5> QED  BY <3>2, <4>1, <5>1, <5>2 DEF Pass
      <4> QED  BY <2>1, <2>6, <3>3, <4>2, <4>3 DEF PassAllot, TypeOK, env
    <3> QED  BY <3>4, <3>5
  <2>7. CASE PassAllotFails
    <3>1. cond' \in [Key -> SUBSET Class]
      BY <2>1, <2>7 DEF PassAllotFails, TypeOK, Region
    <3>2. pass' \in Pass /\ pass'.pc \in Ended
      BY <2>7, PassTypes DEF PassAllotFails, Step, Ended
    <3> QED  BY <2>7, <3>1, <3>2 DEF PassAllotFails, TypeOK, env
  <2>8. CASE PassTake
    <3>1. cond' \in [Key -> SUBSET Class]
      BY <2>1, <2>8 DEF PassTake, Take, TypeOK
    <3>2. pass' \in Pass /\ pass'.i = pass.i
      <4>1. pass.h + 1 \in Nat \ {0} /\ pass \in Pass
        BY <2>1 DEF TypeOK
      <4>2. pass' = [pass EXCEPT !.h = @ + 1]
        BY <2>8 DEF PassTake, Step
      <4> QED  BY <4>1, <4>2 DEF Pass
    <3> QED  BY <2>1, <2>8, <3>1, <3>2 DEF PassTake, TypeOK, env
  <2>9. CASE PassNext
    <3>1. CASE pass.i < Len(keys)
      <4>1. pass' = [pass EXCEPT !.i = @ + 1, !.h = pass.i + 2]
        BY <2>9, <3>1 DEF PassNext, NextKey, Step
      <4>2. pass' \in Pass /\ pass'.i = pass.i + 1
        <5>1. pass.i + 1 \in Nat \ {0} /\ pass.i + 2 \in Nat \ {0} /\ pass \in Pass
          BY <2>1 DEF TypeOK
        <5> QED  BY <4>1, <5>1 DEF Pass
      <4> QED  BY <2>1, <2>9, <3>1, <4>2 DEF PassNext, TypeOK, env, group
    <3>2. CASE ~(pass.i < Len(keys))
      <4>1. pass' \in Pass /\ pass'.pc \in Ended
        BY <2>9, <3>2, PassTypes DEF PassNext, NextKey, Step, Ended
      <4> QED  BY <2>9, <4>1 DEF PassNext, TypeOK, env, group
    <3> QED  BY <3>1, <3>2
  <2>10. CASE PassZero
    <3>1. pass' \in Pass /\ pass'.pc \in Ended
      BY <2>10, PassTypes DEF PassZero, Step, Ended
    <3> QED  BY <2>10, <3>1 DEF PassZero, TypeOK, env, group
  <2> QED  BY <1>5, <2>2, <2>3, <2>4, <2>5, <2>6, <2>7, <2>8, <2>9, <2>10 DEF PassStep
<1>6. CASE UNCHANGED vars
  BY <1>6 DEF vars, env, group, TypeOK
<1> QED  BY <1>1, <1>2, <1>3, <1>4, <1>5, <1>6 DEF Next

-----------------------------------------------------------------------------
(* Soundness of the groups.                                                *)

LEMMA SoundStep == TypeOK /\ GroupsSound /\ [Next]_vars => GroupsSound'
<1> SUFFICES ASSUME TypeOK, GroupsSound, [Next]_vars,
                    NEW k \in Key
             PROVE  cond'[k] \subseteq Eligible[k]
  BY DEF GroupsSound
<1>0. cond \in [Key -> SUBSET Class] /\ cond[k] \subseteq Eligible[k]
  BY DEF TypeOK, GroupsSound
<1>1. CASE UNCHANGED cond
  BY <1>0, <1>1
<1>2. ASSUME NEW j \in Job, ScRegist(j) PROVE cond'[k] \subseteq Eligible[k]
  BY <1>0, <1>2 DEF ScRegist, group
<1>3. CASE PassStart
  BY <1>0, <1>3 DEF PassStart
<1>4. CASE PassAllot \/ PassAllotFails
  BY <1>0, <1>4 DEF PassAllot, PassAllotFails, Region
<1>5. CASE PassTake
  BY <1>0, <1>5 DEF PassTake, Take
<1> QED
  BY <1>1, <1>2, <1>3, <1>4, <1>5 DEF Next, vars, group, JobRegist, JobStep, JobTurns,
     ClientStep, PassStep, PassList, PassRemove, PassListFails, PassProportion, PassSize,
     PassNext, PassZero

-----------------------------------------------------------------------------
(* Registered jobs keep their group.                                       *)

Documented == \A j \in called \cup registered : job[j] # "absent"

LEMMA DocumentedStep == TypeOK /\ Documented /\ [Next]_vars => Documented'
<1> SUFFICES ASSUME TypeOK, Documented, [Next]_vars PROVE Documented'
  OBVIOUS
<1>1. ASSUME NEW j \in Job, JobRegist(j) \/ JobStep(j) \/ ScRegist(j) PROVE Documented'
  BY <1>1 DEF Documented, TypeOK, JobRegist, JobStep, JobTurns, ScRegist
<1>2. CASE UNCHANGED <<job, called, registered>>
  BY <1>2 DEF Documented
<1> QED
  BY <1>1, <1>2 DEF Next, vars, env, ClientStep, PassStart, PassStep, PassList, PassRemove,
     PassListFails, PassProportion, PassSize, PassAllot, PassAllotFails, PassTake, PassNext,
     PassZero

(* How the keys of a step differ from those before it.                     *)
LEMMA KeysStep ==
  ASSUME TypeOK, PassStep
  PROVE  /\ pass.i \in 1 .. Len(keys) /\ keys[pass.i] \in Key
         /\ PassRemove \/ PassListFails => KeySet' = KeySet \ {keys[pass.i]}
         /\ ~(PassRemove \/ PassListFails) => KeySet' = KeySet
<1>1. pass.pc \notin Ended
  BY DEF PassStep, PassList, PassRemove, PassListFails, PassProportion, PassSize,
     PassAllot, PassAllotFails, PassTake, PassNext, PassZero, Ended
<1>2. pass.i \in 1 .. Len(keys) /\ keys[pass.i] \in Key
  BY <1>1 DEF TypeOK, Pass
<1>3. CASE PassRemove \/ PassListFails
  <2>1. keys' = Without(pass.i)
    BY <1>3 DEF PassRemove, PassListFails
  <2>2. {Without(pass.i)[x] : x \in 1 .. Len(Without(pass.i))} = KeySet \ {keys[pass.i]}
    BY <1>2, WithoutKeys DEF TypeOK
  <2>3. KeySet' = KeySet \ {keys[pass.i]}
    BY <2>1, <2>2 DEF KeySet
  <2> QED  BY <1>2, <1>3, <2>3
<1>4. CASE \E rank : keys' \in Sorted(rank)
  <2>1. PICK rank : keys' \in Sorted(rank)
    BY <1>4
  <2>2. KeySet' = KeySet
    <3>1. {keys'[x] : x \in 1 .. Len(keys')} = KeySet
      BY <2>1, SortedKeys DEF TypeOK
    <3> QED  BY <3>1 DEF KeySet
  <2>4. Len(keys') = Len(keys)
    BY <2>1, SortedKeys DEF TypeOK
  <2>5. ~(PassRemove \/ PassListFails)
    <3>1. SUFFICES ASSUME PassRemove \/ PassListFails PROVE FALSE
      OBVIOUS
    <3>2. Len(keys') = Len(keys) - 1
      BY <1>2, <3>1, WithoutKeys DEF TypeOK, PassRemove, PassListFails
    <3> QED  BY <2>4, <3>2 DEF TypeOK
  <2> QED  BY <1>2, <2>2, <2>5
<1>5. CASE keys' = keys
  <2>1. KeySet' = KeySet
    BY <1>5 DEF KeySet
  <2>2. ~(PassRemove \/ PassListFails)
    <3>1. SUFFICES ASSUME PassRemove \/ PassListFails PROVE FALSE
      OBVIOUS
    <3>2. Len(keys') = Len(keys) - 1
      BY <1>2, <3>1, WithoutKeys DEF TypeOK, PassRemove, PassListFails
    <3> QED  BY <1>5, <3>2 DEF TypeOK
  <2> QED  BY <1>2, <2>1, <2>2
<1>6. (PassRemove \/ PassListFails) \/ (\E rank : keys' \in Sorted(rank)) \/ keys' = keys
  BY DEF PassStep, group, PassList, PassProportion, PassSize, PassAllot, PassAllotFails,
     PassTake, PassNext, PassZero
<1> QED  BY <1>3, <1>4, <1>5, <1>6

LEMMA RegisteredStep ==
  TypeOK /\ Documented /\ RegisteredHaveGroup /\ [Next]_vars => RegisteredHaveGroup'
<1> SUFFICES ASSUME TypeOK, Documented, RegisteredHaveGroup, [Next]_vars,
                    NEW i \in registered', Exists(i)'
             PROVE  KeyOf[i] \in KeySet' \cup lost'
  BY DEF RegisteredHaveGroup
<1>1. ASSUME NEW j \in Job, JobRegist(j) \/ JobStep(j)
      PROVE  KeyOf[i] \in KeySet' \cup lost'
  <2>1. i \in registered /\ i \in Job /\ job[i] # "absent"
    BY <1>1 DEF Documented, TypeOK, JobRegist, JobStep, JobTurns
  <2>2. Exists(i)
    BY <1>1, <2>1 DEF TypeOK, JobRegist, JobStep, JobTurns, Exists
  <2>3. UNCHANGED <<keys, lost>>
    BY <1>1 DEF JobRegist, JobStep, JobTurns, group
  <2> QED  BY <2>1, <2>2, <2>3 DEF RegisteredHaveGroup, KeySet
<1>2. ASSUME NEW j \in Job, ScRegist(j)
      PROVE  KeyOf[i] \in KeySet' \cup lost'
  <2>1. UNCHANGED job /\ Exists(i)
    BY <1>2 DEF ScRegist, Exists
  <2>2. i \in registered => KeyOf[i] \in KeySet \cup lost
    BY <2>1 DEF RegisteredHaveGroup
  <2>3. i \in registered \/ i = j
    BY <1>2 DEF ScRegist
  <2>4. CASE Exists(j) /\ KeyOf[j] \notin KeySet
    <3>1. keys' = Append(keys, KeyOf[j]) /\ lost' = lost \ {KeyOf[j]} /\ KeyOf[j] \in Key
      BY <1>2, <2>4, ScheduleAssumption DEF ScRegist
    <3>2. /\ Len(keys') = Len(keys) + 1 /\ Len(keys) \in Nat
          /\ \A x \in 1 .. Len(keys) : keys'[x] = keys[x]
          /\ keys'[Len(keys) + 1] = KeyOf[j]
      BY <3>1 DEF TypeOK
    <3>3. KeySet \subseteq KeySet' /\ KeyOf[j] \in KeySet'
      BY <3>2 DEF KeySet
    <3> QED  BY <2>2, <2>3, <3>1, <3>3
  <2>5. CASE ~(Exists(j) /\ KeyOf[j] \notin KeySet)
    <3>1. UNCHANGED <<keys, lost>>
      BY <1>2, <2>5 DEF ScRegist, group
    <3>2. i = j => KeyOf[i] \in KeySet
      BY <2>1, <2>5
    <3> QED  BY <2>2, <2>3, <3>1, <3>2 DEF KeySet
  <2> QED  BY <2>4, <2>5
<1>3. CASE PassStep
  <2>1. UNCHANGED <<job, registered>>
    BY <1>3 DEF PassStep, env, PassList, PassRemove, PassListFails, PassProportion, PassSize,
       PassAllot, PassAllotFails, PassTake, PassNext, PassZero
  <2>2. Exists(i) /\ i \in Job /\ KeyOf[i] \in KeySet \cup lost
    BY <2>1 DEF RegisteredHaveGroup, Exists, TypeOK
  <2>3. CASE PassRemove
    <3>1. KeyOf[i] # keys[pass.i]
      BY <2>2, <2>3 DEF PassRemove, NoJobs, JobsOf
    <3>2. lost' = lost
      BY <2>3 DEF PassRemove
    <3> QED  BY <1>3, <2>2, <2>3, <3>1, <3>2, KeysStep
  <2>4. CASE PassListFails
    BY <1>3, <2>2, <2>4, KeysStep DEF PassListFails
  <2>5. CASE ~(PassRemove \/ PassListFails)
    <3>1. lost' = lost
      BY <1>3, <2>5 DEF PassStep, PassList, PassProportion, PassSize, PassAllot,
         PassAllotFails, PassTake, PassNext, PassZero
    <3> QED  BY <1>3, <2>2, <2>5, <3>1, KeysStep
  <2> QED  BY <2>3, <2>4, <2>5
<1>4. CASE UNCHANGED <<job, registered, keys, lost>>
  BY <1>4 DEF RegisteredHaveGroup, Exists, KeySet
<1> QED
  BY <1>1, <1>2, <1>3, <1>4 DEF Next, vars, env, group, ClientStep, PassStart

-----------------------------------------------------------------------------
(* A complete pass leaves no eligible client out.                          *)

(* With sound groups, covering is that every eligible class is in a group. *)
LEMMA CoverIff ==
  ASSUME NEW cnd, NEW ks \in SUBSET Key, \A k \in Key : cnd[k] \subseteq Eligible[k]
  PROVE  (UNION {cnd[k] : k \in ks} = UNION {Eligible[k] : k \in ks})
           <=> \A k \in ks : \A x \in Eligible[k] : \E l \in ks : x \in cnd[l]
<1>1. ASSUME UNION {cnd[k] : k \in ks} = UNION {Eligible[k] : k \in ks},
             NEW k \in ks, NEW x \in Eligible[k]
      PROVE  \E l \in ks : x \in cnd[l]
  <2>1. x \in UNION {cnd[l] : l \in ks}
    BY <1>1
  <2> QED  BY <2>1
<1>2. ASSUME \A k \in ks : \A x \in Eligible[k] : \E l \in ks : x \in cnd[l]
      PROVE  UNION {cnd[k] : k \in ks} = UNION {Eligible[k] : k \in ks}
  <2>1. ASSUME NEW x \in UNION {cnd[k] : k \in ks} PROVE x \in UNION {Eligible[k] : k \in ks}
    OBVIOUS
  <2>2. ASSUME NEW x \in UNION {Eligible[k] : k \in ks} PROVE x \in UNION {cnd[k] : k \in ks}
    BY <1>2
  <2> QED  BY <2>1, <2>2
<1> QED  BY <1>1, <1>2

(* The parts of ScheduleInv about a running pass.                          *)
AllotCovers ==
  pass.pc = "allot" =>
    pass.seen \cup UNION {Eligible[k] : k \in First(pass.i - 1)}
      \subseteq UNION {cond[k] : k \in First(pass.i - 1)}

CoverInv ==
  /\ AllotCovers
  /\ pass.pc = "steal" => pass.i < pass.h
  /\ pass.pc \in {"steal", "complete"} => Covered(KeySet)

(* A key's own region adds what the query did not exclude.                 *)
LEMMA AllotStep ==
  ASSUME TypeOK, AllotCovers, PassAllot
  PROVE  pass.seen \cup Eligible[keys[pass.i]] \cup UNION {Eligible[k] : k \in First(pass.i)}
           \subseteq UNION {cond'[k] : k \in First(pass.i)}
<1> DEFINE k == keys[pass.i]
<1>1. pass.pc = "allot" /\ pass.i \in 1 .. Len(keys) /\ k \in Key /\ Len(keys) \in Nat
  BY DEF PassAllot, TypeOK, Pass, Ended
<1>2. /\ cond \in [Key -> SUBSET Class]
      /\ cond' = [cond EXCEPT ![k] = @ \cup (Eligible[k] \ pass.seen)]
  BY DEF PassAllot, Region, TypeOK
<1>3. First(pass.i) \subseteq Key
  BY <1>1 DEF First, TypeOK
<1>4. First(pass.i) = First(pass.i - 1) \cup {k}
  <2>1. 1 .. pass.i = (1 .. pass.i - 1) \cup {pass.i}
    BY <1>1
  <2> QED  BY <2>1 DEF First
<1>5. ASSUME NEW x \in pass.seen \cup Eligible[k] \cup UNION {Eligible[l] : l \in First(pass.i)}
      PROVE  \E l \in First(pass.i) : x \in cond'[l]
  <2>1. CASE x \in pass.seen \cup UNION {Eligible[l] : l \in First(pass.i - 1)}
    <3>1. x \in UNION {cond[l] : l \in First(pass.i - 1)}
      BY <1>1, <2>1 DEF AllotCovers
    <3>2. PICK l \in First(pass.i - 1) : x \in cond[l]
      BY <3>1
    <3>3. l \in First(pass.i) /\ l \in Key
      BY <1>3, <1>4
    <3>4. x \in cond'[l]
      BY <1>1, <1>2, <3>2, <3>3
    <3> QED  BY <3>3, <3>4
  <2>2. CASE x \notin pass.seen \cup UNION {Eligible[l] : l \in First(pass.i - 1)}
    <3>1. x \in Eligible[k] \ pass.seen
      BY <1>4, <1>5, <2>2
    <3>2. x \in cond'[k]
      BY <1>1, <1>2, <3>1
    <3> QED  BY <1>4, <3>2
  <2> QED  BY <2>1, <2>2
<1> QED  BY <1>5

LEMMA CoverStep == TypeOK /\ GroupsSound /\ CoverInv /\ [Next]_vars => CoverInv'
<1> SUFFICES ASSUME TypeOK, GroupsSound, CoverInv, [Next]_vars PROVE CoverInv'
  OBVIOUS
<1>0. /\ TypeOK' /\ GroupsSound'
      /\ KeySet \subseteq Key /\ KeySet' \subseteq Key
  <2>1. TypeOK' /\ GroupsSound'
    BY TypeStep, SoundStep
  <2>2. \A x \in 1 .. Len(keys) : keys[x] \in Key
    BY DEF TypeOK
  <2>3. \A x \in 1 .. Len(keys') : keys'[x] \in Key
    BY <2>1 DEF TypeOK
  <2> QED  BY <2>1, <2>2, <2>3 DEF KeySet
<1>1. CASE pass'.pc \notin {"allot", "steal", "complete"}
  BY <1>1 DEF CoverInv, AllotCovers
<1>2. CASE UNCHANGED <<keys, cond, pass>>
  <2>1. keys' = keys /\ cond' = cond /\ pass' = pass
    BY <1>2
  <2>2. AllotCovers'
    BY <2>1 DEF CoverInv, AllotCovers, First
  <2>3. Covered(KeySet)' = Covered(KeySet)
    BY <2>1 DEF Covered, KeySet
  <2> QED  BY <2>1, <2>2, <2>3 DEF CoverInv
<1>3. ASSUME NEW j \in Job, ScRegist(j) PROVE CoverInv'
  <2>1. pass' = At("none") \/ UNCHANGED <<keys, cond, pass>>
    BY <1>3 DEF ScRegist, group
  <2> QED  BY <1>1, <1>2, <2>1, PassTypes
<1>4. CASE PassStart
  <2>1. CASE keys = <<>>
    <3>1. KeySet' = {} /\ pass' = At("complete")
      BY <1>4, <2>1 DEF PassStart, Step, KeySet
    <3>2. pass'.pc = "complete"
      BY <3>1, PassTypes
    <3>3. Covered(KeySet)'
      BY <3>1 DEF Covered
    <3> QED  BY <3>2, <3>3 DEF CoverInv, AllotCovers
  <2>2. CASE keys # <<>>
    BY <1>1, <1>4, <2>2, PassTypes DEF PassStart, Step
  <2> QED  BY <2>1, <2>2
<1>5. CASE PassList \/ PassProportion
  <2>1. pass.pc # "allot"
    BY <1>5 DEF PassList, PassProportion
  <2>2. pass'.pc \notin {"allot", "steal", "complete"}
    <3>1. CASE PassList
      BY <3>1 DEF PassList, Step, Onward, TypeOK, Pass
    <3>2. CASE PassProportion
      <4> DEFINE q == [pass EXCEPT !.prop = [@ EXCEPT ![keys[pass.i]] = Proportion(keys[pass.i])]]
      <4>1. pass' = Onward(q, "size") /\ pass.pc = "proportions"
        BY <3>2 DEF PassProportion, Step
      <4>2. q.pc = "proportions"
        BY <4>1 DEF TypeOK, Pass
      <4>3. q \in [{"pc", "i", "h", "seen", "size", "prop", "alloc"} -> {q[f] : f \in DOMAIN q}]
        BY DEF TypeOK, Pass
      <4> HIDE DEF q
      <4> QED  BY <4>1, <4>2, <4>3 DEF Onward
    <3> QED  BY <1>5, <3>1, <3>2
  <2> QED  BY <1>1, <2>2
<1>6. CASE PassRemove \/ PassListFails \/ PassAllotFails \/ PassZero
  <2>1. pass' = At("aborted")
    BY <1>6 DEF PassRemove, PassListFails, PassAllotFails, PassZero, Step
  <2> QED  BY <1>1, <2>1, PassTypes
<1>7. CASE PassSize
  <2>1. pass' = [At("allot") EXCEPT !.size = Count(Class), !.prop = pass.prop]
    BY <1>7 DEF PassSize, Step
  <2>2. pass'.pc = "allot" /\ pass'.i = 1 /\ pass'.seen = {}
    BY <2>1 DEF At
  <2>3. First(0)' = {}
    BY DEF First
  <2>4. AllotCovers'
    BY <2>2, <2>3 DEF AllotCovers
  <2> QED  BY <2>2, <2>4 DEF CoverInv
<1>8. CASE PassAllot
  <2>0. /\ pass.pc = "allot" /\ pass.i \in 1 .. Len(keys) /\ Len(keys) \in Nat
        /\ pass \in Pass
    BY <1>8 DEF PassAllot, TypeOK, Pass, Ended
  <2>1. pass.seen \cup Eligible[keys[pass.i]] \cup UNION {Eligible[k] : k \in First(pass.i)}
           \subseteq UNION {cond'[k] : k \in First(pass.i)}
    BY <1>8, AllotStep DEF CoverInv
  <2> DEFINE alloc == [pass.alloc EXCEPT ![keys[pass.i]] = Share(Region(keys[pass.i]))]
  <2>2. CASE pass.i < Len(keys)
    <3>1. /\ pass' = [pass EXCEPT !.i = @ + 1, !.seen = @ \cup Eligible[keys[pass.i]], !.alloc = alloc]
          /\ keys' = keys
      BY <1>8, <2>2 DEF PassAllot, Step
    <3> HIDE DEF alloc
    <3>2. /\ pass'.pc = "allot" /\ pass'.i - 1 = pass.i
          /\ pass'.seen = pass.seen \cup Eligible[keys[pass.i]]
      BY <2>0, <3>1 DEF Pass
    <3>3. First(pass.i - 1)' = First(pass.i)
      BY <3>1, <3>2 DEF First
    <3>4. AllotCovers'
      BY <2>1, <3>2, <3>3 DEF AllotCovers
    <3> QED  BY <3>2, <3>4 DEF CoverInv
  <2>3. CASE ~(pass.i < Len(keys))
    <3>1. pass' = [At("steal") EXCEPT !.h = 2, !.alloc = alloc]
      BY <1>8, <2>3 DEF PassAllot, Step
    <3> HIDE DEF alloc
    <3>2. pass'.pc = "steal" /\ pass'.i = 1 /\ pass'.h = 2
      BY <3>1 DEF At
    <3>3. KeySet' = KeySet
      <4>1. PassStep
        BY <1>8 DEF PassStep
      <4>2. ~(PassRemove \/ PassListFails)
        BY <2>0 DEF PassRemove, PassListFails
      <4> QED  BY <4>1, <4>2, KeysStep
    <3>4. First(pass.i) = KeySet
      <4>1. pass.i = Len(keys)
        BY <2>0, <2>3
      <4> QED  BY <4>1 DEF First, KeySet
    <3>5. \A k \in KeySet' : \A x \in Eligible[k] : \E l \in KeySet' : x \in cond'[l]
      BY <2>1, <3>3, <3>4
    <3>6. Covered(KeySet)'
      BY <1>0, <3>5, CoverIff DEF Covered, GroupsSound
    <3> QED  BY <3>2, <3>6 DEF CoverInv, AllotCovers
  <2> QED  BY <2>2, <2>3
<1>9. CASE PassTake
  <2> DEFINE k == keys[pass.i]
             l == keys[pass.h]
             taken == cond[k] \cup (Eligible[k] \cap Eligible[l])
  <2>0. /\ pass.pc = "steal" /\ pass.i \in 1 .. Len(keys) /\ pass.h \in 1 .. Len(keys)
        /\ pass.i # pass.h /\ pass \in Pass /\ Len(keys) \in Nat
    BY <1>9 DEF PassTake, CoverInv, TypeOK, Pass, Ended
  <2>1. k # l /\ k \in KeySet /\ l \in KeySet /\ k \in Key /\ l \in Key
    BY <2>0 DEF TypeOK, KeySet
  <2>2. /\ cond \in [Key -> SUBSET Class] /\ keys' = keys
        /\ cond' = [cond EXCEPT ![k] = taken, ![l] = @ \ taken]
    BY <1>9 DEF PassTake, Take, TypeOK
  <2>3. cond'[k] = taken /\ cond'[l] = cond[l] \ taken
    BY <2>1, <2>2
  <2>4. \A o \in Key : o # k /\ o # l => cond'[o] = cond[o]
    BY <2>2
  <2>5. ASSUME NEW o \in KeySet, NEW x \in cond[o]
        PROVE  \E p \in KeySet : x \in cond'[p]
    <3>1. CASE x \in taken
      BY <2>1, <2>3, <3>1
    <3>2. CASE x \notin taken
      <4>1. o # k /\ o \in Key
        BY <1>0, <3>2
      <4>2. x \in cond'[o]
        BY <2>3, <2>4, <3>2, <4>1
      <4> QED  BY <4>2
    <3> QED  BY <3>1, <3>2
  <2>6. \A o \in KeySet : \A x \in Eligible[o] : \E p \in KeySet : x \in cond[p]
    BY <1>0, <2>0, CoverIff DEF CoverInv, Covered, GroupsSound
  <2>7. KeySet' = KeySet
    BY <2>2 DEF KeySet
  <2>8. \A o \in KeySet' : \A x \in Eligible[o] : \E p \in KeySet' : x \in cond'[p]
    BY <2>5, <2>6, <2>7
  <2>9. Covered(KeySet)'
    BY <1>0, <2>8, CoverIff DEF Covered, GroupsSound
  <2>10. pass' = [pass EXCEPT !.h = @ + 1]
    BY <1>9 DEF PassTake, Step
  <2>11. pass'.pc = "steal" /\ pass'.i = pass.i /\ pass'.h = pass.h + 1
    BY <2>0, <2>10 DEF Pass
  <2>12. pass.i < pass.h + 1
    BY <2>0 DEF CoverInv
  <2> QED  BY <2>9, <2>11, <2>12 DEF CoverInv, AllotCovers
<1>10. CASE PassNext
  <2>0. pass.pc = "steal" /\ pass \in Pass /\ pass.i \in Nat
    BY <1>10 DEF PassNext, TypeOK, Pass
  <2>1. Covered(KeySet)'
    <3>1. keys' = keys /\ cond' = cond
      BY <1>10 DEF PassNext, group
    <3>2. Covered(KeySet)' = Covered(KeySet)
      BY <3>1 DEF Covered, KeySet
    <3> QED  BY <2>0, <3>2 DEF CoverInv
  <2>2. CASE pass.i < Len(keys)
    <3>1. pass' = [pass EXCEPT !.i = @ + 1, !.h = pass.i + 2]
      BY <1>10, <2>2 DEF PassNext, NextKey, Step
    <3>2. pass'.pc = "steal" /\ pass'.i = pass.i + 1 /\ pass'.h = pass.i + 2
      BY <2>0, <3>1 DEF Pass
    <3> QED  BY <2>0, <2>1, <3>2 DEF CoverInv, AllotCovers
  <2>3. CASE ~(pass.i < Len(keys))
    <3>1. pass' = At("complete")
      BY <1>10, <2>3 DEF PassNext, NextKey, Step
    <3> QED  BY <2>1, <3>1, PassTypes DEF CoverInv, AllotCovers
  <2> QED  BY <2>2, <2>3
<1> QED
  BY <1>2, <1>3, <1>4, <1>5, <1>6, <1>7, <1>8, <1>9, <1>10 DEF Next, vars, group, JobRegist,
     JobStep, JobTurns, ClientStep, PassStep

-----------------------------------------------------------------------------
LEMMA InvInit == Init => ScheduleInv
<1> SUFFICES ASSUME Init PROVE ScheduleInv
  OBVIOUS
<1>1. TypeOK
  BY TypeInit
<1>2. pass.pc = "none"
  BY PassTypes DEF Init
<1>3. GroupsSound /\ RegisteredHaveGroup
  BY DEF Init, GroupsSound, RegisteredHaveGroup
<1> QED  BY <1>1, <1>2, <1>3 DEF ScheduleInv, Init

LEMMA InvStep == ScheduleInv /\ [Next]_vars => ScheduleInv'
<1> SUFFICES ASSUME ScheduleInv, [Next]_vars PROVE ScheduleInv'
  OBVIOUS
<1>1. TypeOK /\ GroupsSound /\ RegisteredHaveGroup /\ Documented /\ CoverInv
  BY DEF ScheduleInv, Documented, CoverInv, AllotCovers
<1>2. TypeOK' /\ GroupsSound' /\ RegisteredHaveGroup' /\ Documented' /\ CoverInv'
  BY <1>1, TypeStep, SoundStep, RegisteredStep, DocumentedStep, CoverStep
<1> QED  BY <1>2 DEF ScheduleInv, Documented, CoverInv, AllotCovers

(* The state of the scheduler stays well formed.                           *)
THEOREM ScheduleTypeCorrect == Spec => []TypeOK
<1>1. TypeOK /\ [Next]_vars => TypeOK'
  BY TypeStep
<1> QED  BY TypeInit, <1>1, PTL DEF Spec

(* The inductive invariant.                                                *)
THEOREM ScheduleInvariant == Spec => []ScheduleInv
<1> QED  BY InvInit, InvStep, PTL DEF Spec

(* The query of a group, which the irs client manager runs without looking *)
(* at the jobs again, only finds clients eligible for the group's jobs.    *)
THEOREM ScheduleSound == Spec => []GroupsSound
<1>1. ScheduleInv => GroupsSound
  BY DEF ScheduleInv
<1> QED  BY ScheduleInvariant, <1>1, PTL

(* A complete pass divides all eligible clients among the groups.          *)
THEOREM ScheduleCovers == Spec => []GroupsCover
<1>1. ScheduleInv => GroupsCover
  BY DEF ScheduleInv, GroupsCover
<1> QED  BY ScheduleInvariant, <1>1, PTL

(* Registered jobs that exist have a group unless a search failed.         *)
THEOREM ScheduleKeepsGroups == Spec => []RegisteredHaveGroup
<1>1. ScheduleInv => RegisteredHaveGroup
  BY DEF ScheduleInv
<1> QED  BY ScheduleInvariant, <1>1, PTL
=============================================================================
