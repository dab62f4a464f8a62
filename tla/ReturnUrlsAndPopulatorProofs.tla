-------------------- MODULE ReturnUrlsAndPopulatorProofs --------------------
(***************************************************************************)
(* Theorems of the two components whose state is a list: first of          *)
(* DatabasePopulator, for any entities, whatever they require of one       *)
(* another, then of ReturnUrls, for any pages, tabs and depth of the       *)
(* stack.                                                                  *)
(***************************************************************************)
EXTENDS ReturnUrls, DatabasePopulator, SequenceTheorems, TLAPS

(***************************************************************************)
(* Where the entities are after the kth one was put at the end of a list:  *)
(* those that followed it have moved up by one place.                      *)
(***************************************************************************)
PutLast(l, k) == Append(RemoveAt(l, k), l[k])

\* Where a place is that is not before the kth.
LEMMA Places ==
  ASSUME NEW n \in Nat, NEW k \in 1 .. n
  PROVE  /\ (k - 1) + (n - k) = n - 1
         /\ \A i \in 1 .. n : i \in 1 .. k - 1 \/ i \in k .. n - 1 \/ i = n
OBVIOUS

LEMMA PutLastPlaces ==
  ASSUME NEW l \in Seq(Entities), NEW k \in 1 .. Len(l)
  PROVE  /\ PutLast(l, k) \in Seq(Entities) /\ Len(PutLast(l, k)) = Len(l)
         /\ PutLast(l, k)[Len(l)] = l[k]
         /\ \A i \in 1 .. k - 1 : PutLast(l, k)[i] = l[i]
         /\ \A i \in k .. Len(l) - 1 : PutLast(l, k)[i] = l[i + 1]
<1> DEFINE before == SubSeq(l, 1, k - 1)
           after == SubSeq(l, k + 1, Len(l))
<1>1. Len(l) \in Nat /\ l[k] \in Entities
  OBVIOUS
<1>2. before \in Seq(Entities) /\ Len(before) = k - 1 /\ \A i \in 1 .. k - 1 : before[i] = l[i]
  OBVIOUS
<1>3. /\ after \in Seq(Entities) /\ Len(after) = Len(l) - k
      /\ \A i \in 1 .. Len(l) - k : after[i] = l[k + i]
  BY <1>1
<1> DEFINE rest == before \o after
<1> HIDE DEF before, after
<1>4. /\ rest \in Seq(Entities) /\ Len(rest) = Len(l) - 1
      /\ \A i \in 1 .. k - 1 : rest[i] = l[i]
  <2>1. rest \in Seq(Entities) BY <1>2, <1>3
  <2>2. Len(rest) = Len(before) + Len(after)
    <3>1. before \in Seq(Entities) /\ after \in Seq(Entities) BY <1>2, <1>3
    <3> QED BY <3>1
  <2>3. ASSUME NEW i \in 1 .. k - 1 PROVE rest[i] = before[i] BY <1>1, <1>2, <1>3
  <2>4. Len(rest) = Len(l) - 1 BY <1>1, <1>2, <1>3, <2>2, Places
  <2>5. \A i \in 1 .. k - 1 : rest[i] = l[i] BY <1>2, <2>3
  <2> QED BY <2>1, <2>4, <2>5
<1>5. ASSUME NEW i \in k .. Len(l) - 1 PROVE rest[i] = l[i + 1]
  <2>1. i - (k - 1) \in 1 .. Len(l) - k /\ rest[i] = after[i - (k - 1)]
    BY <1>1, <1>2, <1>3
  <2>2. k + (i - (k - 1)) = i + 1 BY <1>1
  <2> QED BY <2>1, <2>2, <1>3
<1>6. PutLast(l, k) = Append(rest, l[k])
  BY DEF PutLast, RemoveAt, before, after
<1> QED
  <2> HIDE DEF rest
  <2> QED BY <1>1, <1>4, <1>5, <1>6

(***************************************************************************)
(* So nothing is lost and nothing doubled.                                 *)
(***************************************************************************)
LEMMA PutLastKeepsEntities ==
  ASSUME NEW l, Lists(l), NEW k \in 1 .. Len(l)
  PROVE  Lists(PutLast(l, k))
<1> DEFINE d == PutLast(l, k)
           Was(i) == IF i < k THEN i ELSE IF i < Len(l) THEN i + 1 ELSE k
<1>1. l \in Seq(Entities) /\ Len(l) \in Nat /\ DOMAIN l = 1 .. Len(l) BY DEF Lists
<1>2. d \in Seq(Entities) /\ Len(d) = Len(l) /\ DOMAIN d = 1 .. Len(l)
  BY <1>1, PutLastPlaces
<1>3. ASSUME NEW i \in 1 .. Len(l) PROVE Was(i) \in 1 .. Len(l) /\ d[i] = l[Was(i)]
  <2>1. CASE i \in 1 .. k - 1
    <3>1. Was(i) = i BY <1>1, <2>1
    <3> QED BY <1>1, <2>1, <3>1, PutLastPlaces
  <2>2. CASE i \in k .. Len(l) - 1
    <3>1. Was(i) = i + 1 /\ i + 1 \in 1 .. Len(l) BY <1>1, <2>2
    <3> QED BY <1>1, <2>2, <3>1, PutLastPlaces
  <2>3. CASE i = Len(l)
    <3>1. ~(i < k) /\ ~(i < Len(l)) BY <1>1, <2>3
    <3>2. Was(i) = k BY <3>1
    <3> QED BY <1>1, <2>3, <3>2, PutLastPlaces
  <2>4. i \in 1 .. k - 1 \/ i \in k .. Len(l) - 1 \/ i = Len(l)
    BY <1>1, Places
  <2> QED
    <3> HIDE DEF Was
    <3> QED BY <2>1, <2>2, <2>3, <2>4
<1> HIDE DEF d
<1>4. ASSUME NEW e \in Entities PROVE \E i \in DOMAIN d : d[i] = e
  <2>1. PICK j \in 1 .. Len(l) : l[j] = e BY <1>1 DEF Lists
  <2>2. CASE j < k BY <1>1, <1>2, <1>3, <2>1, <2>2
  <2>3. CASE j = k
    <3>1. ~(Len(l) < k) /\ Len(l) \in 1 .. Len(l) BY <1>1
    <3>2. Was(Len(l)) = k BY <1>1, <3>1
    <3> QED BY <1>2, <1>3, <2>1, <2>3, <3>1, <3>2
  <2>4. CASE j > k
    <3>1. Was(j - 1) = j /\ j - 1 \in 1 .. Len(l) BY <1>1, <2>4
    <3> QED BY <1>2, <1>3, <2>1, <3>1
  <2> QED BY <1>1, <2>2, <2>3, <2>4
<1>5. ASSUME NEW i \in DOMAIN d, NEW j \in DOMAIN d, d[i] = d[j] PROVE i = j
  <2>1. Was(i) = Was(j) BY <1>1, <1>2, <1>3, <1>5 DEF Lists
  <2> QED BY <1>1, <1>2, <2>1
<1> QED BY <1>2, <1>4, <1>5 DEF Lists, d

-----------------------------------------------------------------------------
(***************************************************************************)
(* The invariant holds at first.                                           *)
(***************************************************************************)
LEMMA PopulatorInitInv == PopulatorInit => PopulatorInv
<1> SUFFICES ASSUME PopulatorInit PROVE PopulatorInv OBVIOUS
<1>1. Lists(list) /\ list \in Seq(Entities) /\ Len(list) \in Nat
  BY ListedAssumption DEF PopulatorInit, Lists
<1>2. DeferredOnce BY <1>1 DEF PopulatorInit, DeferredOnce
<1> QED BY <1>1, <1>2 DEF PopulatorInit, PopulatorInv, PopulatorTypeOK, OnlyChainsAreGivenUp

(***************************************************************************)
(* What the invariant says of an attempt that goes on.                     *)
(***************************************************************************)
LEMMA Trying ==
  ASSUME PopulatorInv, stage = "trying", count < Len(list)
  PROVE  /\ Len(list) \in Nat /\ count \in Nat /\ count + 1 \in 1 .. Len(list)
         /\ list[count + 1] \in Entities /\ requires[list[count + 1]] \in SUBSET Entities
BY DEF PopulatorInv, PopulatorTypeOK

(***************************************************************************)
(* Without chains, an entity that was deferred before is never in the way  *)
(* again: what it requires requires nothing, so it was not deferred and    *)
(* comes before all that were.                                             *)
(***************************************************************************)
LEMMA OnlyOnce ==
  ASSUME PopulatorInv, stage = "trying", count < Len(list), ~Chain,
         ~CanPersist(list[count + 1])
  PROVE  count + 1 <= Len(list) - attempts
<1> SUFFICES ASSUME ~(count + 1 <= Len(list) - attempts) PROVE FALSE OBVIOUS
<1> DEFINE x == list[count + 1]
<1>1. Len(list) \in Nat /\ count \in Nat /\ attempts \in Nat /\ x \in Entities
  BY Trying DEF PopulatorInv, PopulatorTypeOK
<1>2. PICK e \in requires[x] : e \notin Persisted BY DEF CanPersist
<1>3. e \in Entities BY <1>1, <1>2 DEF PopulatorInv, PopulatorTypeOK
<1>4. PICK i \in 1 .. Len(list) : list[i] = e
  BY <1>3 DEF PopulatorInv, PopulatorTypeOK, Lists
<1>5. ~(i <= count) BY <1>1, <1>2, <1>4 DEF Persisted
<1>6. i \in Len(list) - attempts + 1 .. Len(list) BY <1>1, <1>4, <1>5
<1>7. requires[e] # {} BY <1>4, <1>6 DEF PopulatorInv, DeferredOnce
<1>8. PICK c \in requires[e] : c \in Entities
  BY <1>3, <1>7 DEF PopulatorInv, PopulatorTypeOK
<1> QED BY <1>1, <1>2, <1>3, <1>8 DEF Chain

\* So each attempt that fails puts one more of them behind the others.
LEMMA DeferKeepsDeferredOnce ==
  ASSUME PopulatorInv, Defer
  PROVE  DeferredOnce'
<1> DEFINE n == Len(list)
           k == count + 1
<1>1. /\ n \in Nat /\ count \in Nat /\ k \in 1 .. n /\ list \in Seq(Entities)
      /\ list[k] \in Entities /\ attempts \in Nat /\ attempts < n
  BY Trying DEF PopulatorInv, PopulatorTypeOK, Defer
<1>2. list' = PutLast(list, k) BY DEF Defer, Deferred, PutLast
<1>3. /\ Len(list') = n /\ list'[n] = list[k]
      /\ \A i \in k .. n - 1 : list'[i] = list[i + 1]
  BY <1>1, <1>2, PutLastPlaces
<1>4. attempts' = attempts + 1 /\ requires' = requires /\ outcome' = outcome /\ (Chain' <=> Chain)
  BY DEF Defer, NextAttempt, file, Chain
<1>5. requires[list[k]] # {} BY DEF Defer, CanPersist
<1> SUFFICES ASSUME ~Chain, outcome # "charm", NEW i \in n - attempts .. n
             PROVE  requires[list'[i]] # {}
  <2>1. n - (attempts + 1) + 1 = n - attempts BY <1>1
  <2> QED BY <1>3, <1>4, <2>1 DEF DeferredOnce
<1>6. k <= n - attempts BY OnlyOnce DEF Defer
<1>7. CASE i = n BY <1>3, <1>5, <1>7
<1>8. CASE i # n
  <2>1. i \in k .. n - 1 /\ i + 1 \in n - attempts + 1 .. n BY <1>1, <1>6, <1>8
  <2> QED BY <2>1, <1>3 DEF PopulatorInv, DeferredOnce
<1> QED BY <1>7, <1>8

(***************************************************************************)
(* When as many attempts have failed as there are entities, all of them    *)
(* were deferred, and each requires one that requires another.             *)
(***************************************************************************)
LEMMA GiveUpOnChains ==
  ASSUME PopulatorInv, GiveUp
  PROVE  Chain
<1> SUFFICES ASSUME ~Chain PROVE FALSE OBVIOUS
<1>1. Len(list) \in Nat /\ attempts \in Nat /\ attempts = Len(list) /\ outcome # "charm"
  BY DEF PopulatorInv, PopulatorTypeOK, GiveUp, MoreAttempts
<1>2. \A i \in 1 .. Len(list) : requires[list[i]] # {}
  BY <1>1 DEF PopulatorInv, DeferredOnce
<1>3. \A e \in Entities : \E i \in 1 .. Len(list) : list[i] = e
  BY DEF PopulatorInv, PopulatorTypeOK, Lists
<1>4. \A e \in Entities : \E f \in Entities : f \in requires[e]
  BY <1>2, <1>3 DEF PopulatorInv, PopulatorTypeOK
<1> QED BY <1>4, ListedAssumption DEF Chain

(***************************************************************************)
(* One case for each step of the populator.                                *)
(***************************************************************************)
LEMMA PopulatorStep == PopulatorInv /\ [PopulatorNext]_populatorVars => PopulatorInv'
<1> SUFFICES ASSUME PopulatorInv, [PopulatorNext]_populatorVars PROVE PopulatorInv'
  OBVIOUS
<1> USE DEF PopulatorInv, PopulatorTypeOK, file
<1>0. Len(list) \in Nat OBVIOUS
<1>1. CASE Validate
  <2>1. DeferredOnce' BY <1>1 DEF Validate, DeferredOnce, Chain
  <2>2. OnlyChainsAreGivenUp' BY <1>1 DEF Validate, OnlyChainsAreGivenUp, Chain
  <2> QED BY <1>1, <2>1, <2>2 DEF Validate, Lists
<1>2. CASE TryPersist
  <2>1. DeferredOnce' BY <1>2 DEF TryPersist, DeferredOnce, Chain
  <2>2. OnlyChainsAreGivenUp' BY <1>2 DEF TryPersist, OnlyChainsAreGivenUp, Chain
  <2>3. Ordered(count)' BY <1>2 DEF TryPersist, Ordered
  <2> QED BY <1>0, <1>2, <2>1, <2>2, <2>3 DEF TryPersist, MoreAttempts, Lists
<1>3. CASE GiveUp
  <2>1. DeferredOnce' BY <1>3 DEF GiveUp, DeferredOnce, Chain
  <2>2. OnlyChainsAreGivenUp' BY <1>3, GiveUpOnChains DEF GiveUp, OnlyChainsAreGivenUp, Chain
  <2> QED BY <1>3, <2>1, <2>2 DEF GiveUp, Lists
<1>4. CASE Persist
  <2>1. DeferredOnce' BY <1>4 DEF Persist, DeferredOnce, Chain
  <2>2. OnlyChainsAreGivenUp' BY <1>4 DEF Persist, OnlyChainsAreGivenUp, Chain
  <2>3. count + 1 \in 1 .. Len(list) /\ list[count + 1] \in Entities
    BY <1>4, Trying DEF Persist
  <2>4. Ordered(count)'
    <3>1. count' = count + 1 /\ list' = list /\ requires' = requires /\ count \in Nat /\ Ordered(count)
      BY <1>4 DEF Persist
    <3>2. \A e \in requires[list[count + 1]] : \E k \in 1 .. count : list[k] = e
      BY <1>4 DEF Persist, CanPersist, Persisted
    <3> SUFFICES ASSUME NEW i \in 1 .. count + 1, NEW e \in requires[list[i]]
                 PROVE  \E k \in 1 .. i - 1 : list[k] = e
      BY <3>1 DEF Ordered
    <3>3. CASE i = count + 1
      <4>1. i - 1 = count BY <3>1, <3>3
      <4> QED BY <3>2, <3>3, <4>1
    <3>4. CASE i # count + 1
      <4>1. i \in 1 .. count BY <3>1, <3>4
      <4> QED BY <3>1, <4>1 DEF Ordered
    <3> QED BY <3>3, <3>4
  <2> QED BY <1>0, <1>4, <2>1, <2>2, <2>3, <2>4 DEF Persist, Lists
<1>5. CASE Defer
  <2>1. DeferredOnce' BY <1>5, DeferKeepsDeferredOnce
  <2>2. OnlyChainsAreGivenUp' BY <1>5 DEF Defer, OnlyChainsAreGivenUp
  <2>3. count + 1 \in 1 .. Len(list) /\ list[count + 1] \in Entities /\ attempts < Len(list)
    BY <1>5, Trying DEF Defer
  <2>4. list' = PutLast(list, count + 1) BY <1>5 DEF Defer, Deferred, PutLast
  <2>5. Lists(PutLast(list, count + 1)) BY <2>3, PutLastKeepsEntities
  <2>6. list' \in Seq(Entities) /\ Len(list') = Len(list) /\ Lists(list)'
    BY <2>3, <2>4, <2>5, PutLastPlaces DEF Lists
  <2> QED BY <1>0, <1>5, <2>1, <2>2, <2>3, <2>6 DEF Defer, NextAttempt
<1>6. CASE Commit
  <2>1. DeferredOnce' BY <1>6 DEF Commit, DeferredOnce
  <2>2. OnlyChainsAreGivenUp' BY <1>6 DEF Commit, OnlyChainsAreGivenUp
  <2>3. Persisted = Entities BY <1>6 DEF Commit, Persisted, Lists
  <2>4. Ordered(count)' BY <1>6 DEF Commit, Ordered
  <2>5. attempts < Len(list) BY <1>6 DEF Commit
  <2>6. stored' \in {{}, Entities} BY <1>6, <2>3 DEF Commit
  <2>7. (attempts' <= Len(list) /\ attempts' \in Nat) BY <1>0, <1>6, <2>5 DEF Commit, NextAttempt
  <2> QED BY <1>6, <2>1, <2>2, <2>4, <2>6, <2>7 DEF Commit, Lists
<1>7. CASE SaveEntityMap
  <2>1. DeferredOnce' BY <1>7 DEF SaveEntityMap, DeferredOnce, Chain
  <2>2. OnlyChainsAreGivenUp' BY <1>7 DEF SaveEntityMap, OnlyChainsAreGivenUp, Chain
  <2>3. Ordered(count)' <=> Ordered(count) BY <1>7 DEF SaveEntityMap, Ordered
  <2> QED BY <1>7, <2>1, <2>2, <2>3 DEF SaveEntityMap, Lists
<1>8. CASE UNCHANGED populatorVars
  BY <1>8 DEF populatorVars, DeferredOnce, OnlyChainsAreGivenUp, Chain, Ordered, Lists
<1> QED BY <1>1, <1>2, <1>3, <1>4, <1>5, <1>6, <1>7, <1>8 DEF PopulatorNext

(***************************************************************************)
(* However often persist puts an entity back and starts again, the list    *)
(* keeps every entity and no attempt leaves anything behind.               *)
(***************************************************************************)
THEOREM PopulatorInvariant == PopulatorSpec => []PopulatorInv
BY PopulatorInitInv, PopulatorStep, PTL DEF PopulatorSpec

(***************************************************************************)
(* The order found by trial is one in which every entity comes after those *)
(* that it requires, and the database gets all of them or none.            *)
(***************************************************************************)
THEOREM StoredEntitiesAreInOrder == PopulatorSpec => []StoredInOrder
<1>1. PopulatorInv => StoredInOrder BY DEF PopulatorInv, StoredInOrder
<1> QED BY <1>1, PopulatorInvariant, PTL

(***************************************************************************)
(* As many attempts as there are entities are enough for every file of     *)
(* valid entities without three that require one another in a row.         *)
(***************************************************************************)
THEOREM ChainsAloneAreGivenUp == PopulatorSpec => []OnlyChainsAreGivenUp
<1>1. PopulatorInv => OnlyChainsAreGivenUp BY DEF PopulatorInv
<1> QED BY <1>1, PopulatorInvariant, PTL

(***************************************************************************)
(* Each step of the populator brings the end nearer: a step inside a trial *)
(* by one, the end of a trial by what was left of it.                      *)
(***************************************************************************)
LEMMA TrialsInHand ==
  ASSUME NEW n \in Nat, NEW a \in Nat
  PROVE  /\ a <= n => (n - a) * (n + 2) \in Nat
         /\ a < n => /\ (n - a) * (n + 2) >= n + 2
                     /\ (n - (a + 1)) * (n + 2) = (n - a) * (n + 2) - (n + 2)
<1>1. ASSUME a <= n PROVE (n - a) * (n + 2) \in Nat
  <2>1. n - a \in Nat /\ n + 2 \in Nat BY <1>1
  <2> QED BY <2>1
<1>2. ASSUME a < n PROVE /\ (n - a) * (n + 2) >= n + 2
                         /\ (n - (a + 1)) * (n + 2) = (n - a) * (n + 2) - (n + 2)
  <2>1. PICK b \in Nat : n - a = b + 1
    <3>1. n - a - 1 \in Nat /\ n - a = (n - a - 1) + 1 BY <1>2
    <3> QED BY <3>1
  <2>2. n - (a + 1) = b BY <2>1
  <2>3. (b + 1) * (n + 2) = b * (n + 2) + (n + 2) OBVIOUS
  <2>4. b * (n + 2) \in Nat OBVIOUS
  <2> QED BY <2>1, <2>2, <2>3, <2>4
<1> QED BY <1>1, <1>2

LEMMA StepsAreLeft == PopulatorInv => StepsLeft \in Nat
<1> SUFFICES ASSUME PopulatorInv PROVE StepsLeft \in Nat OBVIOUS
<1>1. Len(list) \in Nat /\ attempts \in Nat /\ count \in Nat /\ attempts <= Len(list) /\ count <= Len(list)
  BY DEF PopulatorInv, PopulatorTypeOK
<1>2. TrialStepsLeft \in Nat BY <1>1, TrialsInHand DEF TrialStepsLeft
<1>3. stage = "trying" => TrialStepsLeft >= Len(list) + 2
  BY <1>1, TrialsInHand DEF TrialStepsLeft, PopulatorInv
<1>4. stage \in {"validating", "sorting", "trying", "saving", "done"}
  BY DEF PopulatorInv, PopulatorTypeOK
<1> QED BY <1>1, <1>2, <1>3, <1>4 DEF StepsLeft

LEMMA EachStepCounts == PopulatorInv /\ PopulatorNext => StepsLeft' < StepsLeft
<1> SUFFICES ASSUME PopulatorInv, PopulatorNext PROVE StepsLeft' < StepsLeft OBVIOUS
<1> DEFINE n == Len(list)
           t == TrialStepsLeft
<1>1. n \in Nat /\ attempts \in Nat /\ count \in Nat /\ attempts <= n /\ count <= n
  BY DEF PopulatorInv, PopulatorTypeOK
<1>2. t \in Nat BY <1>1, TrialsInHand DEF TrialStepsLeft
<1>3. attempts < n => t >= n + 2
  BY <1>1, TrialsInHand DEF TrialStepsLeft
<1>4. stage = "trying" => attempts < n BY DEF PopulatorInv
<1>5. list' = list /\ attempts' = attempts => TrialStepsLeft' = t
  BY DEF TrialStepsLeft
<1>6. CASE Defer
  <2>1. count < n /\ count + 1 \in 1 .. n BY <1>6, Trying DEF Defer
  <2>2. Len(list') = n
    BY <1>6, <2>1, PutLastPlaces DEF Defer, Deferred, PutLast, PopulatorInv, PopulatorTypeOK
  <2>3. attempts' = attempts + 1 /\ stage = "trying" /\ stage' = "sorting"
    BY <1>6 DEF Defer, NextAttempt
  <2>4. TrialStepsLeft' = t - (n + 2)
    BY <1>1, <1>4, <2>2, <2>3, TrialsInHand DEF TrialStepsLeft
  <2>5. StepsLeft = t + 1 - count /\ StepsLeft' = TrialStepsLeft' + 2 BY <2>3 DEF StepsLeft
  <2> HIDE DEF n, t
  <2> QED BY <1>1, <1>2, <2>1, <2>4, <2>5
<1>7. CASE Validate
  <2>1. stage = "validating" /\ stage' \in {"sorting", "saving"} /\ TrialStepsLeft' = t
    BY <1>5, <1>7 DEF Validate
  <2>2. StepsLeft = t + 3 /\ (StepsLeft' = t + 2 \/ StepsLeft' = 1) BY <2>1 DEF StepsLeft
  <2> QED BY <1>2, <2>2
<1>8. CASE TryPersist
  <2>1. stage = "sorting" /\ stage' = "trying" /\ count' = 0 /\ TrialStepsLeft' = t
    BY <1>5, <1>8 DEF TryPersist
  <2>2. StepsLeft = t + 2 /\ StepsLeft' = t + 1 - 0 BY <2>1 DEF StepsLeft
  <2> QED BY <1>2, <2>2
<1>9. CASE GiveUp
  <2>1. StepsLeft = t + 2 /\ StepsLeft' = 1 BY <1>9 DEF GiveUp, StepsLeft
  <2> QED BY <1>2, <2>1
<1>10. CASE Persist
  <2>1. stage = "trying" /\ stage' = "trying" /\ count' = count + 1 /\ TrialStepsLeft' = t
    BY <1>5, <1>10 DEF Persist
  <2>2. StepsLeft = t + 1 - count /\ StepsLeft' = t + 1 - (count + 1) BY <2>1 DEF StepsLeft
  <2> QED BY <1>1, <1>2, <2>2
<1>11. CASE Commit
  <2>1. StepsLeft = t + 1 - count /\ StepsLeft' = 1 /\ stage = "trying" BY <1>11 DEF Commit, StepsLeft
  <2> QED BY <1>1, <1>2, <1>3, <1>4, <2>1
<1>12. CASE SaveEntityMap
  BY <1>12 DEF SaveEntityMap, StepsLeft
<1> QED BY <1>6, <1>7, <1>8, <1>9, <1>10, <1>11, <1>12 DEF PopulatorNext

(***************************************************************************)
(* The loops of populate, persist and tryPersist end: there are always     *)
(* finitely many steps left, and every step leaves fewer.                  *)
(***************************************************************************)
THEOREM TrialsRunOut == PopulatorSpec => StepsRunOut
<1>1. PopulatorInv /\ [PopulatorNext]_populatorVars => [StepsLeft' < StepsLeft]_populatorVars
  BY EachStepCounts
<1> QED BY <1>1, PopulatorInvariant, StepsAreLeft, PTL DEF PopulatorSpec, StepsRunOut

-----------------------------------------------------------------------------
USE SeparatorAssumption, NullAssumption, PagesAssumption, LinksAssumption, BoundsAssumption

Stored == {s \in Strings : Joined(s)} \union {Null}

-----------------------------------------------------------------------------
(***************************************************************************)
(* What the operations on the string do to a stack of joined listings.     *)
(***************************************************************************)
LEMMA OddLength ==
  ASSUME NEW n \in Nat, n % 2 = 1
  PROVE  (n - 1) % 2 = 0 /\ (n = 1 \/ n >= 3)
OBVIOUS

LEMMA HalfOfOdd ==
  ASSUME NEW n \in Nat, n % 2 = 1
  PROVE  (n + 1) \div 2 \in Nat /\ 2 * ((n + 1) \div 2) = n + 1
OBVIOUS

LEMMA PushedType ==
  ASSUME NEW s \in Strings \union {Null}, NEW url \in Listings
  PROVE  Pushed(s, url) \in Strings /\ Pushed(s, url) # Null
<1> DEFINE Pieces == Listings \union {returnStackSeparator}
<1>1. <<url>> \in Seq(Pieces) /\ <<returnStackSeparator, url>> \in Seq(Pieces)
  OBVIOUS
<1>2. CASE s = Null BY <1>1, <1>2 DEF Pushed, Strings
<1>3. CASE s # Null
  <2>1. s \o <<returnStackSeparator, url>> \in Seq(Pieces) BY <1>1, <1>3 DEF Strings
  <2> QED BY <1>3, <2>1 DEF Pushed, Strings
<1> QED BY <1>2, <1>3

LEMMA PushedParts ==
  ASSUME NEW s \in Strings, NEW url \in Listings
  PROVE  /\ Len(Pushed(s, url)) = Len(s) + 2
         /\ Pushed(s, url)[Len(s) + 1] = returnStackSeparator
         /\ Pushed(s, url)[Len(s) + 2] = url
         /\ \A i \in 1..Len(s) : Pushed(s, url)[i] = s[i]
BY DEF Pushed, Strings

LEMMA PushedJoined ==
  ASSUME NEW s \in Stored, NEW url \in Listings
  PROVE  /\ Pushed(s, url) \in Stored /\ Pushed(s, url) # Null
         /\ Pushed(s, url)[Len(Pushed(s, url))] = url
<1>1. CASE s = Null
  <2>1. Pushed(s, url) = <<url>> BY <1>1 DEF Pushed
  <2>2. Joined(<<url>>) BY DEF Joined
  <2> QED BY <2>1, <2>2, PushedType DEF Stored
<1>2. CASE s # Null
  <2>1. s \in Strings /\ Joined(s) BY <1>2 DEF Stored
  <2>2. Len(s) \in Nat BY <2>1 DEF Strings
  <2> DEFINE p == Pushed(s, url)
  <2>3. Len(p) = Len(s) + 2 /\ Len(p) % 2 = 1
    BY <2>1, <2>2, PushedParts DEF Joined
  <2>4. ASSUME NEW i \in 1..Len(p)
        PROVE  p[i] = returnStackSeparator <=> i % 2 = 0
    <3>1. CASE i \in 1..Len(s) BY <3>1, <2>1, PushedParts DEF Joined
    <3>2. CASE i = Len(s) + 1
      BY <3>2, <2>1, <2>2, PushedParts DEF Joined
    <3>3. CASE i = Len(s) + 2
      <4>1. p[i] = url BY <3>3, <2>1, PushedParts
      <4>2. i % 2 = 1 BY <3>3, <2>1, <2>2 DEF Joined
      <4> QED BY <4>1, <4>2
    <3> QED BY <2>2, <2>3, <3>1, <3>2, <3>3
  <2> QED BY <2>1, <2>3, <2>4, PushedType, PushedParts DEF Joined, Stored
<1> QED BY <1>1, <1>2

LEMMA LastSeparator ==
  ASSUME NEW s \in Strings, Joined(s)
  PROVE  LastIndexOf(s) = Len(s) - 1 /\ Len(s) \in Nat \ {0}
<1>1. Len(s) \in Nat \ {0} BY DEF Joined, Strings
<1>2. CASE Len(s) = 1
  <2>1. \A i \in 1..Len(s) : s[i] # returnStackSeparator BY <1>2 DEF Joined
  <2> QED BY <1>2, <2>1 DEF LastIndexOf
<1>3. CASE Len(s) # 1
  <2> DEFINE n == Len(s) - 1
             IsLast(i) == /\ s[i] = returnStackSeparator
                          /\ \A j \in i+1..Len(s) : s[j] # returnStackSeparator
  <2>1. n \in 1..Len(s) /\ n % 2 = 0
    <3>1. Len(s) % 2 = 1 BY DEF Joined
    <3>2. (Len(s) - 1) % 2 = 0 /\ Len(s) >= 3 BY <1>1, <1>3, <3>1, OddLength
    <3> HIDE BoundsAssumption, LinksAssumption, PagesAssumption
    <3>3. Len(s) - 1 \in 1..Len(s) BY <1>1, <3>2
    <3> QED BY <3>2, <3>3
  <2>2. s[n] = returnStackSeparator BY <2>1 DEF Joined
  <2>3. s[Len(s)] # returnStackSeparator BY <1>1 DEF Joined
  <2>4. \A j \in n+1..Len(s) : j = Len(s) BY <1>1
  <2>5. IsLast(n) BY <2>2, <2>3, <2>4
  <2>6. ASSUME NEW i \in 1..Len(s), IsLast(i) PROVE i = n
    <3>1. i # Len(s) BY <2>3, <2>6
    <3>2. ~(i < n)
      <4>1. i < n => n \in i+1..Len(s) BY <1>1
      <4> QED BY <4>1, <2>2, <2>6
    <3> QED BY <3>1, <3>2, <1>1
  <2>7. (CHOOSE i \in 1..Len(s) : IsLast(i)) = n BY <2>1, <2>5, <2>6
  <2>8. ~ \A i \in 1..Len(s) : s[i] # returnStackSeparator BY <2>1, <2>2
  <2> QED BY <1>1, <2>7, <2>8 DEF LastIndexOf
<1> QED BY <1>1, <1>2, <1>3

LEMMA PoppedJoined ==
  ASSUME NEW s \in Stored
  PROVE  Popped(s) \in Stored
<1>1. CASE s = Null BY <1>1 DEF Popped, Stored
<1>2. CASE s # Null
  <2>1. s \in Strings /\ Joined(s) BY <1>2 DEF Stored
  <2>2. LastIndexOf(s) = Len(s) - 1 /\ Len(s) \in Nat \ {0} BY <2>1, LastSeparator
  <2>3. CASE Len(s) = 1 BY <2>2, <2>3 DEF Popped, Stored
  <2>4. CASE Len(s) # 1
    <3> DEFINE p == SubSeq(s, 1, Len(s) - 2)
    <3>1. Len(s) >= 3 BY <2>1, <2>2, <2>4, OddLength DEF Joined
    <3>2. p \in Strings /\ Len(p) = Len(s) - 2 BY <2>1, <3>1 DEF Strings
    <3>3. \A i \in 1..Len(p) : p[i] = s[i] BY <2>1, <3>1, <3>2 DEF Strings
    <3>4. Joined(p) BY <2>1, <3>1, <3>2, <3>3 DEF Joined
    <3>5. Popped(s) = p BY <1>2, <2>2, <2>4 DEF Popped
    <3> QED BY <3>2, <3>4, <3>5 DEF Stored
  <2> QED BY <2>3, <2>4
<1> QED BY <1>1, <1>2

(***************************************************************************)
(* A pop leads to the listing on top, or to the welcome page.              *)
(***************************************************************************)
LEMMA PopResultIsTop ==
  ASSUME NEW s \in Stored
  PROVE  /\ Len(PopResult(s)) = 1
         /\ PopResult(s)[1] = Top(s)
         /\ Top(s) \in Listings \union {Welcome}
<1>1. CASE s = Null BY <1>1 DEF PopResult, Top
<1>2. CASE s # Null
  <2>1. s \in Strings /\ Joined(s) BY <1>2 DEF Stored
  <2>2. LastIndexOf(s) = Len(s) - 1 /\ Len(s) \in Nat \ {0} BY <2>1, LastSeparator
  <2>3. PopResult(s) = SubSeq(s, Len(s), Len(s)) BY <1>2, <2>2 DEF PopResult
  <2>4. Len(SubSeq(s, Len(s), Len(s))) = 1 /\ SubSeq(s, Len(s), Len(s))[1] = s[Len(s)]
    BY <2>1, <2>2 DEF Strings
  <2>5. s[Len(s)] \in Listings BY <2>1, <2>2 DEF Joined, Strings
  <2> QED BY <1>2, <2>3, <2>4, <2>5 DEF Top
<1> QED BY <1>1, <1>2

-----------------------------------------------------------------------------
(***************************************************************************)
(* The listings that a string names: a push adds one, a pop removes it.    *)
(***************************************************************************)
LEMMA SplitLength ==
  ASSUME NEW s \in Stored
  PROVE  /\ Split(s) \in Seq(Listings)
         /\ s = Null => Split(s) = <<>>
         /\ s # Null => /\ Len(Split(s)) \in Nat
                        /\ 2 * Len(Split(s)) = Len(s) + 1
<1>1. CASE s = Null BY <1>1 DEF Split
<1>2. CASE s # Null
  <2>1. s \in Strings /\ Joined(s) BY <1>2 DEF Stored
  <2>2. Len(s) \in Nat \ {0} /\ Len(s) % 2 = 1 BY <2>1, LastSeparator DEF Joined
  <2> DEFINE n == (Len(s) + 1) \div 2
  <2>3. n \in Nat /\ 2 * n = Len(s) + 1 BY <2>2, HalfOfOdd
  <2>4. \A i \in 1..n : 2 * i - 1 \in 1..Len(s) /\ (2 * i - 1) % 2 # 0
    <3> HIDE DEF n
    <3> QED BY <2>2, <2>3
  <2>5. ASSUME NEW i \in 1..n PROVE s[2 * i - 1] \in Listings
    <3>1. 2 * i - 1 \in 1..Len(s) /\ (2 * i - 1) % 2 # 0 BY <2>4
    <3>2. s[2 * i - 1] # returnStackSeparator BY <2>1, <3>1 DEF Joined
    <3>3. s[2 * i - 1] \in Listings \union {returnStackSeparator}
      BY <2>1, <3>1 DEF Strings
    <3> QED BY <3>2, <3>3
  <2>6. Split(s) = [i \in 1..n |-> s[2 * i - 1]] BY <1>2 DEF Split
  <2>7. [i \in 1..n |-> s[2 * i - 1]] \in Seq(Listings) BY <2>3, <2>5
  <2>8. Len([i \in 1..n |-> s[2 * i - 1]]) = n BY <2>3, <2>7
  <2>9. Len(Split(s)) = n /\ Split(s) \in Seq(Listings) BY <2>6, <2>7, <2>8
  <2> HIDE DEF n
  <2> QED BY <1>2, <2>3, <2>9
<1> QED BY <1>1, <1>2

LEMMA SplitAt ==
  ASSUME NEW s \in Stored, s # Null, NEW i \in 1..Len(Split(s))
  PROVE  Split(s)[i] = s[2 * i - 1]
BY SplitLength DEF Split

LEMMA SplitPushed ==
  ASSUME NEW s \in Stored, NEW url \in Listings
  PROVE  Split(Pushed(s, url)) = Append(Split(s), url)
<1> DEFINE p == Pushed(s, url)
<1>0. p \in Stored /\ p # Null BY PushedJoined
<1>1. CASE s = Null
  <2>1. p = <<url>> /\ Split(s) = <<>> BY <1>1, SplitLength DEF Pushed
  <2>2. Len(Split(p)) = 1 /\ Split(p) \in Seq(Listings)
    <3>1. Len(p) = 1 BY <2>1
    <3>2. Len(Split(p)) \in Nat /\ 2 * Len(Split(p)) = Len(p) + 1
      BY <1>0, SplitLength
    <3> QED BY <1>0, <3>1, <3>2, SplitLength
  <2>3. Split(p)[1] = url BY <1>0, <2>1, <2>2, SplitAt
  <2> QED BY <2>1, <2>2, <2>3
<1>2. CASE s # Null
  <2>1. s \in Strings /\ Joined(s) BY <1>2 DEF Stored
  <2>2. Len(s) \in Nat \ {0} /\ Len(s) % 2 = 1 BY <2>1, LastSeparator DEF Joined
  <2>3. Len(p) = Len(s) + 2 BY <2>1, PushedParts
  <2> DEFINE n == Len(Split(s))
  <2>4. /\ n \in Nat /\ 2 * n = Len(s) + 1
        /\ Split(s) \in Seq(Listings)
    BY <1>2, <2>2, SplitLength
  <2>5. Len(Split(p)) = n + 1 /\ Split(p) \in Seq(Listings)
    BY <1>0, <2>2, <2>3, <2>4, SplitLength
  <2>6. Split(p)[n + 1] = url
    <3>1. Split(p)[n + 1] = p[2 * (n + 1) - 1] BY <1>0, <2>4, <2>5, SplitAt
    <3>2. 2 * (n + 1) - 1 = Len(s) + 2 BY <2>2, <2>4
    <3> QED BY <2>1, <3>1, <3>2, PushedParts
  <2>7. ASSUME NEW i \in 1..n PROVE Split(p)[i] = Split(s)[i]
    <3>1. Split(p)[i] = p[2 * i - 1] BY <1>0, <2>4, <2>5, SplitAt
    <3>2. Split(s)[i] = s[2 * i - 1] BY <1>2, SplitAt
    <3>3. 2 * i - 1 \in 1..Len(s) BY <2>2, <2>4
    <3> QED BY <2>1, <3>1, <3>2, <3>3, PushedParts
  <2> HIDE DEF p, n
  <2> QED BY <2>4, <2>5, <2>6, <2>7 DEF n, p
<1> QED BY <1>1, <1>2

LEMMA SplitTop ==
  ASSUME NEW s \in Stored
  PROVE  Stack!Top(Split(s)) = Top(s)
<1>1. CASE s = Null BY <1>1, SplitLength DEF Stack!Top, Top
<1>2. CASE s # Null
  <2>1. s \in Strings /\ Joined(s) BY <1>2 DEF Stored
  <2>2. Len(s) \in Nat \ {0} /\ Len(s) % 2 = 1 BY <2>1, LastSeparator DEF Joined
  <2>3. Len(Split(s)) \in Nat /\ 2 * Len(Split(s)) = Len(s) + 1
    BY <1>2, <2>2, SplitLength
  <2>4. Split(s)[Len(Split(s))] = s[Len(s)]
    <3>1. Len(Split(s)) \in 1..Len(Split(s)) BY <2>2, <2>3
    <3>2. 2 * Len(Split(s)) - 1 = Len(s) BY <2>2, <2>3
    <3> QED BY <1>2, <3>1, <3>2, SplitAt
  <2>5. Split(s) # <<>> BY <2>2, <2>3
  <2> QED BY <1>2, <2>4, <2>5 DEF Stack!Top, Top
<1> QED BY <1>1, <1>2

LEMMA SplitPopped ==
  ASSUME NEW s \in Stored
  PROVE  Split(Popped(s)) = Stack!Below(Split(s))
<1> DEFINE p == Popped(s)
<1>0. p \in Stored BY PoppedJoined
<1>1. CASE s = Null
  BY <1>1, SplitLength, <1>0 DEF Stack!Below, Popped
<1>2. CASE s # Null
  <2>1. s \in Strings /\ Joined(s) BY <1>2 DEF Stored
  <2>2. /\ Len(s) \in Nat \ {0} /\ Len(s) % 2 = 1
        /\ LastIndexOf(s) = Len(s) - 1
    BY <2>1, LastSeparator DEF Joined
  <2> DEFINE n == Len(Split(s))
  <2>3. n \in Nat /\ 2 * n = Len(s) + 1 /\ Split(s) \in Seq(Listings)
    BY <1>2, SplitLength
  <2>4. Split(s) # <<>> BY <2>2, <2>3
  <2>5. Stack!Below(Split(s)) = SubSeq(Split(s), 1, n - 1) BY <2>4 DEF Stack!Below
  <2>6. CASE Len(s) = 1
    <3>1. p = Null BY <1>2, <2>2, <2>6 DEF Popped
    <3>2. n = 1
      <4> HIDE DEF n
      <4> QED BY <2>3, <2>6
    <3>3. SubSeq(Split(s), 1, 0) = <<>> BY <2>3
    <3> QED BY <1>0, <2>5, <3>1, <3>2, <3>3, SplitLength
  <2>7. CASE Len(s) # 1
    <3>1. Len(s) >= 3 BY <2>2, <2>7, OddLength
    <3>2. p = SubSeq(s, 1, Len(s) - 2) BY <1>2, <2>2, <2>7 DEF Popped
    <3>3. p \in Strings /\ Len(p) = Len(s) - 2 /\ \A i \in 1..Len(p) : p[i] = s[i]
      <4> DEFINE q == SubSeq(s, 1, Len(s) - 2)
      <4>1. q \in Strings /\ Len(q) = Len(s) - 2 /\ \A i \in 1..Len(q) : q[i] = s[i]
        BY <2>1, <2>2, <3>1 DEF Strings
      <4> QED BY <3>2, <4>1
    <3>4. p # Null BY <3>3 DEF Strings
    <3>5. Len(Split(p)) = n - 1 /\ Split(p) \in Seq(Listings)
      <4>1. 2 * Len(Split(p)) = Len(p) + 1 /\ Len(Split(p)) \in Nat
        BY <1>0, <3>4, SplitLength
      <4>2. Split(p) \in Seq(Listings) BY <1>0, SplitLength
      <4> HIDE DEF n, p
      <4> QED BY <2>2, <2>3, <3>3, <4>1, <4>2
    <3>6. ASSUME NEW i \in 1..n-1 PROVE Split(p)[i] = Split(s)[i]
      <4>1. i \in 1..Len(Split(p)) /\ i \in 1..Len(Split(s)) BY <2>3, <3>5
      <4>2. Split(p)[i] = p[2 * i - 1] BY <1>0, <3>4, <4>1, SplitAt
      <4>3. Split(s)[i] = s[2 * i - 1] BY <1>2, <4>1, SplitAt
      <4>4. 2 * i - 1 \in 1..Len(p)
        <5> HIDE DEF n, p
        <5> QED BY <2>2, <2>3, <3>1, <3>3
      <4> QED BY <3>3, <4>2, <4>3, <4>4
    <3>7. n - 1 \in Nat
      <4> HIDE DEF n
      <4> QED BY <2>2, <2>3
    <3>8. /\ Len(SubSeq(Split(s), 1, n - 1)) = n - 1
          /\ SubSeq(Split(s), 1, n - 1) \in Seq(Listings)
          /\ \A i \in 1..n-1 : SubSeq(Split(s), 1, n - 1)[i] = Split(s)[i]
      <4>1. ASSUME NEW z \in Seq(Listings), Len(z) - 1 \in Nat
            PROVE  /\ Len(SubSeq(z, 1, Len(z) - 1)) = Len(z) - 1
                   /\ SubSeq(z, 1, Len(z) - 1) \in Seq(Listings)
                   /\ \A i \in 1..Len(z)-1 : SubSeq(z, 1, Len(z) - 1)[i] = z[i]
        <5> DEFINE k == Len(z) - 1
        <5>1. \A i \in 1..k : z[i] \in Listings BY <4>1
        <5>2. k \in Nat /\ k \in Int /\ 1 \in Int BY <4>1
        <5> HIDE DEF k
        <5>3. /\ SubSeq(z, 1, k) \in Seq(Listings)
              /\ Len(SubSeq(z, 1, k)) = IF 1 <= k THEN k - 1 + 1 ELSE 0
              /\ \A i \in 1..k-1+1 : SubSeq(z, 1, k)[i] = z[1 + i - 1]
          BY <5>1, <5>2, SubSeqProperties
        <5>4. Len(SubSeq(z, 1, k)) = k BY <5>2, <5>3
        <5>5. \A i \in 1..k : SubSeq(z, 1, k)[i] = z[i] BY <5>2, <5>3
        <5> QED BY <5>3, <5>4, <5>5 DEF k
      <4> QED BY <2>3, <3>7, <4>1
    <3> HIDE DEF p, n
    <3>9. Split(p) = SubSeq(Split(s), 1, n - 1) BY <3>5, <3>6, <3>7, <3>8
    <3> QED BY <2>5, <3>9 DEF p
  <2> QED BY <2>6, <2>7
<1> QED BY <1>1, <1>2

-----------------------------------------------------------------------------
(***************************************************************************)
(* Steps of one tab.                                                       *)
(***************************************************************************)
LEMMA StoredStrings ==
  ASSUME TypeOK, Healthy
  PROVE  \A t \in Tabs : storage[t] \in Stored
BY DEF TypeOK, Healthy, Stored

LEMMA StoredIsTyped == Stored \subseteq Strings \union {Null}
BY DEF Stored

LEMMA RememberType ==
  ASSUME TypeOK, NEW t \in Tabs, at[t] # Closed, Remember(t)
  PROVE  back' \in [Tabs -> Seq(Pages)]
<1>1. at[t] \in Pages /\ back[t] \in Seq(Pages) BY DEF TypeOK
<1>2. Append(back[t], at[t]) \in Seq(Pages) /\ Len(Append(back[t], at[t])) # 0
  BY <1>1
<1>3. Append(back[t], at[t]) # <<>> BY <1>2
<1>4. Tail(Append(back[t], at[t])) \in Seq(Pages) BY <1>2, <1>3, HeadTailProperties
<1>5. Remembered(Append(back[t], at[t])) \in Seq(Pages) BY <1>2, <1>4 DEF Remembered
<1> QED BY <1>5 DEF TypeOK, Remember

(***************************************************************************)
(* A step of tab t keeps everything in order if it leaves a healthy stack  *)
(* and, when it leads to a form without straying, the form's opener on it. *)
(***************************************************************************)
OthersKeepStrayed(t) ==
  /\ strayed' \in [Tabs -> BOOLEAN]
  /\ \A u \in Tabs \ {t} : strayed'[u] = strayed[u]

LEMMA OtherTabs ==
  ASSUME IInv, NEW t \in Tabs, NEW s \in Stored, NEW page \in Pages,
         NEW open \in Listings \union {Welcome},
         storage' = [storage EXCEPT ![t] = s],
         at' = [at EXCEPT ![t] = page],
         back' \in [Tabs -> Seq(Pages)],
         opener' = [opener EXCEPT ![t] = open],
         OthersKeepStrayed(t),
         page \in Forms \union {Referrer} /\ ~strayed'[t] => Top(s) = open
  PROVE  IInv'
<1>1. TypeOK'
  BY StoredIsTyped DEF IInv, TypeOK, OthersKeepStrayed, Strings, Pages
<1>2. /\ storage'[t] = s /\ at'[t] = page /\ opener'[t] = open
      /\ \A u \in Tabs \ {t} : /\ storage'[u] = storage[u] /\ at'[u] = at[u]
                               /\ opener'[u] = opener[u]
  BY DEF IInv, TypeOK
<1>3. Healthy'
  <2> SUFFICES ASSUME NEW u \in Tabs, storage'[u] # Null PROVE Joined(storage'[u])
    BY DEF Healthy, Joined
  <2>1. storage'[u] \in Stored BY <1>2, StoredStrings DEF IInv
  <2> QED BY <2>1 DEF Stored
<1>4. OpenerOnTop'
  <2> SUFFICES ASSUME NEW u \in Tabs, at'[u] \in Forms \union {Referrer}, ~strayed'[u]
               PROVE  Top(storage'[u]) = opener'[u]
    BY DEF OpenerOnTop, Top
  <2>1. CASE u = t BY <1>2, <2>1
  <2>2. CASE u # t
    <3>1. at[u] \in Forms \union {Referrer} /\ ~strayed[u]
      BY <1>2, <2>2 DEF OthersKeepStrayed
    <3> QED BY <1>2, <2>2, <3>1 DEF IInv, OpenerOnTop
  <2> QED BY <2>1, <2>2
<1> QED BY <1>1, <1>3, <1>4 DEF IInv

LEMMA SameStrayed ==
  ASSUME TypeOK, NEW t \in Tabs, UNCHANGED strayed
  PROVE  OthersKeepStrayed(t) /\ strayed'[t] = strayed[t]
BY DEF TypeOK, OthersKeepStrayed

LEMMA NowStrayed ==
  ASSUME TypeOK, NEW t \in Tabs, Stray(t)
  PROVE  OthersKeepStrayed(t) /\ strayed'[t]
BY DEF TypeOK, OthersKeepStrayed, Stray

LEMMA StartsInOrder == Init => IInv
<1> SUFFICES ASSUME Init PROVE IInv
  OBVIOUS
<1>1. TypeOK
  <2>1. PICK first \in Tabs : at = [t \in Tabs |-> IF t = first THEN Welcome ELSE Closed]
    BY DEF Init
  <2>2. at \in [Tabs -> Pages \union {Closed}] BY <2>1 DEF Pages
  <2> QED BY <2>2 DEF Init, TypeOK
<1>2. Healthy /\ OpenerOnTop BY DEF Init, Healthy, OpenerOnTop, Top
<1> QED BY <1>1, <1>2 DEF IInv

(***************************************************************************)
(* Where a tab is after a page was asked for.                              *)
(***************************************************************************)
LEMMA Opened ==
  ASSUME NEW t \in Tabs, NEW page, Open(t, page)
  PROVE  \E p \in {page, Panic} : at' = [at EXCEPT ![t] = p]
BY DEF Open

LEMMA PlainPages ==
  /\ {Welcome, Footer, Panic} \subseteq Pages
  /\ Listings \subseteq Pages /\ Forms \subseteq Pages /\ Referrer \in Pages
  /\ {Welcome, Footer, Panic} \intersect (Forms \union {Referrer}) = {}
  /\ Listings \intersect (Forms \union {Referrer}) = {}
  /\ Closed \notin Pages
BY DEF Pages

LEMMA Popping ==
  ASSUME NEW t \in Tabs, NEW s \in Stored, OpenUrl(t, PopResult(s))
  PROVE  \E p \in {Top(s), Panic} : at' = [at EXCEPT ![t] = p] /\ p \in Pages
                                    /\ p \notin Forms \union {Referrer}
<1>1. Open(t, Top(s)) BY PopResultIsTop DEF OpenUrl
<1>2. Top(s) \in Listings \union {Welcome} BY PopResultIsTop
<1> QED BY <1>1, <1>2, Opened, PlainPages

(***************************************************************************)
(* After a pop, a tab is at a page that needs nothing of its stack.        *)
(***************************************************************************)
LEMMA PopKeepsOrder ==
  ASSUME IInv, NEW t \in Tabs, at[t] # Closed,
         back' \in [Tabs -> Seq(Pages)], UNCHANGED opener,
         PopAndRedirect(t) \/ PopTwiceAndRedirect(t)
  PROVE  IInv'
<1>0. TypeOK BY DEF IInv
<1>1. storage[t] \in Stored BY StoredStrings DEF IInv
<1>2. Popped(storage[t]) \in Stored /\ Popped(Popped(storage[t])) \in Stored
  BY <1>1, PoppedJoined
<1>3. opener[t] \in Listings \union {Welcome} /\ opener' = [opener EXCEPT ![t] = opener[t]]
  BY <1>0 DEF TypeOK
<1>4. CASE PopAndRedirect(t)
  <2>1. PICK p \in {Top(storage[t]), Panic} :
          /\ at' = [at EXCEPT ![t] = p] /\ p \in Pages
          /\ p \notin Forms \union {Referrer}
    BY <1>1, <1>4, Popping DEF PopAndRedirect
  <2>2. storage' = [storage EXCEPT ![t] = Popped(storage[t])]
    BY <1>4 DEF PopAndRedirect, Store
  <2>3. OthersKeepStrayed(t) BY <1>0, <1>4, SameStrayed DEF PopAndRedirect
  <2> QED BY <1>2, <1>3, <2>1, <2>2, <2>3, OtherTabs
<1>5. CASE PopTwiceAndRedirect(t)
  <2>1. PICK p \in {Top(Popped(storage[t])), Panic} :
          /\ at' = [at EXCEPT ![t] = p] /\ p \in Pages
          /\ p \notin Forms \union {Referrer}
    BY <1>2, <1>5, Popping DEF PopTwiceAndRedirect
  <2>2. storage' = [storage EXCEPT ![t] = Popped(Popped(storage[t]))]
    BY <1>5 DEF PopTwiceAndRedirect, Store
  <2>3. OthersKeepStrayed(t) BY <1>0, <1>5, NowStrayed DEF PopTwiceAndRedirect
  <2> QED BY <1>2, <1>3, <2>1, <2>2, <2>3, OtherTabs
<1> QED BY <1>4, <1>5

(***************************************************************************)
(* A step that leaves the stack alone, to a page that is not a form or     *)
(* from a form to a form, keeps the tab in order.                          *)
(***************************************************************************)
LEMMA WanderKeepsOrder ==
  ASSUME IInv, NEW t \in Tabs, NEW page \in Pages,
         UNCHANGED <<storage, opener>>,
         at' = [at EXCEPT ![t] = page],
         back' \in [Tabs -> Seq(Pages)],
         OthersKeepStrayed(t),
         \/ strayed'[t]
         \/ page \notin Forms \union {Referrer}
         \/ at[t] \in Forms /\ strayed'[t] = strayed[t]
  PROVE  IInv'
<1>1. storage[t] \in Stored BY StoredStrings DEF IInv
<1>2. opener[t] \in Listings \union {Welcome} BY DEF IInv, TypeOK
<1>3. /\ storage' = [storage EXCEPT ![t] = storage[t]]
      /\ opener' = [opener EXCEPT ![t] = opener[t]]
  BY DEF IInv, TypeOK
<1>4. at[t] \in Forms /\ ~strayed[t] => Top(storage[t]) = opener[t]
  BY DEF IInv, OpenerOnTop
<1>5. page \in Forms \union {Referrer} /\ ~strayed'[t] => Top(storage[t]) = opener[t]
  BY <1>4
<1> QED BY <1>1, <1>2, <1>3, <1>5, OtherTabs

LEMMA StepKeepsOrder ==
  ASSUME IInv, NEW t \in Tabs,
         \/ MenuOption(t) \/ FooterOption(t) \/ ClickRow(t) \/ Button(t) \/ Submit(t)
         \/ Return(t) \/ Refer(t) \/ Back(t)
         \/ \E u \in Tabs : Duplicate(t, u)
  PROVE  IInv'
<1>0. TypeOK BY DEF IInv
<1>1. storage[t] \in Stored BY StoredStrings DEF IInv
<1>2. /\ at[t] \in Listings \/ at[t] \in Forms \/ at[t] = Referrer => at[t] # Closed
      /\ Null \in Stored
  BY PlainPages DEF Stored
<1>3. back \in [Tabs -> Seq(Pages)] BY <1>0 DEF TypeOK
<1>4. CASE MenuOption(t)
  <2>1. PICK page \in Menu : Open(t, page) BY <1>4 DEF MenuOption
  <2>2. PICK p \in {page, Panic} : at' = [at EXCEPT ![t] = p] BY <2>1, Opened
  <2>3. p \in Pages BY <2>1, <2>2, PlainPages
  <2>4. Top(Null) = Welcome BY DEF Top
  <2>5. OthersKeepStrayed(t) BY <1>0, <1>4 DEF MenuOption, OthersKeepStrayed, TypeOK
  <2>6. back' \in [Tabs -> Seq(Pages)] BY <1>0, <1>4, RememberType DEF MenuOption, Here
  <2> QED BY <1>2, <1>4, <2>2, <2>3, <2>4, <2>5, <2>6, OtherTabs DEF MenuOption, Store
<1>5. CASE FooterOption(t)
  <2>1. PICK page \in {Footer, Welcome} : Open(t, page) BY <1>5 DEF FooterOption
  <2>2. PICK p \in {page, Panic} : at' = [at EXCEPT ![t] = p] BY <2>1, Opened
  <2>3. p \in Pages /\ p \notin Forms \union {Referrer} BY <2>1, <2>2, PlainPages
  <2>4. back' \in [Tabs -> Seq(Pages)] BY <1>0, <1>5, RememberType DEF FooterOption, Here
  <2>5. OthersKeepStrayed(t) BY <1>0, <1>5, SameStrayed DEF FooterOption
  <2> QED BY <1>5, <2>2, <2>3, <2>4, <2>5, WanderKeepsOrder DEF FooterOption
<1>6. CASE ClickRow(t)
  <2>1. at[t] \in Listings /\ Open(t, RowOf[at[t]]) BY <1>6 DEF ClickRow
  <2>2. PICK p \in {RowOf[at[t]], Panic} : at' = [at EXCEPT ![t] = p] BY <2>1, Opened
  <2>3. p \in Pages BY <2>1, <2>2, PlainPages
  <2>4. back' \in [Tabs -> Seq(Pages)] BY <1>0, <1>2, <1>6, RememberType DEF ClickRow
  <2>5. PICK s \in Stored : storage' = [storage EXCEPT ![t] = s] /\ Top(s) = at[t]
    <3> DEFINE once == Pushed(storage[t], at[t])
               twice == Pushed(once, at[t])
    <3>1. once \in Stored /\ once # Null /\ once[Len(once)] = at[t]
      BY <1>1, <2>1, PushedJoined
    <3>2. twice \in Stored /\ twice # Null /\ twice[Len(twice)] = at[t]
      BY <3>1, <2>1, PushedJoined
    <3>3. Top(once) = at[t] /\ Top(twice) = at[t] BY <3>1, <3>2 DEF Top
    <3>4. storage' \in {[storage EXCEPT ![t] = once], [storage EXCEPT ![t] = twice]}
      BY <1>6 DEF ClickRow, Store
    <3> HIDE DEF once, twice
    <3> QED BY <3>1, <3>2, <3>3, <3>4
  <2>6. OthersKeepStrayed(t) BY <1>0, <1>6, SameStrayed, NowStrayed DEF ClickRow
  <2>7. opener' = [opener EXCEPT ![t] = at[t]] BY <1>6 DEF ClickRow
  <2>8. at[t] \in Listings \union {Welcome} BY <2>1
  <2> QED BY <2>2, <2>3, <2>4, <2>5, <2>6, <2>7, <2>8, OtherTabs
<1>7. CASE Button(t)
  <2>1. at[t] \in Forms BY <1>7 DEF Button
  <2>2. PICK page \in Buttons[at[t]] : Open(t, page) BY <1>7 DEF Button
  <2>3. PICK p \in {page, Panic} : at' = [at EXCEPT ![t] = p] BY <2>2, Opened
  <2>4. p \in Pages BY <2>1, <2>2, <2>3, PlainPages
  <2>5. back' \in [Tabs -> Seq(Pages)] BY <1>0, <1>2, <1>7, RememberType DEF Button
  <2>6. OthersKeepStrayed(t) /\ strayed'[t] = strayed[t]
    BY <1>0, <1>7, SameStrayed DEF Button
  <2> QED BY <1>7, <2>1, <2>3, <2>4, <2>5, <2>6, WanderKeepsOrder DEF Button
<1>8. CASE Submit(t)
  <2>1. at[t] \in Forms BY <1>8 DEF Submit
  <2>2. PICK page \in {at[t], Referrer} : Open(t, page) BY <1>8 DEF Submit
  <2>3. PICK p \in {page, Panic} : at' = [at EXCEPT ![t] = p] BY <2>2, Opened
  <2>4. p \in Pages BY <2>1, <2>2, <2>3, PlainPages
  <2>5. back' \in [Tabs -> Seq(Pages)] BY <1>0, <1>2, <1>8, RememberType DEF Submit
  <2>6. OthersKeepStrayed(t) /\ strayed'[t] = strayed[t]
    BY <1>0, <1>8, SameStrayed DEF Submit
  <2> QED BY <1>8, <2>1, <2>3, <2>4, <2>5, <2>6, WanderKeepsOrder DEF Submit
<1>9. CASE Return(t)
  <2>1. back' \in [Tabs -> Seq(Pages)] BY <1>0, <1>2, <1>9, RememberType DEF Return
  <2> QED BY <1>2, <1>9, <2>1, PopKeepsOrder DEF Return
<1>10. CASE Refer(t)
  <2>1. back' \in [Tabs -> Seq(Pages)]
    BY <1>0, <1>2, <1>3, <1>10, RememberType DEF Refer
  <2> QED BY <1>2, <1>10, <2>1, PopKeepsOrder DEF Refer
<1>11. CASE Back(t)
  <2>1. back[t] \in Seq(Pages) /\ back[t] # <<>> BY <1>3, <1>11 DEF Back
  <2>2. Len(back[t]) \in 1..Len(back[t]) /\ Len(back[t]) - 1 \in 0..Len(back[t]) BY <2>1
  <2>3. back[t][Len(back[t])] \in Pages BY <2>1, <2>2
  <2>4. SubSeq(back[t], 1, Len(back[t]) - 1) \in Seq(Pages)
    <3>1. \A i \in 1..Len(back[t])-1 : back[t][i] \in Pages BY <2>1, <2>2
    <3>2. 1 \in Int /\ Len(back[t]) - 1 \in Int BY <2>2
    <3> QED BY <3>1, <3>2, SubSeqProperties
  <2>5. back' \in [Tabs -> Seq(Pages)] BY <1>3, <1>11, <2>4 DEF Back
  <2>6. OthersKeepStrayed(t) /\ strayed'[t] BY <1>0, <1>11, NowStrayed DEF Back
  <2> QED BY <1>11, <2>3, <2>5, <2>6, WanderKeepsOrder DEF Back
<1>12. ASSUME NEW u \in Tabs, Duplicate(t, u) PROVE IInv'
  <2>1. at[u] \in Pages BY <1>0, <1>12 DEF TypeOK, Duplicate, Here
  <2>2. storage[u] \in Stored BY StoredStrings DEF IInv
  <2>3. opener[u] \in Listings \union {Welcome} BY <1>0 DEF TypeOK
  <2>4. OthersKeepStrayed(t) /\ strayed'[t] = strayed[u]
    BY <1>0, <1>12 DEF TypeOK, Duplicate, OthersKeepStrayed
  <2>5. at[u] \in Forms \union {Referrer} /\ ~strayed'[t] => Top(storage[u]) = opener[u]
    BY <2>4 DEF IInv, OpenerOnTop
  <2>6. back' \in [Tabs -> Seq(Pages)] BY <1>3, <1>12 DEF Duplicate
  <2>7. /\ storage' = [storage EXCEPT ![t] = storage[u]]
        /\ at' = [at EXCEPT ![t] = at[u]]
        /\ opener' = [opener EXCEPT ![t] = opener[u]]
    BY <1>12 DEF Duplicate, Store
  <2> QED BY <2>1, <2>2, <2>3, <2>4, <2>5, <2>6, <2>7, OtherTabs
<1> QED BY <1>4, <1>5, <1>6, <1>7, <1>8, <1>9, <1>10, <1>11, <1>12

LEMMA NextKeepsOrder == IInv /\ [Next]_vars => IInv'
<1>1. ASSUME IInv, Next PROVE IInv' BY <1>1, StepKeepsOrder DEF Next
<1>2. ASSUME IInv, UNCHANGED vars PROVE IInv'
  BY <1>2 DEF vars, IInv, TypeOK, Healthy, OpenerOnTop, Joined, Strings, Pages
<1> QED BY <1>1, <1>2

(***************************************************************************)
(* The string is always a healthy stack, and on top of it is the listing   *)
(* that a form of a tab that did not stray was opened from.                *)
(***************************************************************************)
THEOREM Invariance == Spec => []IInv
<1> QED BY StartsInOrder, NextKeepsOrder, PTL DEF Spec

(***************************************************************************)
(* A tab that did not stray returns to the listing it came from.           *)
(***************************************************************************)
THEOREM LeadsBackAlways == Spec => ReturnsToOpener
<1>1. IInv /\ [Next]_vars => [LeadsBack]_vars
  <2> SUFFICES ASSUME IInv, NEW t \in Tabs,
                      at[t] \in Forms \union {Referrer}, ~strayed[t], ~strayed'[t],
                      Return(t) \/ Refer(t)
               PROVE  at'[t] \in {opener[t], Panic}
    BY DEF LeadsBack
  <2>1. storage[t] \in Stored /\ at \in [Tabs -> Pages \union {Closed}]
        /\ strayed \in [Tabs -> BOOLEAN]
    BY StoredStrings DEF IInv, TypeOK
  <2>2. ~PopTwiceAndRedirect(t) BY <2>1 DEF PopTwiceAndRedirect, Stray
  <2>3. OpenUrl(t, PopResult(storage[t])) BY <2>2 DEF Return, Refer, PopAndRedirect
  <2>4. at'[t] \in {Top(storage[t]), Panic} BY <2>1, <2>3, Popping
  <2> QED BY <2>4 DEF IInv, OpenerOnTop
<1> QED BY <1>1, Invariance, PTL DEF Spec, ReturnsToOpener

-----------------------------------------------------------------------------
(***************************************************************************)
(* The refinement: each step is a step of the stack of its tab.            *)
(***************************************************************************)
Named == [t \in Tabs |-> Split(storage[t])]

LEMMA OneTab ==
  ASSUME TypeOK, NEW t \in Tabs, NEW s, NEW page,
         storage' = [storage EXCEPT ![t] = s] \/ (UNCHANGED storage /\ s = storage[t]),
         at' = [at EXCEPT ![t] = page]
  PROVE  /\ Stack!Elsewhere(t)
         /\ at'[t] = page
         /\ Named[t] = Split(storage[t])
         /\ Named'[t] = Split(s)
<1>1. /\ storage'[t] = s /\ at'[t] = page
      /\ \A u \in Tabs \ {t} : storage'[u] = storage[u] /\ at'[u] = at[u]
  BY DEF TypeOK
<1>2. \A u \in Tabs : Named[u] = Split(storage[u]) /\ Named'[u] = Split(storage'[u])
  BY DEF Named, Split
<1>3. Stack!Elsewhere(t) BY <1>1 DEF Stack!Elsewhere, Split
<1> QED BY <1>1, <1>2, <1>3

LEMMA StepsOfTheStack ==
  ASSUME IInv, NEW t \in Tabs,
         \/ MenuOption(t) \/ FooterOption(t) \/ ClickRow(t) \/ Button(t) \/ Submit(t)
         \/ Return(t) \/ Refer(t) \/ Back(t)
         \/ \E u \in Tabs : Duplicate(t, u)
  PROVE  Stack!StackNext
<1>0. TypeOK /\ storage[t] \in Stored BY StoredStrings DEF IInv
<1> DEFINE s == storage[t]
<1>1. CASE MenuOption(t)
  <2>1. PICK p : at' = [at EXCEPT ![t] = p] BY <1>1 DEF MenuOption, Open
  <2>2. Stack!Elsewhere(t) /\ Named'[t] = Split(Null)
    BY <1>0, <1>1, <2>1, OneTab DEF MenuOption, Store
  <2>3. Split(Null) = <<>> BY DEF Split
  <2>4. Stack!Forget(t) BY <2>2, <2>3 DEF Stack!Forget, Named
  <2> QED BY <2>4 DEF Stack!StackNext
<1>2. ASSUME UNCHANGED storage, NEW p, at' = [at EXCEPT ![t] = p]
      PROVE  Stack!StackNext
  <2>1. Stack!Elsewhere(t) /\ Named'[t] = Split(s) /\ Named[t] = Split(s)
    BY <1>0, <1>2, OneTab
  <2>2. Stack!Wander(t) BY <2>1 DEF Stack!Wander, Named
  <2> QED BY <2>2 DEF Stack!StackNext
<1>3. CASE FooterOption(t) \/ Button(t) \/ Submit(t) \/ Back(t)
  <2>1. UNCHANGED storage BY <1>3 DEF FooterOption, Button, Submit, Back
  <2>2. \E p : at' = [at EXCEPT ![t] = p]
    BY <1>3 DEF FooterOption, Button, Submit, Back, Open
  <2> QED BY <1>2, <2>1, <2>2
<1>4. CASE ClickRow(t)
  <2> DEFINE once == Pushed(s, at[t])
             twice == Pushed(once, at[t])
  <2>1. at[t] \in Listings BY <1>4 DEF ClickRow
  <2>2. once \in Stored /\ twice \in Stored BY <1>0, <2>1, PushedJoined
  <2>3. Split(once) = Append(Split(s), at[t]) BY <1>0, <2>1, SplitPushed
  <2>4. Split(twice) = Append(Append(Split(s), at[t]), at[t])
    BY <2>1, <2>2, <2>3, SplitPushed
  <2>5. PICK p : at' = [at EXCEPT ![t] = p] BY <1>4 DEF ClickRow, Open
  <2>6. PICK z \in {once, twice} : storage' = [storage EXCEPT ![t] = z]
    BY <1>4 DEF ClickRow, Store
  <2> HIDE DEF once, twice
  <2>7. Stack!Elsewhere(t) /\ Named'[t] = Split(z) /\ Named[t] = Split(s)
    BY <1>0, <2>5, <2>6, OneTab
  <2>8. Stack!Leave(t) BY <2>1, <2>3, <2>4, <2>7 DEF Stack!Leave, Named
  <2> QED BY <2>8 DEF Stack!StackNext
<1>5. CASE PopAndRedirect(t)
  <2>1. PICK p \in {Top(s), Panic} : at' = [at EXCEPT ![t] = p]
    BY <1>0, <1>5, Popping DEF PopAndRedirect
  <2>2. /\ Stack!Elsewhere(t) /\ at'[t] = p
        /\ Named'[t] = Split(Popped(s)) /\ Named[t] = Split(s)
    BY <1>0, <1>5, <2>1, OneTab DEF PopAndRedirect, Store
  <2>3. Split(Popped(s)) = Stack!Below(Split(s)) /\ Stack!Top(Split(s)) = Top(s)
    BY <1>0, SplitPopped, SplitTop
  <2>4. Stack!Return(t) BY <2>1, <2>2, <2>3 DEF Stack!Return, Stack!ReturnsTo, Named
  <2> QED BY <2>4 DEF Stack!StackNext
<1>6. CASE PopTwiceAndRedirect(t)
  <2> DEFINE r == Popped(s)
  <2>0. r \in Stored BY <1>0, PoppedJoined
  <2>1. PICK p \in {Top(r), Panic} : at' = [at EXCEPT ![t] = p]
    BY <1>6, <2>0, Popping DEF PopTwiceAndRedirect
  <2>2. /\ Stack!Elsewhere(t) /\ at'[t] = p
        /\ Named'[t] = Split(Popped(r)) /\ Named[t] = Split(s)
    BY <1>0, <1>6, <2>1, OneTab DEF PopTwiceAndRedirect, Store
  <2>3. /\ Split(Popped(r)) = Stack!Below(Stack!Below(Split(s)))
        /\ Stack!Top(Stack!Below(Split(s))) = Top(r)
    BY <1>0, <2>0, SplitPopped, SplitTop
  <2>4. Stack!Return(t) BY <2>1, <2>2, <2>3 DEF Stack!Return, Stack!ReturnsTo, Named
  <2> QED BY <2>4 DEF Stack!StackNext
<1>7. CASE Return(t) \/ Refer(t) BY <1>5, <1>6, <1>7 DEF Return, Refer
<1>8. ASSUME NEW u \in Tabs, Duplicate(t, u) PROVE Stack!StackNext
  <2>1. /\ at[t] = Closed
        /\ storage' = [storage EXCEPT ![t] = storage[u]]
        /\ at' = [at EXCEPT ![t] = at[u]]
    BY <1>8 DEF Duplicate, Store
  <2>2. Stack!Elsewhere(t) /\ at'[t] = at[u] /\ Named'[t] = Split(storage[u])
    BY <1>0, <2>1, OneTab
  <2>3. Stack!Copy(t, u) BY <2>1, <2>2 DEF Stack!Copy, Named
  <2> QED BY <2>3 DEF Stack!StackNext
<1> QED BY <1>1, <1>3, <1>4, <1>7, <1>8

(***************************************************************************)
(* The strings of the tabs are a stack of listings per tab, whatever the   *)
(* users do with their browsers.                                           *)
(***************************************************************************)
THEOREM Refinement == Spec => ImplementsStack
<1>1. Init => Stack!StackInit BY DEF Init, Stack!StackInit, Split
<1>2. IInv /\ [Next]_vars => [Stack!StackNext]_(<<Named, at>>)
  <2>1. IInv /\ Next => Stack!StackNext BY StepsOfTheStack DEF Next
  <2>2. UNCHANGED vars => UNCHANGED <<Named, at>> BY DEF vars, Named, Split
  <2> QED BY <2>1, <2>2
<1>3. Named = [t \in Tabs |-> Split(storage[t])] BY DEF Named
<1> QED BY <1>1, <1>2, Invariance, PTL DEF Spec, ImplementsStack, Stack!StackSpec, Named

=============================================================================
