----------------- MODULE EmployerJobsAndPublicationsProofs -----------------
(***************************************************************************)
(* Proofs about EmployerJobs, for any jobs, descriptors, duties and tabs,  *)
(* and about Publications, for any rows, sponsors, texts, tables and tabs. *)
(***************************************************************************)
EXTENDS EmployerJobs, Publications, FiniteSetTheorems, TLAPS

-----------------------------------------------------------------------------
(***************************************************************************)
(* Sums.  The library adds up a function by taking one point after the     *)
(* other out of its domain; the sum does not depend on which ones.         *)
(***************************************************************************)
\* g is the function that adds up, for each part s of S, what f is on s.
IsFold(g, f, S) ==
  g = [s \in SUBSET S |-> IF s = {} THEN 0
                          ELSE f[CHOOSE x \in s : TRUE] + g[s \ {CHOOSE x \in s : TRUE}]]

FoldOn(f, S) == CHOOSE g : IsFold(g, f, S)
SumOn(f, S) == FoldOn(f, S)[S]

LEMMA SumIsFold ==
  ASSUME NEW f
  PROVE  SumFunction(f) = SumOn(f, DOMAIN f)
BY Zenon DEF SumFunction, SumFunctionOnSet, FoldFunctionOnSet, MapThenFoldSet, SumOn, FoldOn, IsFold

LEMMA SmallestPart ==
  ASSUME NEW S, IsFiniteSet(S), NEW B, B \subseteq SUBSET S, B # {}
  PROVE  \E m \in B : \A t \in B : t \subseteq m => t = m
<1>1. IsWellFoundedOn(StrictSubsetOrdering(S), FiniteSubsetsOf(S))
  BY FS_StrictSubsetOrderingWellFounded
<1>2. B \subseteq FiniteSubsetsOf(S)
  BY FS_Subset DEF FiniteSubsetsOf
<1>3. \E m \in B : \A t \in B : ~ (<<t, m>> \in StrictSubsetOrdering(S))
  BY <1>1, <1>2, WFMin
<1>4. PICK m \in B : \A t \in B : ~ (<<t, m>> \in StrictSubsetOrdering(S))
  BY <1>3
<1>5. \A t \in B : t \subseteq m => t = m
  BY <1>4 DEF StrictSubsetOrdering
<1> QED BY <1>4, <1>5

LEMMA FoldValue ==
  ASSUME NEW f, NEW S, NEW g, IsFold(g, f, S)
  PROVE  /\ g[{}] = 0
         /\ \A s \in SUBSET S : s # {} =>
              g[s] = f[CHOOSE x \in s : TRUE] + g[s \ {CHOOSE x \in s : TRUE}]
BY DEF IsFold

LEMMA Chosen ==
  ASSUME NEW s, s # {}
  PROVE  (CHOOSE x \in s : TRUE) \in s
OBVIOUS
\* The sum over a part, with the functions of two wholes, is the same.
LEMMA FoldsAgree ==
  ASSUME NEW S, IsFiniteSet(S), NEW R \in SUBSET S, NEW f, NEW h, NEW g, NEW k,
         IsFold(g, f, S), IsFold(k, h, R), \A x \in R : f[x] = h[x]
  PROVE  g[R] = k[R]
<1> DEFINE B == {s \in SUBSET R : g[s] # k[s]}
<1> SUFFICES ASSUME B # {} PROVE FALSE
  OBVIOUS
<1>1. IsFiniteSet(R)
  BY FS_Subset
<1>2. PICK m \in B : \A t \in B : t \subseteq m => t = m
  <2>1. B \subseteq SUBSET R
    OBVIOUS
  <2> HIDE DEF B
  <2> QED BY <1>1, <2>1, SmallestPart
<1>3. m \in SUBSET R /\ m \in SUBSET S /\ g[m] # k[m]
  BY <1>2
<1>4. m # {}
  <2>1. g[{}] = 0 /\ k[{}] = 0
    BY FoldValue
  <2> QED BY <1>3, <2>1
<1> DEFINE c == CHOOSE x \in m : TRUE
<1>5. c \in m /\ c \in R
  BY <1>3, <1>4, Chosen
<1>6. g[m \ {c}] = k[m \ {c}]
  BY <1>2, <1>3, <1>5
<1>7. g[m] = f[c] + g[m \ {c}] /\ k[m] = h[c] + k[m \ {c}]
  BY <1>3, <1>4, FoldValue
<1> QED BY <1>3, <1>5, <1>6, <1>7

LEMMA FoldExists ==
  ASSUME NEW S, IsFiniteSet(S), NEW f
  PROVE  IsFold(FoldOn(f, S), f, S)
<1> DEFINE B == {s \in SUBSET S : ~ \E g : IsFold(g, f, s)}
<1>1. B = {}
  <2> SUFFICES ASSUME B # {} PROVE FALSE
    OBVIOUS
  <2>1. PICK m \in B : \A t \in B : t \subseteq m => t = m
    <3>1. B \subseteq SUBSET S
      OBVIOUS
    <3> HIDE DEF B
    <3> QED BY <3>1, SmallestPart
  <2>2. m \in SUBSET S /\ ~ \E g : IsFold(g, f, m)
    BY <2>1
  <2>3. \A t \in SUBSET m : t # m => IsFold(FoldOn(f, t), f, t)
    <3> SUFFICES ASSUME NEW t \in SUBSET m, t # m PROVE IsFold(FoldOn(f, t), f, t)
      OBVIOUS
    <3>1. \E g : IsFold(g, f, t)
      BY <2>1, <2>2
    <3> QED BY <3>1 DEF FoldOn
  <2> DEFINE c(s) == CHOOSE x \in s : TRUE
             rest(s) == s \ {c(s)}
             G == [s \in SUBSET m |-> IF s = {} THEN 0 ELSE f[c(s)] + SumOn(f, rest(s))]
  <2>4. \A s \in SUBSET m : s # {} => c(s) \in s
    BY Chosen
  <2>5. \A t \in SUBSET m : t # m => G[t] = SumOn(f, t)
    <3> SUFFICES ASSUME NEW t \in SUBSET m, t # m PROVE G[t] = SumOn(f, t)
      OBVIOUS
    <3>1. IsFold(FoldOn(f, t), f, t) /\ IsFiniteSet(t)
      BY <2>2, <2>3, FS_Subset
    <3>2. CASE t = {}
      BY <3>1, <3>2, FoldValue DEF SumOn
    <3>3. CASE t # {}
      <4>1. c(t) \in t /\ rest(t) \in SUBSET t /\ rest(t) \in SUBSET m /\ rest(t) # m
        BY <2>4, <3>3
      <4>2. IsFold(FoldOn(f, rest(t)), f, rest(t))
        BY <2>3, <4>1
      <4>3. FoldOn(f, t)[t] = f[c(t)] + FoldOn(f, t)[rest(t)]
        BY <3>1, <3>3, FoldValue
      <4> HIDE DEF rest
      <4>4. FoldOn(f, t)[rest(t)] = FoldOn(f, rest(t))[rest(t)]
        BY <3>1, <4>1, <4>2, FoldsAgree
      <4>5. G[t] = f[c(t)] + SumOn(f, rest(t))
        BY <3>3
      <4> QED BY <4>3, <4>4, <4>5 DEF SumOn
    <3> QED BY <3>2, <3>3
  <2>6. \A s \in SUBSET m : s # {} => rest(s) \in SUBSET m /\ rest(s) # m
    BY <2>4
  <2>7. G = [s \in SUBSET m |-> IF s = {} THEN 0 ELSE f[c(s)] + G[rest(s)]]
    <3>1. \A s \in SUBSET m : s # {} => G[rest(s)] = SumOn(f, rest(s))
      BY <2>5, <2>6
    <3>2. \A s \in SUBSET m :
            (IF s = {} THEN 0 ELSE f[c(s)] + SumOn(f, rest(s)))
              = (IF s = {} THEN 0 ELSE f[c(s)] + G[rest(s)])
      <4> HIDE DEF G, rest, c
      <4> QED BY <3>1
    <3> QED BY <3>2, Zenon
  <2>8. IsFold(G, f, m)
    BY <2>7, Zenon DEF IsFold
  <2> QED BY <2>2, <2>8
<1>2. \E g : IsFold(g, f, S)
  BY <1>1
<1> QED BY <1>2 DEF FoldOn

LEMMA SumOfNothing ==
  ASSUME NEW f
  PROVE  SumOn(f, {}) = 0
BY FoldExists, FS_EmptySet, FoldValue DEF SumOn

LEMMA SumUnfolds ==
  ASSUME NEW S, IsFiniteSet(S), NEW f, S # {}
  PROVE  \E c \in S : SumOn(f, S) = f[c] + SumOn(f, S \ {c})
<1> DEFINE c == CHOOSE x \in S : TRUE
<1>1. c \in S
  BY Chosen
<1>2. IsFold(FoldOn(f, S), f, S) /\ IsFold(FoldOn(f, S \ {c}), f, S \ {c})
  BY FoldExists, FS_RemoveElement
<1>3. FoldOn(f, S)[S] = f[c] + FoldOn(f, S)[S \ {c}]
  BY <1>2, FoldValue
<1> HIDE DEF c
<1>4. FoldOn(f, S)[S \ {c}] = FoldOn(f, S \ {c})[S \ {c}]
  BY <1>2, FoldsAgree
<1> QED BY <1>1, <1>3, <1>4 DEF SumOn

LEMMA SumIsInt ==
  ASSUME NEW S, IsFiniteSet(S), NEW f, \A x \in S : f[x] \in Int
  PROVE  SumOn(f, S) \in Int
<1> DEFINE B == {s \in SUBSET S : SumOn(f, s) \notin Int}
<1> SUFFICES ASSUME B # {} PROVE FALSE
  OBVIOUS
<1>1. PICK m \in B : \A t \in B : t \subseteq m => t = m
  <2>1. B \subseteq SUBSET S
    OBVIOUS
  <2> HIDE DEF B
  <2> QED BY <2>1, SmallestPart
<1>2. m \in SUBSET S /\ SumOn(f, m) \notin Int /\ IsFiniteSet(m)
  BY <1>1, FS_Subset
<1>3. m # {}
  BY <1>2, SumOfNothing
<1>4. PICK c \in m : SumOn(f, m) = f[c] + SumOn(f, m \ {c})
  BY <1>2, <1>3, SumUnfolds
<1>5. SumOn(f, m \ {c}) \in Int
  BY <1>1, <1>2, <1>4
<1> QED BY <1>2, <1>4, <1>5

\* Whatever is taken out, the sum is that and the sum of the others.
LEMMA SumTakesOut ==
  ASSUME NEW S, IsFiniteSet(S), NEW f, \A x \in S : f[x] \in Int, NEW x \in S
  PROVE  SumOn(f, S) = f[x] + SumOn(f, S \ {x})
<1> DEFINE B == {s \in SUBSET S : \E y \in s : SumOn(f, s) # f[y] + SumOn(f, s \ {y})}
<1> SUFFICES ASSUME B # {} PROVE FALSE
  OBVIOUS
<1>1. PICK m \in B : \A t \in B : t \subseteq m => t = m
  <2>1. B \subseteq SUBSET S
    OBVIOUS
  <2> HIDE DEF B
  <2> QED BY <2>1, SmallestPart
<1>2. PICK y \in m : SumOn(f, m) # f[y] + SumOn(f, m \ {y})
  BY <1>1
<1>3. m \in SUBSET S /\ IsFiniteSet(m)
  BY <1>1, FS_Subset
<1>4. PICK c \in m : SumOn(f, m) = f[c] + SumOn(f, m \ {c})
  BY <1>2, <1>3, SumUnfolds
<1>5. c # y
  BY <1>2, <1>4
<1>6. SumOn(f, m \ {c}) = f[y] + SumOn(f, (m \ {c}) \ {y})
  BY <1>1, <1>2, <1>3, <1>4, <1>5
<1>7. SumOn(f, m \ {y}) = f[c] + SumOn(f, (m \ {y}) \ {c})
  BY <1>1, <1>2, <1>3, <1>4, <1>5
<1>8. (m \ {c}) \ {y} = (m \ {y}) \ {c}
  OBVIOUS
<1>9. SumOn(f, (m \ {y}) \ {c}) \in Int
  <2>1. IsFiniteSet((m \ {y}) \ {c}) /\ \A z \in (m \ {y}) \ {c} : f[z] \in Int
    BY <1>3, FS_RemoveElement
  <2> QED BY <2>1, SumIsInt
<1>10. f[y] \in Int /\ f[c] \in Int
  BY <1>2, <1>3, <1>4
<1> DEFINE r == SumOn(f, (m \ {y}) \ {c})
<1>11. SumOn(f, m) = f[c] + (f[y] + r) /\ SumOn(f, m \ {y}) = f[c] + r
  BY <1>4, <1>6, <1>7, <1>8
<1> HIDE DEF r, B
<1> QED BY <1>2, <1>9, <1>10, <1>11 DEF r

LEMMA SumsAgree ==
  ASSUME NEW S, IsFiniteSet(S), NEW f, NEW h, \A x \in S : f[x] = h[x]
  PROVE  SumOn(f, S) = SumOn(h, S)
<1>1. IsFold(FoldOn(f, S), f, S) /\ IsFold(FoldOn(h, S), h, S)
  BY FoldExists
<1> QED BY <1>1, FoldsAgree DEF SumOn

-----------------------------------------------------------------------------
(***************************************************************************)
(* Types.  The tables and the requests are dealt with apart.               *)
(***************************************************************************)
TablesOK ==
  /\ job \in [Jobs -> JobRows \union {NoRow}]
  /\ descriptor \in [Descriptors -> Jobs \union {NoRow}]
  /\ duty \in [Duties -> DutyRows \union {NoRow}]
  /\ applied \subseteq Jobs /\ audited \subseteq Jobs
  /\ given \subseteq Ids

TxsOK ==
  /\ command \in [Clients -> Commands \union {"none"}]
  /\ target \in [Clients -> Ids \union {NoRow}]
  /\ seen \in [Clients -> Snapshots \union {NoRow}]

LEMMA TypeParts == TypeOK <=> TablesOK /\ TxsOK
BY DEF TypeOK, TablesOK, TxsOK

LEMMA NoRowIsNoRow ==
  NoRow \notin JobRows /\ NoRow \notin DutyRows /\ NoRow \notin Jobs
BY NoRowAssumption

LEMMA JobRow ==
  ASSUME NEW v \in Nat, NEW s \in Statuses
  PROVE  [version |-> v, status |-> s] \in JobRows
BY DEF JobRows

LEMMA DutyRow ==
  ASSUME NEW v \in Nat, NEW d \in Descriptors, NEW p \in Percentages
  PROVE  [version |-> v, descriptor |-> d, percentage |-> p] \in DutyRows
<1>1. p \in Nat
  BY PercentagesAssumption
<1> QED BY <1>1 DEF DutyRows

LEMMA SnapshotType ==
  ASSUME TablesOK
  PROVE  Snapshot \in Snapshots /\ Snapshot # NoRow
<1>1. Snapshot \in Snapshots
  BY DEF TablesOK, Snapshot, Snapshots
<1>2. Snapshot # NoRow
  BY <1>1, NoRowAssumption
<1> QED BY <1>1, <1>2

\* A request that ends forgets what it was about.
LEMMA Ended ==
  ASSUME TxsOK, Requests, NEW c \in Clients, End(c)
  PROVE  TxsOK' /\ Requests'
<1>1. TxsOK'
  BY DEF TxsOK, End, Commands
<1>2. \A d \in Clients : command'[d] # "none" =>
        d # c /\ command'[d] = command[d] /\ target'[d] = target[d] /\ seen'[d] = seen[d]
  BY DEF TxsOK, End, Commands
<1>3. Requests'
  BY <1>2 DEF Requests, About, Old
<1> QED BY <1>1, <1>3

LEMMA Began ==
  ASSUME TablesOK, TxsOK, Requests,
         NEW c \in Clients, NEW cmd \in Commands, NEW x \in Ids, Begin(c, cmd, x)
  PROVE  TxsOK' /\ Requests'
<1>1. Snapshot \in Snapshots /\ Snapshot # NoRow
  BY SnapshotType
<1>2. TxsOK'
  BY <1>1 DEF TxsOK, Begin
<1>3. \A d \in Clients : d # c =>
        command'[d] = command[d] /\ target'[d] = target[d] /\ seen'[d] = seen[d]
  BY DEF TxsOK, Begin
<1>4. command'[c] = cmd /\ target'[c] = x /\ seen'[c] = Snapshot /\ About(cmd, x)
  BY DEF TxsOK, Begin
<1>5. PICK j \in Jobs : /\ Reads(cmd, x, j) /\ job[j] # NoRow
                         /\ \A d, e \in DescriptorsOf(descriptor, j) : d = e
  BY DEF Begin, Loadable
<1>6. x \in Jobs => job[x] # NoRow /\ \A d, e \in DescriptorsOf(descriptor, x) : d = e
  BY <1>4, <1>5, IdsAssumption DEF About, Reads
<1>7. x \in Duties => duty[x] # NoRow
  BY <1>4, <1>5, IdsAssumption DEF About, Reads
<1>8. Snapshot.job = job /\ Snapshot.duty = duty /\ Snapshot.descriptor = descriptor
  BY DEF Snapshot
<1>9. Requests'
  BY <1>1, <1>3, <1>4, <1>6, <1>7, <1>8 DEF Requests, About, Old
<1> QED BY <1>2, <1>9

LEMMA Waits ==
  ASSUME TxsOK, Requests, UNCHANGED txs
  PROVE  TxsOK' /\ Requests'
BY DEF TxsOK, Requests, About, Old, txs

LEMMA TargetIsJob ==
  ASSUME TablesOK, TxsOK, Requests, NEW c \in Clients,
         command[c] \in {"job_update", "job_delete"}
  PROVE  target[c] \in Jobs /\ seen[c].job[target[c]] \in JobRows
<1>1. target[c] \in Jobs /\ seen[c].job[target[c]] # NoRow /\ seen[c] # NoRow
  BY DEF Requests, About
<1>2. seen[c] \in Snapshots
  BY <1>1 DEF TxsOK
<1>3. seen[c].job \in [Jobs -> JobRows \union {NoRow}]
  BY <1>2 DEF Snapshots
<1> QED BY <1>1, <1>3

LEMMA TargetIsDuty ==
  ASSUME TablesOK, TxsOK, Requests, NEW c \in Clients, command[c] = "duty_update"
  PROVE  target[c] \in Duties /\ seen[c].duty[target[c]] \in DutyRows
<1>1. target[c] \in Duties /\ seen[c].duty[target[c]] # NoRow /\ seen[c] # NoRow
  BY DEF Requests, About
<1>2. seen[c] \in Snapshots
  BY <1>1 DEF TxsOK
<1>3. seen[c].duty \in [Duties -> DutyRows \union {NoRow}]
  BY <1>2 DEF Snapshots
<1> QED BY <1>1, <1>3

-----------------------------------------------------------------------------
(***************************************************************************)
(* What the parts of an update or a deletion do to the tables.             *)
(***************************************************************************)
LEMMA Saves ==
  ASSUME TablesOK, TxsOK, Requests, NEW c \in Clients, command[c] = "job_update",
         NEW status \in Statuses, NEW changed \in BOOLEAN, SaveJob(c, status, changed)
  PROVE  /\ job' \in [Jobs -> JobRows \union {NoRow}]
         /\ \A j \in Jobs : job'[j] # NoRow <=> job[j] # NoRow
<1>1. target[c] \in Jobs /\ seen[c].job[target[c]] \in JobRows
  BY TargetIsJob
<1>2. CASE UNCHANGED job
  BY <1>2 DEF TablesOK
<1>3. CASE /\ job[target[c]] = seen[c].job[target[c]]
           /\ job' = [job EXCEPT ![target[c]] =
                        [version |-> seen[c].job[target[c]].version + 1, status |-> status]]
  <2>1. seen[c].job[target[c]].version + 1 \in Nat
    BY <1>1 DEF JobRows
  <2>2. [version |-> seen[c].job[target[c]].version + 1, status |-> status] \in JobRows
    BY <2>1, JobRow
  <2> QED BY <1>1, <1>3, <2>2, NoRowIsNoRow DEF TablesOK
<1> QED BY <1>2, <1>3 DEF SaveJob

\* The duties of the descriptors D go, and they are those that were found.
LEMMA Sweeps ==
  ASSUME TablesOK, NEW c \in Clients, NEW D \in SUBSET Descriptors,
         Deletable(c, D), duty' = WithoutDutiesOf(c, D)
  PROVE  /\ duty' \in [Duties -> DutyRows \union {NoRow}]
         /\ \A u \in Duties : duty'[u] # NoRow =>
              duty'[u] = duty[u] /\ duty[u].descriptor \notin D
         /\ \A d \in D, u \in Duties : u \in DutiesOf(duty, d) =>
              duty'[u] = NoRow /\ seen[c].duty[u] = duty[u]
<1>1. \A u \in Duties : duty'[u] = IF \E d \in D : u \in DutiesOf(seen[c].duty, d)
                                   THEN NoRow ELSE duty[u]
  BY DEF WithoutDutiesOf
<1>2. \A d \in D : DutiesOf(duty, d) = DutiesOf(seen[c].duty, d)
  BY DEF Deletable
<1>3. \A d \in D : \A u \in DutiesOf(seen[c].duty, d) : duty[u] = seen[c].duty[u]
  BY DEF Deletable
<1>4. duty' \in [Duties -> DutyRows \union {NoRow}]
  BY <1>1 DEF TablesOK, WithoutDutiesOf
<1>5. \A u \in Duties : duty'[u] # NoRow => duty'[u] = duty[u] /\ duty[u].descriptor \notin D
  <2> SUFFICES ASSUME NEW u \in Duties, duty'[u] # NoRow
               PROVE  duty'[u] = duty[u] /\ duty[u].descriptor \notin D
    OBVIOUS
  <2>1. duty'[u] = duty[u] /\ \A d \in D : u \notin DutiesOf(seen[c].duty, d)
    BY <1>1
  <2>2. \A d \in D : u \notin DutiesOf(duty, d)
    BY <1>2, <2>1
  <2> QED BY <2>1, <2>2 DEF DutiesOf
<1>6. \A d \in D, u \in Duties : u \in DutiesOf(duty, d) =>
        duty'[u] = NoRow /\ seen[c].duty[u] = duty[u]
  BY <1>1, <1>2, <1>3
<1> QED BY <1>4, <1>5, <1>6

LEMMA Unlinks ==
  ASSUME TablesOK, NEW D \in SUBSET Descriptors
  PROVE  /\ WithoutDescriptors(D) \in [Descriptors -> Jobs \union {NoRow}]
         /\ \A d \in Descriptors :
              WithoutDescriptors(D)[d] = IF d \in D THEN NoRow ELSE descriptor[d]
BY DEF TablesOK, WithoutDescriptors

LEMMA DutyFacts ==
  ASSUME TablesOK, NEW u \in Duties, duty[u] # NoRow
  PROVE  duty[u].descriptor \in Descriptors /\ duty[u] \in DutyRows
<1>1. duty[u] \in DutyRows
  BY DEF TablesOK
<1> QED BY <1>1 DEF DutyRows

-----------------------------------------------------------------------------
(***************************************************************************)
(* The actions, one by one: Step is all that has to be shown about what    *)
(* they do to the tables.                                                  *)
(***************************************************************************)
Step == TablesOK' /\ References' /\ SweepsOnlyWhatWasFound /\ KeepsApplied

LEMMA JobCreateStep ==
  ASSUME IInv, NEW j \in Jobs, NEW titled \in BOOLEAN, NEW d \in Descriptors,
         JobCreate(j, titled, d)
  PROVE  Step
<1> TablesOK /\ References
  BY TypeParts DEF IInv
<1>1. [version |-> 0, status |-> "DRAFT"] \in JobRows
  BY JobRow DEF Statuses
<1>2. /\ job' \in [Jobs -> JobRows \union {NoRow}]
      /\ \A k \in Jobs : job[k] # NoRow => job'[k] # NoRow
      /\ job'[j] # NoRow
  BY <1>1, NoRowIsNoRow DEF TablesOK, JobCreate
<1>3. /\ descriptor' \in [Descriptors -> Jobs \union {NoRow}]
      /\ \A e \in Descriptors : descriptor'[e] = descriptor[e] \/ descriptor'[e] = j
  BY DEF TablesOK, JobCreate
<1>4. given' \subseteq Ids
  BY DEF TablesOK, JobCreate, Ids
<1>5. UNCHANGED <<duty, applied, audited>>
  BY DEF JobCreate
<1>6. TablesOK'
  BY <1>2, <1>3, <1>4, <1>5 DEF TablesOK
<1>7. \A e \in Descriptors : descriptor[e] # NoRow => descriptor'[e] # NoRow
  BY <1>3, NoRowIsNoRow
<1>8. References'
  <2>1. \A e \in Descriptors : descriptor'[e] # NoRow => job'[descriptor'[e]] # NoRow
    BY <1>2, <1>3 DEF TablesOK, References
  <2>2. \A u \in Duties : duty'[u] # NoRow => descriptor'[duty'[u].descriptor] # NoRow
    BY <1>5, <1>7, DutyFacts DEF References
  <2>3. \A k \in applied' \union audited' : job'[k] # NoRow
    BY <1>2, <1>5 DEF TablesOK, References
  <2> QED BY <2>1, <2>2, <2>3 DEF References
<1>9. SweepsOnlyWhatWasFound
  BY <1>7 DEF SweepsOnlyWhatWasFound
<1>10. KeepsApplied
  BY <1>2 DEF KeepsApplied, References, TablesOK
<1> QED BY <1>6, <1>8, <1>9, <1>10 DEF Step

LEMMA FirstDescriptorStep ==
  ASSUME IInv, NEW c \in Clients, NEW d \in Descriptors,
         job' \in [Jobs -> JobRows \union {NoRow}],
         \A j \in Jobs : job'[j] # NoRow <=> job[j] # NoRow,
         FirstDescriptor(c, d),
         target[c] \in Jobs, UNCHANGED <<applied, audited>>
  PROVE  Step
<1> TablesOK /\ References
  BY TypeParts DEF IInv
<1>1. /\ descriptor' \in [Descriptors -> Jobs \union {NoRow}]
      /\ \A e \in Descriptors :
           \/ descriptor'[e] = descriptor[e]
           \/ descriptor'[e] = target[c] /\ job[target[c]] # NoRow
      /\ given' \subseteq Ids
      /\ duty' = duty
  BY DEF TablesOK, FirstDescriptor, Ids
<1>2. \A e \in Descriptors : descriptor[e] # NoRow => descriptor'[e] # NoRow
  BY <1>1, NoRowIsNoRow
<1>3. TablesOK'
  BY <1>1 DEF TablesOK
<1>4. References'
  <2>1. \A e \in Descriptors : descriptor'[e] # NoRow => job'[descriptor'[e]] # NoRow
    BY <1>1 DEF TablesOK, References
  <2>2. \A u \in Duties : duty'[u] # NoRow => descriptor'[duty'[u].descriptor] # NoRow
    BY <1>1, <1>2, DutyFacts DEF References
  <2>3. \A k \in applied' \union audited' : job'[k] # NoRow
    BY DEF TablesOK, References
  <2> QED BY <2>1, <2>2, <2>3 DEF References
<1>5. SweepsOnlyWhatWasFound
  BY <1>2 DEF SweepsOnlyWhatWasFound
<1>6. KeepsApplied
  BY DEF KeepsApplied, References, TablesOK
<1> QED BY <1>3, <1>4, <1>5, <1>6 DEF Step

\* The descriptors D are removed with their duties; E is what replaces them.
LEMMA SweepStep ==
  ASSUME IInv, NEW c \in Clients, command[c] \in {"job_update", "job_delete"},
         NEW D \in SUBSET Descriptors, Deletable(c, D), duty' = WithoutDutiesOf(c, D),
         job' \in [Jobs -> JobRows \union {NoRow}],
         descriptor' \in [Descriptors -> Jobs \union {NoRow}],
         \A e \in Descriptors \ D : descriptor[e] # NoRow => descriptor'[e] # NoRow,
         \A e \in Descriptors : descriptor'[e] # NoRow => job'[descriptor'[e]] # NoRow,
         \A j \in applied \union audited : job[j] # NoRow => job'[j] # NoRow,
         given' \subseteq Ids, UNCHANGED <<applied, audited>>
  PROVE  Step
<1> TablesOK /\ References
  BY TypeParts DEF IInv
<1>1. /\ duty' \in [Duties -> DutyRows \union {NoRow}]
      /\ \A u \in Duties : duty'[u] # NoRow => duty'[u] = duty[u] /\ duty[u].descriptor \notin D
      /\ \A d \in D, u \in Duties : u \in DutiesOf(duty, d) =>
           duty'[u] = NoRow /\ seen[c].duty[u] = duty[u]
  BY Sweeps
<1>2. TablesOK'
  BY <1>1 DEF TablesOK
<1>3. References'
  <2>1. \A u \in Duties : duty'[u] # NoRow => descriptor'[duty'[u].descriptor] # NoRow
    <3> SUFFICES ASSUME NEW u \in Duties, duty'[u] # NoRow
                 PROVE  descriptor'[duty'[u].descriptor] # NoRow
      OBVIOUS
    <3>1. duty'[u] = duty[u] /\ duty[u].descriptor \notin D
      BY <1>1
    <3>2. duty[u].descriptor \in Descriptors /\ descriptor[duty[u].descriptor] # NoRow
      BY <3>1, DutyFacts DEF References
    <3> QED BY <3>1, <3>2
  <2>2. \A k \in applied' \union audited' : job'[k] # NoRow
    BY DEF References
  <2> QED BY <2>1, <2>2 DEF References
<1>4. SweepsOnlyWhatWasFound
  <2> SUFFICES ASSUME NEW d \in Descriptors, descriptor[d] # NoRow, descriptor'[d] = NoRow
               PROVE  \A u \in DutiesOf(duty, d) : duty'[u] = NoRow /\ seen[c].duty[u] = duty[u]
    BY DEF SweepsOnlyWhatWasFound
  <2>1. d \in D
    OBVIOUS
  <2> QED BY <1>1, <2>1 DEF DutiesOf
<1>5. KeepsApplied
  BY DEF KeepsApplied, References
<1> QED BY <1>2, <1>3, <1>4, <1>5 DEF Step

LEMMA JobUpdateStep ==
  ASSUME IInv, NEW c \in Clients, NEW status \in Statuses, NEW changed \in BOOLEAN,
         JobUpdate(c, status, changed)
  PROVE  Step
<1> TablesOK /\ TxsOK /\ Requests /\ References
  BY TypeParts DEF IInv
<1> DEFINE D == Old(c)
<1>1. command[c] = "job_update" /\ UNCHANGED <<applied, audited>>
  BY DEF JobUpdate
<1>2. target[c] \in Jobs
  BY <1>1, TargetIsJob
<1>3. /\ job' \in [Jobs -> JobRows \union {NoRow}]
      /\ \A j \in Jobs : job'[j] # NoRow <=> job[j] # NoRow
  BY <1>1, Saves DEF JobUpdate
<1>4. D \in SUBSET Descriptors
  BY DEF Old, DescriptorsOf
<1>5. /\ WithoutDescriptors(D) \in [Descriptors -> Jobs \union {NoRow}]
      /\ \A e \in Descriptors :
           WithoutDescriptors(D)[e] = IF e \in D THEN NoRow ELSE descriptor[e]
  BY <1>4, Unlinks
<1>6. \A e \in Descriptors : descriptor[e] # NoRow =>
        descriptor[e] \in Jobs /\ job'[descriptor[e]] # NoRow
  BY <1>3 DEF TablesOK, References
<1>7. \A j \in applied \union audited : job[j] # NoRow => job'[j] # NoRow
  BY <1>3 DEF TablesOK
<1>8. CASE KeepDescriptor
  <2>1. UNCHANGED <<descriptor, duty, given>>
    BY <1>8 DEF KeepDescriptor
  <2>2. TablesOK' /\ References'
    BY <1>1, <1>3, <1>6, <2>1, DutyFacts DEF TablesOK, References
  <2>3. SweepsOnlyWhatWasFound
    BY <2>1 DEF SweepsOnlyWhatWasFound
  <2>4. KeepsApplied
    BY <1>3 DEF KeepsApplied, References, TablesOK
  <2> QED BY <2>2, <2>3, <2>4 DEF Step
<1>9. ASSUME NEW d \in Descriptors, FirstDescriptor(c, d) PROVE Step
  BY <1>1, <1>2, <1>3, <1>9, FirstDescriptorStep
<1>10. CASE ClearDescriptor(c)
  <2>1. Deletable(c, D) /\ duty' = WithoutDutiesOf(c, D)
        /\ descriptor' = WithoutDescriptors(D) /\ given' = given
    BY <1>10 DEF ClearDescriptor
  <2>2. \A e \in Descriptors \ D : descriptor[e] # NoRow => descriptor'[e] # NoRow
    BY <1>5, <2>1
  <2>3. \A e \in Descriptors : descriptor'[e] # NoRow => job'[descriptor'[e]] # NoRow
    BY <1>5, <1>6, <2>1
  <2>4. given' \subseteq Ids
    BY <2>1 DEF TablesOK
  <2>5. descriptor' \in [Descriptors -> Jobs \union {NoRow}]
    BY <1>5, <2>1
  <2> HIDE DEF D
  <2> QED BY <1>1, <1>3, <1>4, <1>7, <2>1, <2>2, <2>3, <2>4, <2>5, SweepStep
<1>11. ASSUME NEW d \in Descriptors, ReplaceDescriptor(c, d) PROVE Step
  <2>1. /\ Deletable(c, D) /\ duty' = WithoutDutiesOf(c, D)
        /\ job[target[c]] # NoRow /\ given' = given \union {d}
        /\ descriptor' = [WithoutDescriptors(D) EXCEPT ![d] = target[c]]
    BY <1>11 DEF ReplaceDescriptor
  <2>2. /\ descriptor' \in [Descriptors -> Jobs \union {NoRow}]
        /\ \A e \in Descriptors : descriptor'[e] =
             IF e = d THEN target[c] ELSE WithoutDescriptors(D)[e]
    BY <1>2, <1>5, <2>1
  <2>3. \A e \in Descriptors \ D : descriptor[e] # NoRow => descriptor'[e] # NoRow
    BY <1>2, <1>5, <2>2, NoRowIsNoRow
  <2>4. job'[target[c]] # NoRow
    BY <1>2, <1>3, <2>1
  <2>5. \A e \in Descriptors : descriptor'[e] # NoRow => job'[descriptor'[e]] # NoRow
    BY <1>5, <1>6, <2>2, <2>4
  <2>6. given' \subseteq Ids
    BY <2>1 DEF TablesOK, Ids
  <2> HIDE DEF D
  <2> QED BY <1>1, <1>3, <1>4, <1>7, <2>1, <2>2, <2>3, <2>5, <2>6, SweepStep
<1> QED BY <1>8, <1>9, <1>10, <1>11 DEF JobUpdate

LEMMA JobDeleteStep ==
  ASSUME IInv, NEW c \in Clients, JobDelete(c)
  PROVE  Step
<1> TablesOK /\ TxsOK /\ Requests /\ References
  BY TypeParts DEF IInv
<1> DEFINE D == Old(c)
<1>1. /\ command[c] = "job_delete" /\ UNCHANGED <<applied, audited, given>>
      /\ target[c] \notin applied \union audited
      /\ Deletable(c, D) /\ duty' = WithoutDutiesOf(c, D)
      /\ DescriptorsOf(descriptor, target[c]) = D
      /\ descriptor' = WithoutDescriptors(D)
      /\ job' = [job EXCEPT ![target[c]] = NoRow]
  BY DEF JobDelete, JobUnreferenced
<1>2. D \in SUBSET Descriptors
  BY DEF Old, DescriptorsOf
<1>3. /\ descriptor' \in [Descriptors -> Jobs \union {NoRow}]
      /\ \A e \in Descriptors : descriptor'[e] = IF e \in D THEN NoRow ELSE descriptor[e]
  BY <1>1, <1>2, Unlinks
<1>4. /\ job' \in [Jobs -> JobRows \union {NoRow}]
      /\ \A j \in Jobs : j # target[c] => job'[j] = job[j]
  BY <1>1 DEF TablesOK
<1>5. \A e \in Descriptors \ D : descriptor[e] # NoRow => descriptor'[e] # NoRow
  BY <1>3
<1>6. \A e \in Descriptors : descriptor'[e] # NoRow => job'[descriptor'[e]] # NoRow
  <2> SUFFICES ASSUME NEW e \in Descriptors, descriptor'[e] # NoRow
               PROVE  job'[descriptor'[e]] # NoRow
    OBVIOUS
  <2>1. e \notin D /\ descriptor'[e] = descriptor[e]
    BY <1>3
  <2>2. descriptor[e] # target[c]
    BY <1>1, <2>1 DEF DescriptorsOf
  <2>3. descriptor[e] \in Jobs /\ job[descriptor[e]] # NoRow
    BY <2>1 DEF TablesOK, References
  <2> QED BY <1>4, <2>1, <2>2, <2>3
<1>7. \A j \in applied \union audited : job[j] # NoRow => job'[j] # NoRow
  BY <1>1, <1>4 DEF TablesOK
<1>8. given' \subseteq Ids
  BY <1>1 DEF TablesOK
<1> HIDE DEF D
<1> QED BY <1>1, <1>2, <1>3, <1>4, <1>5, <1>6, <1>7, <1>8, SweepStep

\* A new or edited duty of a descriptor that is there.
LEMMA DutyStep ==
  ASSUME IInv, NEW u \in Duties, NEW newRow \in DutyRows,
         descriptor[newRow.descriptor] # NoRow, duty' = [duty EXCEPT ![u] = newRow],
         UNCHANGED <<job, descriptor, applied, audited>>, given' \subseteq Ids
  PROVE  Step
<1> TablesOK /\ References
  BY TypeParts DEF IInv
<1>1. duty' \in [Duties -> DutyRows \union {NoRow}]
      /\ \A v \in Duties : duty'[v] = IF v = u THEN newRow ELSE duty[v]
  BY DEF TablesOK
<1>2. TablesOK' /\ References'
  BY <1>1 DEF TablesOK, References
<1>3. SweepsOnlyWhatWasFound /\ KeepsApplied
  BY DEF SweepsOnlyWhatWasFound, KeepsApplied, References
<1> QED BY <1>2, <1>3 DEF Step

LEMMA DutyCreateStep ==
  ASSUME IInv, NEW c \in Clients, NEW u \in Duties, NEW p \in Percentages,
         DutyCreate(c, u, p)
  PROVE  Step
<1> DEFINE newRow == [version |-> 0, descriptor |-> target[c], percentage |-> p]
<1>1. command[c] = "duty_create" /\ descriptor[target[c]] # NoRow
      /\ given' = given \union {u} /\ duty' = [duty EXCEPT ![u] = newRow]
      /\ UNCHANGED <<job, descriptor, applied, audited>>
  BY DEF DutyCreate
<1>2. target[c] \in Descriptors
  BY <1>1 DEF IInv, Requests, About
<1>3. newRow \in DutyRows /\ newRow.descriptor = target[c]
  BY <1>2, DutyRow
<1>4. given' \subseteq Ids
  BY <1>1 DEF IInv, TypeOK, Ids
<1> HIDE DEF newRow
<1> QED BY <1>1, <1>3, <1>4, DutyStep

LEMMA DutyUpdateStep ==
  ASSUME IInv, NEW c \in Clients, NEW p \in Percentages, DutyUpdate(c, p)
  PROVE  Step
<1> TablesOK /\ TxsOK /\ Requests /\ References
  BY TypeParts DEF IInv
<1> DEFINE u == target[c]
           found == seen[c].duty[u]
           newRow == [version |-> found.version + 1, descriptor |-> found.descriptor,
                     percentage |-> p]
<1>1. command[c] = "duty_update" /\ duty[u] = found /\ duty' = [duty EXCEPT ![u] = newRow]
      /\ UNCHANGED <<job, descriptor, applied, audited, given>>
  BY DEF DutyUpdate
<1>2. u \in Duties /\ found \in DutyRows
  BY <1>1, TargetIsDuty
<1>3. found.version + 1 \in Nat /\ found.descriptor \in Descriptors
  BY <1>2 DEF DutyRows
<1>4. newRow \in DutyRows /\ newRow.descriptor = found.descriptor
  BY <1>3, DutyRow
<1>5. descriptor[found.descriptor] # NoRow
  BY <1>1, <1>2, NoRowIsNoRow DEF References
<1>6. given' \subseteq Ids
  BY <1>1 DEF TablesOK
<1> HIDE DEF u, found, newRow
<1> QED BY <1>1, <1>2, <1>4, <1>5, <1>6, DutyStep

LEMMA ReferStep ==
  ASSUME IInv, NEW j \in Jobs, Apply(j) \/ Audit(j)
  PROVE  Step
<1>1. /\ job[j] # NoRow /\ UNCHANGED <<job, descriptor, duty, given>>
      /\ applied' \subseteq applied \union {j} /\ audited' \subseteq audited \union {j}
  BY DEF Apply, Audit
<1>2. TablesOK' /\ References'
  BY <1>1 DEF IInv, TypeOK, TablesOK, References
<1>3. SweepsOnlyWhatWasFound /\ KeepsApplied
  BY <1>1 DEF SweepsOnlyWhatWasFound, KeepsApplied, IInv, References
<1> QED BY <1>2, <1>3 DEF Step

LEMMA UnchangedStep ==
  ASSUME IInv, UNCHANGED db
  PROVE  Step
<1>1. TablesOK' /\ References'
  BY DEF IInv, TypeOK, TablesOK, References, db
<1>2. SweepsOnlyWhatWasFound /\ KeepsApplied
  BY DEF SweepsOnlyWhatWasFound, KeepsApplied, IInv, References, db
<1> QED BY <1>1, <1>2 DEF Step

-----------------------------------------------------------------------------
(***************************************************************************)
(* A row that appears takes its identifier from the sequence.              *)
(***************************************************************************)
LEMMA NumbersStay ==
  ASSUME Numbered, given \subseteq given',
         \A j \in Jobs : job'[j] # NoRow => job[j] # NoRow \/ j \in given',
         \A d \in Descriptors : descriptor'[d] # NoRow => descriptor[d] # NoRow \/ d \in given',
         \A u \in Duties : duty'[u] # NoRow => duty[u] # NoRow \/ u \in given'
  PROVE  Numbered'
BY DEF Numbered

LEMMA NumberedUpdate ==
  ASSUME IInv, NEW c \in Clients, NEW status \in Statuses, NEW changed \in BOOLEAN,
         JobUpdate(c, status, changed)
  PROVE  Numbered'
<1> TablesOK /\ TxsOK /\ Requests /\ Numbered
  BY TypeParts DEF IInv
<1>1. \A j \in Jobs : job'[j] # NoRow => job[j] # NoRow
  BY Saves DEF JobUpdate
<1>2. \A d \in Descriptors : WithoutDescriptors(Old(c))[d] # NoRow => descriptor[d] # NoRow
  BY DEF WithoutDescriptors
<1>3. \A u \in Duties : WithoutDutiesOf(c, Old(c))[u] # NoRow => duty[u] # NoRow
  BY DEF WithoutDutiesOf
<1>4. CASE KeepDescriptor
  BY <1>1, <1>4, NumbersStay DEF KeepDescriptor
<1>5. CASE ClearDescriptor(c)
  BY <1>1, <1>2, <1>3, <1>5, NumbersStay DEF ClearDescriptor
<1>6. ASSUME NEW d \in Descriptors, FirstDescriptor(c, d) PROVE Numbered'
  <2>1. \A e \in Descriptors : descriptor'[e] # NoRow => descriptor[e] # NoRow \/ e \in given'
    BY <1>6 DEF FirstDescriptor, TablesOK
  <2> QED BY <1>1, <1>6, <2>1, NumbersStay DEF FirstDescriptor
<1>7. ASSUME NEW d \in Descriptors, ReplaceDescriptor(c, d) PROVE Numbered'
  <2>1. /\ descriptor' = [WithoutDescriptors(Old(c)) EXCEPT ![d] = target[c]]
        /\ given' = given \union {d} /\ duty' = WithoutDutiesOf(c, Old(c))
    BY <1>7 DEF ReplaceDescriptor
  <2>2. \A e \in Descriptors : e # d => descriptor'[e] = WithoutDescriptors(Old(c))[e]
    BY <2>1 DEF WithoutDescriptors
  <2>3. \A e \in Descriptors : descriptor'[e] # NoRow => descriptor[e] # NoRow \/ e \in given'
    BY <1>2, <2>1, <2>2
  <2> QED BY <1>1, <1>3, <2>1, <2>3, NumbersStay
<1> QED BY <1>4, <1>5, <1>6, <1>7 DEF JobUpdate

LEMMA NumberedStep ==
  ASSUME IInv, [Next]_vars
  PROVE  Numbered'
<1> TablesOK /\ TxsOK /\ Requests /\ Numbered
  BY TypeParts DEF IInv
<1>1. ASSUME NEW j \in Jobs, NEW titled \in BOOLEAN, NEW d \in Descriptors,
             JobCreate(j, titled, d)
      PROVE  Numbered'
  <2>1. /\ \A k \in Jobs : k # j => job'[k] = job[k]
        /\ \A e \in Descriptors : e # d \/ ~titled => descriptor'[e] = descriptor[e]
        /\ duty' = duty
    BY <1>1 DEF JobCreate, TablesOK
  <2>2. given \subseteq given' /\ j \in given' /\ (titled => d \in given')
    BY <1>1 DEF JobCreate
  <2> QED BY <2>1, <2>2, NumbersStay
<1>2. ASSUME NEW c \in Clients, JobDelete(c)
      PROVE  Numbered'
  <2>1. /\ \A j \in Jobs : job'[j] # NoRow => job[j] # NoRow
        /\ given' = given
    BY <1>2 DEF JobDelete, TablesOK
  <2>2. \A d \in Descriptors : descriptor'[d] # NoRow => descriptor[d] # NoRow
    BY <1>2 DEF JobDelete, WithoutDescriptors
  <2>3. \A u \in Duties : duty'[u] # NoRow => duty[u] # NoRow
    BY <1>2 DEF JobDelete, WithoutDutiesOf
  <2> QED BY <2>1, <2>2, <2>3, NumbersStay
<1>3. ASSUME NEW c \in Clients, NEW u \in Duties, NEW p \in Percentages, DutyCreate(c, u, p)
      PROVE  Numbered'
  <2>1. /\ given' = given \union {u} /\ job' = job /\ descriptor' = descriptor
        /\ \A v \in Duties : v # u => duty'[v] = duty[v]
    BY <1>3 DEF DutyCreate, TablesOK
  <2> QED BY <2>1, NumbersStay
<1>4. ASSUME NEW c \in Clients, NEW p \in Percentages, DutyUpdate(c, p)
      PROVE  Numbered'
  <2>1. command[c] = "duty_update" /\ duty[target[c]] = seen[c].duty[target[c]]
    BY <1>4 DEF DutyUpdate
  <2>2. target[c] \in Duties /\ duty[target[c]] # NoRow
    BY <2>1, TargetIsDuty, NoRowIsNoRow
  <2>3. /\ given' = given /\ job' = job /\ descriptor' = descriptor
        /\ \A v \in Duties : v # target[c] => duty'[v] = duty[v]
    BY <1>4 DEF DutyUpdate, TablesOK
  <2> QED BY <2>2, <2>3, NumbersStay
<1>5. CASE UNCHANGED <<job, descriptor, duty, given>>
  BY <1>5, NumbersStay
<1> QED BY <1>1, <1>2, <1>3, <1>4, <1>5, NumberedUpdate
        DEF Next, vars, db, Begin, Reject, Apply, Audit

-----------------------------------------------------------------------------
(***************************************************************************)
(* Upheld is all that has to be shown about the action that ends the       *)
(* request of tab c.                                                       *)
(***************************************************************************)
Upheld(c) == PublishesWhatIsFull(c) /\ WritesWhatFits(c)

\* What the duties of d add up to, they did in the snapshot.
LEMMA FoundWorkload ==
  ASSUME NEW c \in Clients, NEW d, StillFound(c, d)
  PROVE  /\ DutiesOf(duty, d) = DutiesOf(seen[c].duty, d)
         /\ \A T \in SUBSET DutiesOf(duty, d) : Workload(duty, T) = Workload(seen[c].duty, T)
<1>1. \A u \in DutiesOf(duty, d) \union DutiesOf(seen[c].duty, d) : duty[u] = seen[c].duty[u]
  BY DEF StillFound
<1>2. DutiesOf(duty, d) = DutiesOf(seen[c].duty, d)
  BY <1>1 DEF DutiesOf
<1>3. ASSUME NEW T \in SUBSET DutiesOf(duty, d)
      PROVE  Workload(duty, T) = Workload(seen[c].duty, T)
  <2>1. [u \in T |-> duty[u].percentage] = [u \in T |-> seen[c].duty[u].percentage]
    BY <1>1, <1>3
  <2> QED BY <2>1 DEF Workload
<1> QED BY <1>2, <1>3

\* What neither publishes a job nor writes a duty.
LEMMA QuietUpheld ==
  ASSUME NEW c \in Clients,
         \A j \in Jobs : Published(j)' => Published(j),
         \A u \in Duties : duty'[u] # NoRow => duty'[u] = duty[u]
  PROVE  Upheld(c)
BY DEF Upheld, PublishesWhatIsFull, WritesWhatFits

LEMMA RejectUpheld ==
  ASSUME NEW c \in Clients, Reject(c)
  PROVE  Upheld(c)
<1>1. job' = job /\ duty' = duty
  BY DEF Reject, db
<1>2. \A j \in Jobs : Published(j)' => Published(j)
  BY <1>1 DEF Published
<1> QED BY <1>1, <1>2, QuietUpheld

LEMMA JobDeleteUpheld ==
  ASSUME IInv, NEW c \in Clients, JobDelete(c)
  PROVE  Upheld(c)
<1> TablesOK /\ TxsOK /\ Requests
  BY TypeParts DEF IInv
<1>1. /\ job' = [job EXCEPT ![target[c]] = NoRow] /\ duty' = WithoutDutiesOf(c, Old(c))
  BY DEF JobDelete
<1>2. \A j \in Jobs : Published(j)' => Published(j)
  <2>1. \A j \in Jobs : job'[j] = IF j = target[c] THEN NoRow ELSE job[j]
    BY <1>1 DEF TablesOK
  <2> QED BY <2>1 DEF Published
<1>3. \A u \in Duties : duty'[u] # NoRow => duty'[u] = duty[u]
  BY <1>1 DEF WithoutDutiesOf
<1> QED BY <1>2, <1>3, QuietUpheld

\* A job gets published only with duties that add up to 100, as validate saw.
LEMMA JobUpdatePublishes ==
  ASSUME IInv, NEW c \in Clients, NEW status \in Statuses, NEW changed \in BOOLEAN,
         JobUpdate(c, status, changed)
  PROVE  PublishesWhatIsFull(c)
<1> TablesOK /\ TxsOK /\ Requests
  BY TypeParts DEF IInv
<1> SUFFICES ASSUME NEW j \in Jobs, ~Published(j), Published(j)'
             PROVE  \E d \in Old(c) : StillFound(c, d) => Workload(duty, DutiesOf(duty, d)) = 100
  BY DEF PublishesWhatIsFull
<1>1. command[c] = "job_update" /\ ValidUpdate(c, status) /\ SaveJob(c, status, changed)
  BY DEF JobUpdate
<1>2. target[c] \in Jobs
  BY <1>1, TargetIsJob
<1>3. job'[j] # job[j]
  BY DEF Published
<1>4. job' = [job EXCEPT ![target[c]] =
                [version |-> seen[c].job[target[c]].version + 1, status |-> status]]
  BY <1>1, <1>3 DEF SaveJob
<1>5. j = target[c]
  BY <1>2, <1>3, <1>4 DEF TablesOK
<1>6. job'[j].status = status
  BY <1>2, <1>4, <1>5 DEF TablesOK
<1>7. status = "PUBLISHED"
  BY <1>6 DEF Published
<1>8. PICK d \in Old(c) : Workload(seen[c].duty, DutiesOf(seen[c].duty, d)) = 100
  BY <1>1, <1>7 DEF ValidUpdate
<1> QED BY <1>8, FoundWorkload

LEMMA JobUpdateUpheld ==
  ASSUME IInv, NEW c \in Clients, NEW status \in Statuses, NEW changed \in BOOLEAN,
         JobUpdate(c, status, changed)
  PROVE  Upheld(c)
<1>1. \A u \in Duties : WithoutDutiesOf(c, Old(c))[u] # NoRow =>
        WithoutDutiesOf(c, Old(c))[u] = duty[u]
  BY DEF WithoutDutiesOf
<1>2. duty' = duty \/ duty' = WithoutDutiesOf(c, Old(c))
  BY DEF JobUpdate, KeepDescriptor, ClearDescriptor, FirstDescriptor, ReplaceDescriptor
<1>3. WritesWhatFits(c)
  BY <1>1, <1>2 DEF WritesWhatFits
<1> QED BY <1>3, JobUpdatePublishes DEF Upheld

LEMMA DutiesOnlyUpheld ==
  ASSUME NEW c \in Clients, job' = job, WritesWhatFits(c)
  PROVE  Upheld(c)
<1>1. PublishesWhatIsFull(c)
  BY DEF PublishesWhatIsFull, Published
<1> QED BY <1>1 DEF Upheld

LEMMA SumOfDuties ==
  ASSUME TablesOK, NEW d
  PROVE  /\ IsFiniteSet(DutiesOf(duty, d)) /\ DutiesOf(duty, d) \subseteq Duties
         /\ \A u \in DutiesOf(duty, d) : duty[u].percentage \in Int
<1>1. DutiesOf(duty, d) \subseteq Duties
  BY DEF DutiesOf
<1>2. IsFiniteSet(DutiesOf(duty, d))
  BY <1>1, DutiesAssumption, FS_Subset
<1>3. \A u \in DutiesOf(duty, d) : duty[u] \in DutyRows
  BY DutyFacts DEF DutiesOf
<1> QED BY <1>1, <1>2, <1>3 DEF DutyRows

LEMMA WorkloadAdds ==
  ASSUME NEW S, IsFiniteSet(S), NEW u, u \notin S, NEW old, NEW new, NEW p \in Int,
         \A v \in S : old[v].percentage \in Int /\ new[v].percentage = old[v].percentage,
         new[u].percentage = p
  PROVE  Workload(new, S \union {u}) = Workload(old, S) + p
<1> DEFINE T == S \union {u}
           f == [v \in S |-> old[v].percentage]
           h == [v \in T |-> new[v].percentage]
<1>1. IsFiniteSet(T) /\ u \in T /\ T \ {u} = S
  BY FS_AddElement
<1>2. (\A v \in S : f[v] \in Int /\ h[v] = f[v]) /\ (\A v \in T : h[v] \in Int) /\ h[u] = p
  OBVIOUS
<1>3. DOMAIN f = S /\ DOMAIN h = T
  OBVIOUS
<1>4. Workload(old, S) = SumFunction(f) /\ Workload(new, T) = SumFunction(h)
  BY DEF Workload
<1> HIDE DEF f, h
<1>5. Workload(old, S) = SumOn(f, S) /\ Workload(new, T) = SumOn(h, T)
  BY <1>3, <1>4, SumIsFold
<1> HIDE DEF T
<1>6. SumOn(h, T) = h[u] + SumOn(h, T \ {u})
  BY <1>1, <1>2, SumTakesOut
<1>7. SumOn(h, S) = SumOn(f, S) /\ SumOn(f, S) \in Int
  BY <1>2, SumsAgree, SumIsInt
<1>8. Workload(new, T) = p + SumOn(f, S)
  BY <1>1, <1>2, <1>5, <1>6, <1>7
<1>9. Workload(new, T) = Workload(old, S) + p
  BY <1>5, <1>7, <1>8
<1> QED BY <1>9 DEF T

LEMMA DutyCreateUpheld ==
  ASSUME IInv, NEW c \in Clients, NEW u \in Duties, NEW p \in Percentages,
         DutyCreate(c, u, p)
  PROVE  Upheld(c)
<1> TablesOK /\ TxsOK /\ Requests /\ Numbered
  BY TypeParts DEF IInv
<1> DEFINE newRow == [version |-> 0, descriptor |-> target[c], percentage |-> p]
           S == DutiesOf(duty, target[c])
<1>1. /\ command[c] = "duty_create" /\ job' = job /\ u \notin given
      /\ duty' = [duty EXCEPT ![u] = newRow] /\ Fits(seen[c].duty, DutiesOf(seen[c].duty, target[c]), p)
  BY DEF DutyCreate
<1>2. duty[u] = NoRow
  BY <1>1 DEF Numbered
<1>3. target[c] \in Descriptors /\ p \in Nat
  BY <1>1, PercentagesAssumption DEF Requests, About
<1>4. newRow \in DutyRows /\ newRow.descriptor = target[c] /\ newRow.percentage = p
  BY <1>3, DutyRow
<1>5. newRow # NoRow
  BY <1>4, NoRowIsNoRow
<1> HIDE DEF newRow
<1>6. \A v \in Duties : duty'[v] = IF v = u THEN newRow ELSE duty[v]
  BY <1>1 DEF TablesOK
<1>7. DutiesOf(duty', target[c]) = S \union {u} /\ u \notin S
  BY <1>2, <1>4, <1>5, <1>6 DEF DutiesOf
<1>8. IsFiniteSet(S) /\ S \subseteq Duties /\ \A v \in S : duty[v].percentage \in Int
  BY SumOfDuties
<1> HIDE DEF S
<1>9. Workload(duty', S \union {u}) = Workload(duty, S) + p
  <2>1. \A v \in S : duty[v].percentage \in Int /\ duty'[v].percentage = duty[v].percentage
    BY <1>6, <1>7, <1>8
  <2>2. duty'[u].percentage = p /\ p \in Int
    BY <1>3, <1>4, <1>6
  <2>3. IsFiniteSet(S) /\ u \notin S
    BY <1>7, <1>8
  <2> QED BY <2>1, <2>2, <2>3, WorkloadAdds
<1> USE DEF S
<1>10. StillFound(c, target[c]) => Workload(duty, S) + p <= 100
  BY <1>1, FoundWorkload DEF Fits
<1>11. WritesWhatFits(c)
  <2> SUFFICES ASSUME NEW v \in Duties, duty'[v] # duty[v], duty'[v] # NoRow
               PROVE  LET all == DutiesOf(duty', duty'[v].descriptor)
                      IN  StillFound(c, duty'[v].descriptor) =>
                            Workload(duty', IF duty[v] = NoRow THEN all ELSE all \ {v}) <= 100
    BY DEF WritesWhatFits
  <2>1. v = u /\ duty'[v].descriptor = target[c]
    BY <1>4, <1>6
  <2> QED BY <1>2, <1>7, <1>9, <1>10, <2>1
<1> QED BY <1>1, <1>11, DutiesOnlyUpheld

LEMMA DutyUpdateUpheld ==
  ASSUME IInv, NEW c \in Clients, NEW p \in Percentages, DutyUpdate(c, p)
  PROVE  Upheld(c)
<1> TablesOK /\ TxsOK /\ Requests
  BY TypeParts DEF IInv
<1> DEFINE u == target[c]
           found == seen[c].duty[u]
           d == found.descriptor
           newRow == [version |-> found.version + 1, descriptor |-> d, percentage |-> p]
           S == DutiesOf(duty, d) \ {u}
<1>1. /\ command[c] = "duty_update" /\ job' = job /\ duty[u] = found
      /\ duty' = [duty EXCEPT ![u] = newRow]
      /\ Workload(seen[c].duty, DutiesOf(seen[c].duty, d) \ {u}) <= 100
  BY DEF DutyUpdate
<1>2. u \in Duties /\ duty[u] # NoRow
  BY <1>1, TargetIsDuty, NoRowIsNoRow
<1>3. newRow.descriptor = d
  OBVIOUS
<1>4. StillFound(c, d) => Workload(duty, S) <= 100
  BY <1>1, FoundWorkload
<1> HIDE DEF u, found, d, newRow
<1>5. \A v \in Duties : duty'[v] = IF v = u THEN newRow ELSE duty[v]
  BY <1>1 DEF TablesOK
<1>6. DutiesOf(duty', d) \ {u} = S /\ u \notin S /\ S \subseteq Duties
  BY <1>5 DEF DutiesOf
<1>7. Workload(duty', S) = Workload(duty, S)
  <2> HIDE DEF S
  <2>1. [v \in S |-> duty'[v].percentage] = [v \in S |-> duty[v].percentage]
    BY <1>5, <1>6
  <2> QED BY <2>1 DEF Workload
<1>8. WritesWhatFits(c)
  <2> SUFFICES ASSUME NEW v \in Duties, duty'[v] # duty[v], duty'[v] # NoRow
               PROVE  LET all == DutiesOf(duty', duty'[v].descriptor)
                      IN  StillFound(c, duty'[v].descriptor) =>
                            Workload(duty', IF duty[v] = NoRow THEN all ELSE all \ {v}) <= 100
    BY DEF WritesWhatFits
  <2>1. v = u /\ duty'[v].descriptor = d
    BY <1>3, <1>5
  <2> QED BY <1>2, <1>4, <1>6, <1>7, <2>1
<1> QED BY <1>1, <1>8, DutiesOnlyUpheld

LEMMA EndUpheld ==
  ASSUME IInv, [Next]_vars, NEW c \in Clients, Ends(c)
  PROVE  Upheld(c)
<1> TxsOK
  BY TypeParts DEF IInv
<1>1. command[c] # "none" /\ command'[c] = "none"
  BY DEF Ends
<1>2. \A d \in Clients : End(d) => d = c
  BY <1>1 DEF End, TxsOK
<1>3. command' # command
  BY <1>1
<1>4. ASSUME NEW d \in Clients, NEW cmd \in Commands, NEW x \in Ids, Begin(d, cmd, x)
      PROVE  FALSE
  <2>1. command' = [command EXCEPT ![d] = cmd] /\ command[d] = "none" /\ cmd # "none"
    BY <1>4 DEF Begin, Commands
  <2> QED BY <1>1, <2>1 DEF TxsOK
<1>5. ASSUME NEW d \in Clients, Reject(d) PROVE Upheld(c)
  BY <1>2, <1>5, RejectUpheld DEF Reject
<1>6. ASSUME NEW d \in Clients, NEW status \in Statuses, NEW changed \in BOOLEAN,
             JobUpdate(d, status, changed)
      PROVE  Upheld(c)
  <2>1. d = c
    BY <1>2, <1>6 DEF JobUpdate
  <2> QED BY <1>6, <2>1, JobUpdateUpheld
<1>7. ASSUME NEW d \in Clients, JobDelete(d) PROVE Upheld(c)
  BY <1>2, <1>7, JobDeleteUpheld DEF JobDelete
<1>8. ASSUME NEW d \in Clients, NEW u \in Duties, NEW p \in Percentages, DutyCreate(d, u, p)
      PROVE  Upheld(c)
  <2>1. d = c
    BY <1>2, <1>8 DEF DutyCreate
  <2> QED BY <1>8, <2>1, DutyCreateUpheld
<1>9. ASSUME NEW d \in Clients, NEW p \in Percentages, DutyUpdate(d, p) PROVE Upheld(c)
  <2>1. d = c
    BY <1>2, <1>9 DEF DutyUpdate
  <2> QED BY <1>9, <2>1, DutyUpdateUpheld
<1> QED BY <1>3, <1>4, <1>5, <1>6, <1>7, <1>8, <1>9
        DEF Next, vars, txs, JobCreate, Apply, Audit

-----------------------------------------------------------------------------
(***************************************************************************)
(* What happens to the descriptors of one job.                             *)
(***************************************************************************)
Joined(j) ==
  LET was == DescriptorsOf(descriptor, j)
      is == DescriptorsOf(descriptor', j)
  IN  was # {} /\ was # is /\ was \subseteq is

LEMMA UpdateJoins ==
  ASSUME IInv, NEW c \in Clients, NEW status \in Statuses, NEW changed \in BOOLEAN,
         JobUpdate(c, status, changed), NEW j \in Jobs, Joined(j)
  PROVE  Ends(c) /\ target[c] = j /\ Old(c) = {}
<1> TablesOK /\ TxsOK /\ Requests
  BY TypeParts DEF IInv
<1>1. command[c] = "job_update" /\ End(c)
  BY DEF JobUpdate
<1>2. target[c] \in Jobs /\ target[c] # NoRow
  BY <1>1, TargetIsJob, NoRowIsNoRow
<1>3. Ends(c)
  BY <1>1 DEF Ends, End, TxsOK
<1>4. ASSUME NEW D \in SUBSET Descriptors, descriptor' = WithoutDescriptors(D)
      PROVE  FALSE
  <2>1. DescriptorsOf(descriptor', j) \subseteq DescriptorsOf(descriptor, j)
    BY <1>4, NoRowIsNoRow DEF WithoutDescriptors, DescriptorsOf
  <2> QED BY <2>1 DEF Joined
<1>5. CASE KeepDescriptor
  BY <1>5 DEF KeepDescriptor, Joined
<1>6. CASE ClearDescriptor(c)
  BY <1>4, <1>6 DEF ClearDescriptor, Old, DescriptorsOf
<1>7. ASSUME NEW d \in Descriptors, FirstDescriptor(c, d)
      PROVE  target[c] = j /\ Old(c) = {}
  <2>1. descriptor' = [descriptor EXCEPT ![d] = target[c]] /\ Old(c) = {}
    BY <1>7 DEF FirstDescriptor
  <2>2. target[c] # j => DescriptorsOf(descriptor', j) \subseteq DescriptorsOf(descriptor, j)
    BY <2>1 DEF DescriptorsOf, TablesOK
  <2> QED BY <2>1, <2>2 DEF Joined
<1>8. ASSUME NEW d \in Descriptors, ReplaceDescriptor(c, d)
      PROVE  FALSE
  <2>1. /\ descriptor' = [WithoutDescriptors(Old(c)) EXCEPT ![d] = target[c]]
        /\ Old(c) # {} /\ d \notin given /\ Deletable(c, Old(c))
    BY <1>8 DEF ReplaceDescriptor
  <2>2. PICK o \in Old(c) : TRUE
    BY <2>1
  <2>3. o \in Descriptors /\ descriptor[o] = target[c] /\ o # d
    BY <1>2, <2>1, <2>2, NoRowIsNoRow DEF Old, DescriptorsOf, Deletable, IInv, Numbered
  <2>4. \A e \in Descriptors : descriptor'[e] =
          IF e = d THEN target[c] ELSE IF e \in Old(c) THEN NoRow ELSE descriptor[e]
    BY <2>1 DEF WithoutDescriptors
  <2>5. CASE j = target[c]
    <3>1. o \in DescriptorsOf(descriptor, j) /\ o \notin DescriptorsOf(descriptor', j)
      BY <1>2, <2>2, <2>3, <2>4, <2>5 DEF DescriptorsOf
    <3> QED BY <3>1 DEF Joined
  <2>6. CASE j # target[c]
    <3>1. DescriptorsOf(descriptor', j) \subseteq DescriptorsOf(descriptor, j)
      BY <2>4, <2>6, NoRowIsNoRow DEF DescriptorsOf
    <3> QED BY <3>1 DEF Joined
  <2> QED BY <2>5, <2>6
<1> QED BY <1>3, <1>5, <1>6, <1>7, <1>8 DEF JobUpdate

LEMMA NextJoins ==
  ASSUME IInv, [Next]_vars
  PROVE  JoinsOnlyUnseen
<1> TablesOK /\ TxsOK /\ Requests
  BY TypeParts DEF IInv
<1> SUFFICES ASSUME NEW j \in Jobs, Joined(j)
             PROVE  \E c \in Clients : Ends(c) /\ target[c] = j /\ Old(c) = {}
  BY DEF JoinsOnlyUnseen, Joined
<1>1. ASSUME NEW k \in Jobs, NEW titled \in BOOLEAN, NEW d \in Descriptors,
             JobCreate(k, titled, d)
      PROVE  FALSE
  <2>1. job[k] = NoRow /\ (descriptor' = descriptor \/ descriptor' = [descriptor EXCEPT ![d] = k])
    BY <1>1 DEF JobCreate, IInv, Numbered
  <2>2. CASE j = k
    <3>1. DescriptorsOf(descriptor, j) = {}
      BY <2>1, <2>2, NoRowIsNoRow DEF DescriptorsOf, IInv, References
    <3> QED BY <3>1 DEF Joined
  <2>3. CASE j # k
    <3>1. DescriptorsOf(descriptor', j) \subseteq DescriptorsOf(descriptor, j)
      BY <2>1, <2>3 DEF DescriptorsOf, TablesOK
    <3> QED BY <3>1 DEF Joined
  <2> QED BY <2>2, <2>3
<1>2. ASSUME NEW c \in Clients, JobDelete(c)
      PROVE  FALSE
  <2>1. descriptor' = WithoutDescriptors(Old(c))
    BY <1>2 DEF JobDelete
  <2>2. DescriptorsOf(descriptor', j) \subseteq DescriptorsOf(descriptor, j)
    BY <2>1, NoRowIsNoRow DEF WithoutDescriptors, DescriptorsOf
  <2> QED BY <2>2 DEF Joined
<1>3. CASE descriptor' = descriptor
  BY <1>3 DEF Joined
<1> QED BY <1>1, <1>2, <1>3, UpdateJoins
        DEF Next, vars, db, Begin, Reject, DutyCreate, DutyUpdate, Apply, Audit

-----------------------------------------------------------------------------
(***************************************************************************)
(* The theorems.                                                           *)
(***************************************************************************)
LEMMA InitInvariant == Init => IInv
BY DEF Init, IInv, TypeOK, Requests, References, Numbered

LEMMA NextStep ==
  ASSUME IInv, [Next]_vars
  PROVE  IInv' /\ SweepsOnlyWhatWasFound /\ KeepsApplied
<1> TablesOK /\ TxsOK /\ Requests
  BY TypeParts DEF IInv
<1> SUFFICES TxsOK' /\ Requests' /\ Step
  BY NumberedStep DEF IInv, Step, TypeOK, TablesOK, TxsOK
<1>1. ASSUME NEW j \in Jobs, NEW titled \in BOOLEAN, NEW d \in Descriptors,
             JobCreate(j, titled, d)
      PROVE  TxsOK' /\ Requests' /\ Step
  <2>1. UNCHANGED txs
    BY <1>1 DEF JobCreate
  <2> QED BY <1>1, <2>1, JobCreateStep, Waits
<1>2. ASSUME NEW c \in Clients, NEW cmd \in Commands, NEW x \in Ids, Begin(c, cmd, x)
      PROVE  TxsOK' /\ Requests' /\ Step
  <2>1. UNCHANGED db
    BY <1>2 DEF Begin
  <2> QED BY <1>2, <2>1, Began, UnchangedStep
<1>3. ASSUME NEW c \in Clients, Reject(c)
      PROVE  TxsOK' /\ Requests' /\ Step
  <2>1. End(c) /\ UNCHANGED db
    BY <1>3 DEF Reject
  <2> QED BY <2>1, Ended, UnchangedStep
<1>4. ASSUME NEW c \in Clients, NEW status \in Statuses, NEW changed \in BOOLEAN,
             JobUpdate(c, status, changed)
      PROVE  TxsOK' /\ Requests' /\ Step
  <2>1. End(c)
    BY <1>4 DEF JobUpdate
  <2> QED BY <1>4, <2>1, Ended, JobUpdateStep
<1>5. ASSUME NEW c \in Clients, JobDelete(c)
      PROVE  TxsOK' /\ Requests' /\ Step
  <2>1. End(c)
    BY <1>5 DEF JobDelete
  <2> QED BY <1>5, <2>1, Ended, JobDeleteStep
<1>6. ASSUME NEW c \in Clients, NEW u \in Duties, NEW p \in Percentages, DutyCreate(c, u, p)
      PROVE  TxsOK' /\ Requests' /\ Step
  <2>1. End(c)
    BY <1>6 DEF DutyCreate
  <2> QED BY <1>6, <2>1, Ended, DutyCreateStep
<1>7. ASSUME NEW c \in Clients, NEW p \in Percentages, DutyUpdate(c, p)
      PROVE  TxsOK' /\ Requests' /\ Step
  <2>1. End(c)
    BY <1>7 DEF DutyUpdate
  <2> QED BY <1>7, <2>1, Ended, DutyUpdateStep
<1>8. ASSUME NEW j \in Jobs, Apply(j) \/ Audit(j)
      PROVE  TxsOK' /\ Requests' /\ Step
  <2>1. UNCHANGED txs
    BY <1>8 DEF Apply, Audit
  <2> QED BY <1>8, <2>1, ReferStep, Waits
<1>9. CASE UNCHANGED vars
  <2>1. UNCHANGED db /\ UNCHANGED txs
    BY <1>9 DEF vars, db, txs
  <2> QED BY <2>1, UnchangedStep, Waits
<1> QED BY <1>1, <1>2, <1>3, <1>4, <1>5, <1>6, <1>7, <1>8, <1>9 DEF Next

(***************************************************************************)
(* The tables keep their types, every request is about an entity that it   *)
(* has found, and no row ever refers to one that is gone.                  *)
(***************************************************************************)
THEOREM Invariance == Spec => []IInv
<1>1. IInv /\ [Next]_vars => IInv'
  BY NextStep
<1> QED BY <1>1, InitInvariant, PTL DEF Spec

(***************************************************************************)
(* EmployerJobUpdateService and EmployerJobDeleteService remove a          *)
(* descriptor with exactly the duties that their request had found.        *)
(***************************************************************************)
THEOREM CascadesExact == Spec => CascadesAreExact
<1>1. IInv /\ [Next]_vars => [SweepsOnlyWhatWasFound]_vars
  BY NextStep
<1> QED BY <1>1, Invariance, PTL DEF Spec, CascadesAreExact

(***************************************************************************)
(* A job that somebody has applied for is never deleted, even when the     *)
(* application comes after EmployerJobDeleteService.validate.              *)
(***************************************************************************)
THEOREM AppliedStay == Spec => AppliedJobsStay
<1>1. IInv /\ [Next]_vars => [KeepsApplied]_vars
  BY NextStep
<1> QED BY <1>1, Invariance, PTL DEF Spec, AppliedJobsStay

(***************************************************************************)
(* A request whose descriptor's duties are still those that it found       *)
(* publishes a job only when they add up to 100 (EmployerJobUpdateService),*)
(* adds no duty beyond 100 (DutyCreate) and edits one only while the       *)
(* others stay within 100, whatever else overlaps with it.                 *)
(***************************************************************************)
THEOREM WorkloadsStayWithin == Spec => WorkloadsFit
<1>1. IInv /\ [Next]_vars =>
        [\A c \in Clients : Ends(c) => PublishesWhatIsFull(c) /\ WritesWhatFits(c)]_vars
  BY EndUpheld DEF Upheld
<1> QED BY <1>1, Invariance, PTL DEF Spec, WorkloadsFit

(***************************************************************************)
(* However updates of a job overlap, a descriptor is only joined by        *)
(* another when the update that adds that one had found none.              *)
(***************************************************************************)
THEOREM SecondsAreUnseen == Spec => DescriptorIsReplaced
<1>1. IInv /\ [Next]_vars => [JoinsOnlyUnseen]_vars
  BY NextJoins
<1> QED BY <1>1, Invariance, PTL DEF Spec, DescriptorIsReplaced

-----------------------------------------------------------------------------
(***************************************************************************)
(* Publications.                                                           *)
(***************************************************************************)
\* What a new entity and an edited one are.
LEMMA EntityType ==
  ASSUME NEW kind \in Kinds, NEW owner \in Sponsors \union {None},
         NEW text \in Texts \union AccountStatuses \union {None}, NEW moment \in Moments \union {None}
  PROVE  /\ Entity(kind, owner, text, moment) \in Entities
         /\ Entity(kind, owner, text, moment).kind = kind
         /\ Entity(kind, owner, text, moment).owner = owner
         /\ Entity(kind, owner, text, moment).text = text
         /\ Entity(kind, owner, text, moment).moment = moment
BY DEF Entity, Entities

LEMMA NewText ==
  ASSUME NEW x \in Entities, NEW t \in Texts \union AccountStatuses
  PROVE  /\ [x EXCEPT !.text = t] \in Entities
         /\ [x EXCEPT !.text = t].kind = x.kind
         /\ [x EXCEPT !.text = t].owner = x.owner
         /\ [x EXCEPT !.text = t].text = t
         /\ [x EXCEPT !.text = t].moment = x.moment
BY DEF Entities

\* What is known of a row that is there.
LEMMA RowType ==
  ASSUME PublicationsInv, NEW e \in Identifiers, row[e] # None
  PROVE  /\ row[e] \in Rows /\ row[e].entity \in Entities /\ row[e].entity # None
         /\ row[e].version \in Versions /\ row[e].version \in Nat
         /\ row[e].version # None
         /\ e \in taken /\ Proper(row[e].entity)
<1>1. row[e] \in Rows /\ e \in taken /\ Proper(row[e].entity)
  BY DEF PublicationsInv, PublicationsTypeOK
<1>2. row[e].entity \in Entities /\ row[e].version \in Versions BY <1>1 DEF Rows
<1>3. row[e].version \in Nat BY <1>2, BoundsAssumption DEF Versions
<1> QED BY <1>1, <1>2, <1>3, NoneAssumption, RowsAssumption

LEMMA SpamIsText ==
  ASSUME PublicationsInv
  PROVE  Spam \in SUBSET Texts
<1> SUFFICES ASSUME NEW e \in Table("spamword") PROVE row[e].entity.text \in Texts
  BY DEF Spam
<1>1. e \in Identifiers /\ row[e] # None /\ row[e].entity.kind = "spamword" BY DEF Table
<1> QED BY <1>1 DEF PublicationsInv, Proper

(***************************************************************************)
(* The invariant holds at first: nothing but the spam word is there.       *)
(***************************************************************************)
LEMMA PublicationsInitInv == PublicationsInit => PublicationsInv
<1> SUFFICES ASSUME PublicationsInit PROVE PublicationsInv OBVIOUS
<1>1. PICK t \in Texts :
        row = [e \in Identifiers |-> IF e # SpamWord THEN None
                 ELSE [version |-> 0, entity |-> Entity("spamword", None, t, None)]]
  BY DEF PublicationsInit
<1> DEFINE word == Entity("spamword", None, t, None)
<1>2. word \in Entities /\ word.kind = "spamword" /\ word.text = t /\ word.owner = None
  <2>1. "spamword" \in Kinds BY DEF Kinds
  <2> HIDE DEF word
  <2>2. word = Entity("spamword", None, t, None) BY DEF word
  <2> QED BY <2>1, <2>2, EntityType
<1> HIDE DEF word
<1>3. \A e \in Identifiers : row[e] = IF e # SpamWord THEN None ELSE [version |-> 0, entity |-> word]
  BY <1>1 DEF word
<1>4. 0 \in Versions /\ 0 \in 0 .. MaxNow BY BoundsAssumption DEF Versions
<1>5. [version |-> 0, entity |-> word] \in Rows BY <1>2, <1>4 DEF Rows
<1>6. NoRequest \in Posts /\ Home \in Pages /\ NoRequest.command = "none"
  BY DEF NoRequest, Posts, Home, Pages
<1>7. PublicationsTypeOK
  <2>1. row \in [Identifiers -> Rows \union {None}] BY <1>1, <1>5 DEF word
  <2> QED BY <1>4, <1>6, <2>1, SpamWordAssumption DEF PublicationsInit, PublicationsTypeOK
<1>8. \A e \in Identifiers : row[e] # None => e = SpamWord /\ row[e].entity = word
  BY <1>3
<1>9. Table("card") = {} /\ Table("commercial") = {} BY <1>2, <1>8 DEF Table
<1>10. \A b \in Tabs : RequestMade(b)
  BY <1>6 DEF PublicationsInit, RequestMade, Made, WriteMade, SnapshotTaken, CreateMade, UpdateMade, DeleteMade
<1> QED
  BY <1>2, <1>7, <1>8, <1>9, <1>10
  DEF PublicationsInit, PublicationsInv, OneCardEach, BannersBacked, CardsOf, Proper

-----------------------------------------------------------------------------
(***************************************************************************)
(* As long as the rows stay what they are, so does what is known of them   *)
(* and of the requests, whatever the time.                                 *)
(***************************************************************************)
LEMMA RowsAlone ==
  ASSUME PublicationsInv, row' = row, taken' = taken, user' = user,
         now' \in 0 .. MaxNow, now' >= now
  PROVE  /\ \A e \in Identifiers : row'[e] # None => e \in taken' /\ Proper(row[e].entity)'
         /\ OneCardEach' /\ BannersBacked'
<1>0. now \in Nat /\ now' \in Nat
  BY BoundsAssumption DEF PublicationsInv, PublicationsTypeOK
<1>1. OneCardEach' BY DEF PublicationsInv, OneCardEach, CardsOf, Table
<1>2. BannersBacked' BY DEF PublicationsInv, BannersBacked, CardsOf, Table
<1>3. 0 .. now \subseteq 0 .. now' BY <1>0
<1>4. \A e \in Identifiers : row'[e] # None => e \in taken' /\ Proper(row[e].entity)'
  BY <1>3 DEF PublicationsInv, Proper
<1> QED BY <1>1, <1>2, <1>4

LEMMA PostsAlone ==
  ASSUME PublicationsInv, row' = row, taken' = taken, user' = user,
         now' \in 0 .. MaxNow, now' >= now,
         NEW b \in Tabs, Made(request'[b], user[b])
  PROVE  RequestMade(b)'
<1>1. PICK q : q = request'[b] /\ Made(q, user[b]) OBVIOUS
<1>2. 0 .. now \subseteq 0 .. now'
  BY BoundsAssumption DEF PublicationsInv, PublicationsTypeOK
<1>3. WriteMade(request[b], user[b])' BY <1>1, <1>2 DEF Made, WriteMade, Proper
<1>4. SnapshotTaken(request[b])' BY <1>1 DEF Made, SnapshotTaken
<1>5. CreateMade(request[b])' BY <1>1 DEF Made, CreateMade, CardsOf, Table
<1>6. UpdateMade(request[b])' BY <1>1 DEF Made, UpdateMade
<1>7. DeleteMade(request[b])' BY <1>1 DEF Made, DeleteMade
<1> QED BY <1>3, <1>4, <1>5, <1>6, <1>7 DEF RequestMade, Made

(***************************************************************************)
(* The pages: whatever is shown, nothing else changes.                     *)
(***************************************************************************)
LEMMA ShownPage ==
  ASSUME PublicationsInv, NEW b \in Tabs, NEW p \in Pages, Displays(b, p)
  PROVE  PublicationsInv' /\ row' = row
<1>1. /\ UNCHANGED <<now, tables, row, taken, user, request>>
      /\ page' = [page EXCEPT ![b] = p]
  BY DEF Displays
<1>2. now \in 0 .. MaxNow /\ now \in Nat
  BY BoundsAssumption DEF PublicationsInv, PublicationsTypeOK
<1>3. PublicationsTypeOK' BY <1>1 DEF PublicationsInv, PublicationsTypeOK
<1>4. ASSUME NEW c \in Tabs PROVE RequestMade(c)'
  <2>1. Made(request[c], user[c]) /\ request'[c] = request[c]
    BY <1>1 DEF PublicationsInv, RequestMade
  <2> QED BY <1>1, <1>2, <2>1, PostsAlone
<1>5. /\ \A e \in Identifiers : row'[e] # None => e \in taken' /\ Proper(row[e].entity)'
      /\ OneCardEach' /\ BannersBacked'
  <2>1. now' = now /\ now' >= now BY <1>1, <1>2
  <2> QED BY <1>1, <1>2, <2>1, RowsAlone
<1> QED BY <1>1, <1>3, <1>4, <1>5 DEF PublicationsInv

LEMMA ListedPage ==
  ASSUME PublicationsInv, NEW b, NEW u, NEW kind \in Kinds, NEW E \in SUBSET Identifiers,
         Lists(b, u, kind, E)
  PROVE  \E p \in Pages : Displays(b, p)
<1>1. [kind |-> kind, ids |-> E, version |-> None] \in Pages BY DEF Pages
<1> QED BY <1>1 DEF Lists

LEMMA FormPage ==
  ASSUME PublicationsInv, NEW b, NEW u, NEW kind \in Kinds, NEW E \in SUBSET Identifiers,
         Shows(b, u, kind, E)
  PROVE  \E p \in Pages : Displays(b, p)
<1>1. PICK e \in E \intersect Table(kind) :
        Displays(b, [kind |-> kind, ids |-> {e}, version |-> row[e].version])
  BY DEF Shows
<1>2. e \in Identifiers /\ row[e] # None BY <1>1 DEF Table
<1>3. row[e].version \in Versions BY <1>2, RowType
<1>4. [kind |-> kind, ids |-> {e}, version |-> row[e].version] \in Pages
  BY <1>2, <1>3 DEF Pages
<1> QED BY <1>1, <1>4

\* The tables have rows of the database only.
LEMMA TablesOfRows ==
  ASSUME NEW kind
  PROVE  Table(kind) \in SUBSET Identifiers
BY DEF Table

LEMMA AdministratorPagesShow ==
  ASSUME PublicationsInv, NEW b \in Tabs, AdministratorPages(b)
  PROVE  \E p \in Pages : Displays(b, p)
<1> DEFINE Shown(kind) ==
             \E u : \E E \in SUBSET Identifiers : Lists(b, u, kind, E) \/ Shows(b, u, kind, E)
<1>1. ASSUME NEW kind \in Kinds, Shown(kind) PROVE \E p \in Pages : Displays(b, p)
  BY <1>1, ListedPage, FormPage
<1>2. {e \in Table("challenge") : row[e].entity.moment >= now} \in SUBSET Identifiers
  BY TablesOfRows
<1>3. \/ Shown("announcement") \/ Shown("challenge") \/ Shown("company") \/ Shown("investor")
      \/ Shown("commercial") \/ Shown("noncommercial") \/ Shown("account") \/ Shown("spamword")
  BY <1>2, TablesOfRows, Zenon
  DEF AdministratorPages, AdministratorAnnouncementList, AdministratorAnnouncementShow,
      AdministratorChallengeList, AdministratorChallengeShow,
      AdministratorCompanyRecordList, AdministratorCompanyRecordShow,
      AdministratorInvestorRecordList, AdministratorInvestorRecordShow,
      AdministratorCommercialBannerList, AdministratorCommercialBannerShow,
      AdministratorNonCommercialBannerList, AdministratorNonCommercialBannerShow,
      AdministratorUserAccountList, AdministratorUserAccountShow,
      AdministratorSpamWordList, AdministratorSpamWordShow
<1> HIDE DEF Shown
<1>4. {"announcement", "challenge", "company", "investor", "commercial", "noncommercial",
       "account", "spamword"} \subseteq Kinds
  BY DEF Kinds, Banners, Records
<1> QED BY <1>1, <1>3, <1>4

LEMMA VisitorPagesShow ==
  ASSUME PublicationsInv, NEW b \in Tabs, VisitorPages(b)
  PROVE  \E p \in Pages : Displays(b, p)
<1> DEFINE Shown(kind) ==
             \E u : \E E \in SUBSET Identifiers : Lists(b, u, kind, E) \/ Shows(b, u, kind, E)
<1>1. ASSUME NEW kind \in Kinds, Shown(kind) PROVE \E p \in Pages : Displays(b, p)
  BY <1>1, ListedPage, FormPage
<1>2. /\ Recent \in SUBSET Identifiers
      /\ Top("company") \in SUBSET Identifiers /\ Top("investor") \in SUBSET Identifiers
      /\ {e \in Table("challenge") : row[e].entity.moment > now} \in SUBSET Identifiers
      /\ {e \in Table("offer") : row[e].entity.moment >= now} \in SUBSET Identifiers
      /\ {e \in Table("request") : row[e].entity.moment + UtcOffset >= now} \in SUBSET Identifiers
  BY TablesOfRows DEF Recent, Top
<1>3. \/ Shown("announcement") \/ Shown("challenge") \/ Shown("company") \/ Shown("investor")
      \/ Shown("offer") \/ Shown("request")
  BY <1>2, TablesOfRows, Zenon
  DEF VisitorPages, AuthenticatedAnnouncementList, AuthenticatedAnnouncementShow,
      AnonymousAnnouncementList, AnonymousAnnouncementShow,
      AuthenticatedChallengeList, AuthenticatedChallengeShow,
      AuthenticatedOfferList, AuthenticatedOfferShow,
      AuthenticatedRequestList, AuthenticatedRequestShow,
      AuthenticatedCompanyRecordList, AuthenticatedCompanyRecordShow,
      AnonymousCompanyRecordList, AnonymousTopCompanyRecordList, AnonymousCompanyRecordShow,
      AuthenticatedInvestorRecordList, AuthenticatedInvestorRecordShow,
      AnonymousInvestorRecordList, AnonymousTopInvestorRecordList, AnonymousInvestorRecordShow
<1> HIDE DEF Shown
<1>4. {"announcement", "challenge", "company", "investor", "offer", "request"} \subseteq Kinds
  BY DEF Kinds, Banners, Records
<1> QED BY <1>1, <1>3, <1>4

\* What a sponsor is shown.
SponsorPages(b, s) ==
  \/ SponsorCommercialBannerListMine(b, s) \/ SponsorCommercialBannerShow(b, s)
  \/ SponsorNonCommercialBannerListMine(b, s) \/ SponsorNonCommercialBannerShow(b, s)
  \/ SponsorCreditCardForm(b, s)

LEMMA SponsorPagesShow ==
  ASSUME PublicationsInv, NEW b \in Tabs, NEW s \in Sponsors, SponsorPages(b, s)
  PROVE  \E p \in Pages : Displays(b, p)
<1> DEFINE Shown(kind) ==
             \E u : \E E \in SUBSET Identifiers : Lists(b, u, kind, E) \/ Shows(b, u, kind, E)
<1>1. ASSUME NEW kind \in Kinds, Shown(kind) PROVE \E p \in Pages : Displays(b, p)
  BY <1>1, ListedPage, FormPage
<1>2. /\ Own(s, "commercial") \in SUBSET Identifiers /\ Own(s, "noncommercial") \in SUBSET Identifiers
      /\ CardsOf(s) \in SUBSET Identifiers
      /\ \A e \in Table("commercial") \union Table("noncommercial") : {e} \in SUBSET Identifiers
  BY TablesOfRows DEF Own, CardsOf
<1>3. Shown("commercial") \/ Shown("noncommercial") \/ Shown("card")
  BY <1>2, Zenon
  DEF SponsorPages, SponsorCommercialBannerListMine, SponsorCommercialBannerShow,
      SponsorNonCommercialBannerListMine, SponsorNonCommercialBannerShow, SponsorCreditCardForm
<1> HIDE DEF Shown
<1>4. {"commercial", "noncommercial", "card"} \subseteq Kinds
  BY DEF Kinds, Banners, Records
<1> QED BY <1>1, <1>3, <1>4

-----------------------------------------------------------------------------
(***************************************************************************)
(* The POSTs: what is asked for rests on what was read.                    *)
(***************************************************************************)
LEMMA SentPost ==
  ASSUME PublicationsInv, NEW b \in Tabs, NEW q \in Posts, Made(q, user[b]),
         request' = [request EXCEPT ![b] = q], UNCHANGED <<now, tables, row, taken, user, page>>
  PROVE  PublicationsInv' /\ row' = row
<1>1. now \in 0 .. MaxNow /\ now \in Nat
  BY BoundsAssumption DEF PublicationsInv, PublicationsTypeOK
<1>2. PublicationsTypeOK' BY DEF PublicationsInv, PublicationsTypeOK
<1>3. ASSUME NEW c \in Tabs PROVE RequestMade(c)'
  <2>1. CASE c = b
    <3>1. request'[c] = q BY <2>1 DEF PublicationsInv, PublicationsTypeOK
    <3> QED BY <1>1, <2>1, <3>1, PostsAlone
  <2>2. CASE c # b
    <3>1. request'[c] = request[c] /\ Made(request[c], user[c])
      BY <2>2 DEF PublicationsInv, PublicationsTypeOK, RequestMade
    <3> QED BY <1>1, <3>1, PostsAlone
  <2> QED BY <2>1, <2>2
<1>4. /\ \A e \in Identifiers : row'[e] # None => e \in taken' /\ Proper(row[e].entity)'
      /\ OneCardEach' /\ BannersBacked'
  <2>1. now' = now /\ now' >= now BY <1>1
  <2> QED BY <1>1, <2>1, RowsAlone
<1> QED BY <1>2, <1>3, <1>4 DEF PublicationsInv

LEMMA CreatePost ==
  ASSUME PublicationsInv, NEW b \in Tabs, NEW u, NEW entity \in Entities,
         Create(b, u, entity), Proper(entity),
         u \in Sponsors => entity.text \notin Spam,
         entity.kind = "commercial" /\ entity.owner # None => CardsOf(entity.owner) # {}
  PROVE  PublicationsInv' /\ row' = row
<1> DEFINE q == [command |-> "create", id |-> None, version |-> None,
                 entity |-> entity, spam |-> Spam]
<1>1. /\ user[b] = u /\ request' = [request EXCEPT ![b] = q]
      /\ UNCHANGED <<now, tables, row, taken, user, page>>
  BY DEF Create, Sends
<1>2. q \in Posts BY SpamIsText DEF Posts
<1>3. entity # None BY RowsAssumption
<1>4. Made(q, user[b])
  BY <1>1, <1>3 DEF Made, WriteMade, SnapshotTaken, CreateMade, UpdateMade, DeleteMade
<1> HIDE DEF q
<1> QED BY <1>1, <1>2, <1>4, SentPost

LEMMA UpdatePost ==
  ASSUME PublicationsInv, NEW b \in Tabs, NEW u, NEW e \in Identifiers, row[e] # None,
         NEW entity \in Entities, Update(b, u, e, entity), Proper(entity),
         u \in Sponsors => entity.text \notin Spam,
         entity.kind = row[e].entity.kind, entity.owner = row[e].entity.owner,
         entity.kind = "announcement" => row[e].entity.moment <= entity.moment
  PROVE  PublicationsInv' /\ row' = row
<1> DEFINE q == [command |-> "update", id |-> e, version |-> row[e].version,
                 entity |-> entity, spam |-> Spam]
<1>1. /\ user[b] = u /\ request' = [request EXCEPT ![b] = q]
      /\ UNCHANGED <<now, tables, row, taken, user, page>>
      /\ row[e].version < MaxEditions
  BY DEF Update, Sends
<1>2. /\ row[e].version \in Versions /\ row[e].version # None /\ row[e].version \in Nat
      /\ e \in taken
  BY RowType
<1>3. q \in Posts BY <1>2, SpamIsText DEF Posts
<1>4. entity # None BY RowsAssumption
<1>5. Made(q, user[b])
  BY <1>1, <1>2, <1>4 DEF Made, WriteMade, SnapshotTaken, CreateMade, UpdateMade, DeleteMade
<1> HIDE DEF q
<1> QED BY <1>1, <1>3, <1>5, SentPost

LEMMA DeletePost ==
  ASSUME PublicationsInv, NEW b \in Tabs, NEW u, NEW e \in Identifiers, row[e] # None,
         Delete(b, u, e), row[e].entity.kind # "card"
  PROVE  PublicationsInv' /\ row' = row
<1> DEFINE q == [command |-> "delete", id |-> e, version |-> row[e].version,
                 entity |-> None, spam |-> Spam]
<1>1. /\ user[b] = u /\ request' = [request EXCEPT ![b] = q]
      /\ UNCHANGED <<now, tables, row, taken, user, page>>
  BY DEF Delete, Sends
<1>2. /\ row[e].version \in Versions /\ row[e].version # None /\ row[e].version \in Nat
      /\ e \in taken
  BY RowType
<1>3. q \in Posts BY <1>2, SpamIsText DEF Posts
<1>4. Made(q, user[b])
  BY <1>2 DEF Made, WriteMade, SnapshotTaken, CreateMade, UpdateMade, DeleteMade
<1> HIDE DEF q
<1> QED BY <1>1, <1>3, <1>4, SentPost

\* The row that an open form is of.
LEMMA OpenedRow ==
  ASSUME NEW b, NEW kind, NEW e \in Opened(b, kind)
  PROVE  e \in Identifiers /\ row[e] # None /\ row[e].entity.kind = kind
BY DEF Opened, Table

\* A new text leaves the table and the owner as they were.
LEMMA TextPost ==
  ASSUME PublicationsInv, NEW b \in Tabs, NEW u, NEW e \in Identifiers, row[e] # None,
         NEW t \in Texts \union AccountStatuses, UpdateText(b, u, e, t),
         row[e].entity.kind # "announcement",
         row[e].entity.kind = "spamword" => t \in Texts,
         u \in Sponsors => t \notin Spam
  PROVE  PublicationsInv' /\ row' = row
<1>1. row[e].entity \in Entities BY RowType
<1> DEFINE entity == [row[e].entity EXCEPT !.text = t]
<1>2. /\ entity \in Entities
      /\ entity.kind = row[e].entity.kind /\ entity.owner = row[e].entity.owner /\ entity.text = t
  BY <1>1, NewText
<1>3. Update(b, u, e, entity) BY DEF UpdateText
<1> HIDE DEF entity
<1>4. Proper(entity) BY <1>2, RowType DEF Proper
<1> QED BY <1>2, <1>3, <1>4, UpdatePost

LEMMA RecordPosts ==
  ASSUME PublicationsInv, NEW b \in Tabs, NEW kind \in Kinds,
         kind \notin {"announcement", "card"},
         \/ kind # "spamword" /\ CreateRecord(b, kind)
         \/ UpdateRecord(b, kind)
         \/ DeleteRecord(b, kind)
  PROVE  PublicationsInv' /\ row' = row
<1>0. Administrator \notin Sponsors BY UsersAssumption
<1>1. CASE kind # "spamword" /\ CreateRecord(b, kind)
  <2>1. PICK t \in Texts : Create(b, Administrator, Entity(kind, None, t, None))
    BY <1>1 DEF CreateRecord
  <2> DEFINE entity == Entity(kind, None, t, None)
  <2>2. entity \in Entities /\ entity.kind = kind /\ entity.owner = None BY EntityType
  <2> HIDE DEF entity
  <2>3. Proper(entity) BY <1>1, <2>2 DEF Proper
  <2>4. Create(b, Administrator, entity) BY <2>1 DEF entity
  <2> QED BY <1>0, <2>2, <2>3, <2>4, CreatePost
<1>2. CASE UpdateRecord(b, kind)
  <2>1. PICK e \in Opened(b, kind), t \in Texts : UpdateText(b, Administrator, e, t)
    BY <1>2 DEF UpdateRecord
  <2> QED BY <1>0, <2>1, OpenedRow, TextPost
<1>3. CASE DeleteRecord(b, kind)
  <2>1. PICK e \in Opened(b, kind) : Delete(b, Administrator, e) BY <1>3 DEF DeleteRecord
  <2> QED BY <2>1, OpenedRow, DeletePost
<1> QED BY <1>1, <1>2, <1>3

LEMMA AnnouncementPosts ==
  ASSUME PublicationsInv, NEW b \in Tabs,
         \/ AdministratorAnnouncementCreate(b) \/ AdministratorAnnouncementUpdate(b)
         \/ AdministratorAnnouncementDelete(b)
  PROVE  PublicationsInv' /\ row' = row
<1> DEFINE entity == Entity("announcement", None, None, now)
<1>0. Administrator \notin Sponsors BY UsersAssumption
<1>1. now \in 0 .. MaxNow /\ now \in Nat /\ now \in Moments /\ now \in 0 .. now
  BY BoundsAssumption DEF PublicationsInv, PublicationsTypeOK, Moments
<1>2. /\ entity \in Entities /\ entity.kind = "announcement"
      /\ entity.owner = None /\ entity.moment = now
  BY <1>1, EntityType DEF Kinds
<1> HIDE DEF entity
<1>3. Proper(entity) BY <1>1, <1>2 DEF Proper
<1>4. CASE AdministratorAnnouncementCreate(b)
  <2>1. Create(b, Administrator, entity) BY <1>4 DEF AdministratorAnnouncementCreate, entity
  <2> QED BY <1>0, <1>2, <1>3, <2>1, CreatePost
<1>5. CASE AdministratorAnnouncementUpdate(b)
  <2>1. PICK e \in Opened(b, "announcement") : Update(b, Administrator, e, entity)
    BY <1>5 DEF AdministratorAnnouncementUpdate, entity
  <2>2. /\ e \in Identifiers /\ row[e] # None
        /\ row[e].entity.kind = "announcement" /\ row[e].entity.owner = None
    BY OpenedRow, RowType DEF Proper, Banners
  <2>3. row[e].entity.moment <= entity.moment
    BY <1>1, <1>2, <2>2, RowType DEF Proper
  <2> QED BY <1>0, <1>2, <1>3, <2>1, <2>2, <2>3, UpdatePost
<1>6. CASE AdministratorAnnouncementDelete(b)
  BY <1>6, OpenedRow, DeletePost DEF AdministratorAnnouncementDelete
<1> QED BY <1>4, <1>5, <1>6

LEMMA ChallengePosts ==
  ASSUME PublicationsInv, NEW b \in Tabs,
         \/ AdministratorChallengeCreate(b) \/ AdministratorChallengeUpdate(b)
         \/ AdministratorChallengeDelete(b)
  PROVE  PublicationsInv' /\ row' = row
<1> DEFINE entity(m) == Entity("challenge", None, None, m)
<1>0. Administrator \notin Sponsors BY UsersAssumption
<1>1. ASSUME NEW m \in Moments
      PROVE  /\ entity(m) \in Entities /\ entity(m).kind = "challenge"
             /\ entity(m).owner = None
  BY EntityType DEF Kinds
<1> HIDE DEF entity
<1>2. \A m \in Moments : Proper(entity(m)) BY <1>1 DEF Proper
<1>3. CASE AdministratorChallengeCreate(b)
  <2>1. PICK m \in Moments : Create(b, Administrator, entity(m))
    BY <1>3 DEF AdministratorChallengeCreate, entity
  <2> QED BY <1>0, <1>1, <1>2, <2>1, CreatePost
<1>4. CASE AdministratorChallengeUpdate(b)
  <2>1. PICK e \in Opened(b, "challenge"), m \in Moments : Update(b, Administrator, e, entity(m))
    BY <1>4 DEF AdministratorChallengeUpdate, entity
  <2>2. /\ e \in Identifiers /\ row[e] # None
        /\ row[e].entity.kind = "challenge" /\ row[e].entity.owner = None
    BY OpenedRow, RowType DEF Proper, Banners
  <2> QED BY <1>0, <1>1, <1>2, <2>1, <2>2, UpdatePost
<1>5. CASE AdministratorChallengeDelete(b)
  BY <1>5, OpenedRow, DeletePost DEF AdministratorChallengeDelete
<1> QED BY <1>3, <1>4, <1>5

LEMMA VisitorsPosts ==
  ASSUME PublicationsInv, NEW b \in Tabs, VisitorPosts(b) \/ AdministratorUserAccountUpdate(b)
  PROVE  PublicationsInv' /\ row' = row
<1>0. Administrator \notin Sponsors /\ Visitor \notin Sponsors BY UsersAssumption
<1>1. CASE AnonymousUserAccountCreate(b)
  <2> DEFINE entity == Entity("account", None, "ENABLED", None)
  <2>1. /\ entity \in Entities /\ entity.kind = "account" /\ entity.owner = None
    <3>1. "account" \in Kinds /\ "ENABLED" \in AccountStatuses BY DEF Kinds, AccountStatuses
    <3> QED BY <3>1, EntityType
  <2>2. Create(b, Visitor, entity) BY <1>1 DEF AnonymousUserAccountCreate
  <2> HIDE DEF entity
  <2>3. Proper(entity) BY <2>1 DEF Proper
  <2> QED BY <1>0, <2>1, <2>2, <2>3, CreatePost
<1>2. ASSUME NEW kind \in {"offer", "request"}, CreateDated(b, kind)
      PROVE  PublicationsInv' /\ row' = row
  <2>1. PICK m \in Moments : Create(b, Visitor, Entity(kind, None, None, m))
    BY <1>2 DEF CreateDated
  <2> DEFINE entity == Entity(kind, None, None, m)
  <2>2. kind \in Kinds BY DEF Kinds
  <2>3. entity \in Entities /\ entity.kind = kind /\ entity.owner = None BY <2>2, EntityType
  <2>4. Create(b, Visitor, entity) BY <2>1
  <2> HIDE DEF entity
  <2>5. Proper(entity) BY <2>3 DEF Proper
  <2> QED BY <1>0, <2>3, <2>4, <2>5, CreatePost
<1>3. CASE AdministratorUserAccountUpdate(b)
  <2>1. PICK e \in Opened(b, "account"), t \in AccountStatuses : UpdateText(b, Administrator, e, t)
    BY <1>3 DEF AdministratorUserAccountUpdate
  <2> QED BY <1>0, <2>1, OpenedRow, TextPost
<1> QED BY <1>1, <1>2, <1>3 DEF VisitorPosts, ConsumerOfferCreate, ProviderRequestCreate

(***************************************************************************)
(* A sponsor makes a commercial banner with a card at hand, and the slogan *)
(* of any banner is clean by the words of the same snapshot.               *)
(***************************************************************************)
LEMMA BannerPosts ==
  ASSUME PublicationsInv, NEW b \in Tabs, NEW s \in Sponsors, NEW kind \in Banners,
         \/ CreateBanner(b, s, kind) /\ (kind = "commercial" => CardsOf(s) # {})
         \/ UpdateBanner(b, s, kind)
         \/ DeleteBanner(b, s, kind)
  PROVE  PublicationsInv' /\ row' = row
<1>0. kind \in Kinds /\ kind \notin {"announcement", "spamword", "card"} BY DEF Kinds, Banners
<1>1. CASE CreateBanner(b, s, kind) /\ (kind = "commercial" => CardsOf(s) # {})
  <2>1. PICK t \in Texts : t \notin Spam /\ Create(b, s, Entity(kind, s, t, None))
    BY <1>1 DEF CreateBanner, Clean
  <2> DEFINE entity == Entity(kind, s, t, None)
  <2>2. /\ entity \in Entities /\ entity.kind = kind /\ entity.owner = s /\ entity.text = t
    BY <1>0, EntityType
  <2>3. Create(b, s, entity) BY <2>1
  <2> HIDE DEF entity
  <2>4. Proper(entity) BY <1>0, <2>2 DEF Proper
  <2>5. entity.kind = "commercial" /\ entity.owner # None => CardsOf(entity.owner) # {}
    BY <1>1, <2>2
  <2>6. entity.text \notin Spam BY <2>1, <2>2
  <2> QED BY <2>2, <2>3, <2>4, <2>5, <2>6, CreatePost, Zenon
<1>2. CASE UpdateBanner(b, s, kind)
  <2>1. PICK e \in Opened(b, kind), t \in Texts : t \notin Spam /\ UpdateText(b, s, e, t)
    BY <1>2 DEF UpdateBanner, Clean
  <2>2. e \in Identifiers /\ row[e] # None /\ row[e].entity.kind = kind BY OpenedRow
  <2>3. row[e].entity.kind # "announcement" /\ row[e].entity.kind # "spamword" BY <1>0, <2>2
  <2>4. t \in Texts \union AccountStatuses OBVIOUS
  <2> QED BY <2>1, <2>2, <2>3, <2>4, TextPost, Zenon
<1>3. CASE DeleteBanner(b, s, kind)
  <2>1. PICK e \in Opened(b, kind) : Delete(b, s, e) BY <1>3 DEF DeleteBanner
  <2> QED BY <1>0, <2>1, OpenedRow, DeletePost
<1> QED BY <1>1, <1>2, <1>3

LEMMA CardPosts ==
  ASSUME PublicationsInv, NEW b \in Tabs, NEW s \in Sponsors,
         SponsorCreditCardCreate(b, s) \/ SponsorCreditCardUpdate(b, s)
  PROVE  PublicationsInv' /\ row' = row
<1> DEFINE entity(m) == Entity("card", s, None, m)
<1>0. None \notin Spam BY SpamIsText, NoneAssumption
<1>1. ASSUME NEW m \in Moments
      PROVE  /\ entity(m) \in Entities /\ entity(m).kind = "card"
             /\ entity(m).owner = s /\ entity(m).text = None
  <2>1. "card" \in Kinds BY DEF Kinds
  <2> QED BY <2>1, EntityType
<1> HIDE DEF entity
<1>2. \A m \in Moments : Proper(entity(m)) BY <1>1 DEF Proper
<1>3. CASE SponsorCreditCardCreate(b, s)
  <2>1. PICK m \in Moments : Create(b, s, entity(m))
    BY <1>3 DEF SponsorCreditCardCreate, entity
  <2> QED BY <1>0, <1>1, <1>2, <2>1, CreatePost
<1>4. CASE SponsorCreditCardUpdate(b, s)
  <2>1. PICK e \in Opened(b, "card"), m \in Moments : Owns(s, e) /\ Update(b, s, e, entity(m))
    BY <1>4 DEF SponsorCreditCardUpdate, entity
  <2>2. /\ e \in Identifiers /\ row[e] # None
        /\ row[e].entity.kind = "card" /\ row[e].entity.owner = s
    BY <2>1, OpenedRow DEF Owns
  <2> QED BY <1>0, <1>1, <1>2, <2>1, <2>2, UpdatePost
<1> QED BY <1>3, <1>4

-----------------------------------------------------------------------------
(***************************************************************************)
(* The ends of the transactions.  What the two invariants of the cards say *)
(* of the rows, whether these or the next ones.                            *)
(***************************************************************************)
IsCard(r, e, s) == r[e] # None /\ r[e].entity.kind = "card" /\ r[e].entity.owner = s

IsOwnedBanner(r, e, s) ==
  r[e] # None /\ r[e].entity.kind = "commercial" /\ r[e].entity.owner = s /\ s # None

OneEach(r) ==
  \A s \in Sponsors, e, f \in Identifiers : IsCard(r, e, s) /\ IsCard(r, f, s) => e = f

Backed(r) ==
  \A s : \A e \in Identifiers :
    IsOwnedBanner(r, e, s) => \E f \in Identifiers : IsCard(r, f, s)

LEMMA CardsOfRows ==
  /\ OneCardEach <=> OneEach(row)
  /\ OneCardEach' <=> OneEach(row')
  /\ BannersBacked <=> Backed(row)
  /\ BannersBacked' <=> Backed(row')
<1>1. OneCardEach <=> OneEach(row)
  BY DEF OneCardEach, OneEach, CardsOf, Table, IsCard
<1>2. OneCardEach' <=> OneEach(row')
  BY DEF OneCardEach, OneEach, CardsOf, Table, IsCard
<1>3. BannersBacked <=> Backed(row)
  BY DEF Backed, BannersBacked, CardsOf, Table, IsCard, IsOwnedBanner
<1>4. BannersBacked' <=> Backed(row')
  BY DEF Backed, BannersBacked, CardsOf, Table, IsCard, IsOwnedBanner
<1> QED BY <1>1, <1>2, <1>3, <1>4

(***************************************************************************)
(* What a commit may do to the row e: insert it, with an identifier that   *)
(* was not given before; write it anew, in the same table, of the same     *)
(* owner, with the next version; or delete it, unless it is a card.        *)
(***************************************************************************)
Inserted(e) ==
  e \notin taken /\ e \in taken' /\ row'[e] \in Rows

Edited(e) ==
  /\ row[e] # None /\ row'[e] \in Rows
  /\ row'[e].version = row[e].version + 1
  /\ row'[e].entity.kind = row[e].entity.kind /\ row'[e].entity.owner = row[e].entity.owner

Removed(e) == row[e] # None /\ row[e].entity.kind # "card" /\ row'[e] = None

CommitOn(e) ==
  /\ now' = now /\ tables' = tables /\ user' = user /\ page' = page
  /\ taken' \in SUBSET Identifiers /\ taken \subseteq taken'
  /\ row' \in [Identifiers -> Rows \union {None}]
  /\ \A f \in Identifiers \ {e} : row'[f] = row[f]
  /\ row'[e] # None => Proper(row'[e].entity)
  /\ Inserted(e) \/ Edited(e) \/ Removed(e)

(***************************************************************************)
(* Whatever else is in flight stays about the row that it was about.       *)
(***************************************************************************)
LEMMA OtherPosts ==
  ASSUME PublicationsInv, NEW e \in Identifiers, CommitOn(e),
         NEW c \in Tabs, request'[c] = request[c]
  PROVE  RequestMade(c)'
<1> DEFINE q == request[c]
<1>1. q \in Posts /\ Made(q, user[c]) BY DEF PublicationsInv, PublicationsTypeOK, RequestMade
<1>2. ASSUME NEW f \in Identifiers, row[f] # None
      PROVE  row[f].version \in Nat /\ f \in taken
  BY <1>2, RowType
<1>3. q.version # None => q.version \in Nat
  BY <1>1, BoundsAssumption DEF Posts, Versions
<1>5. WriteMade(request[c], user[c])'
  BY <1>1 DEF Made, WriteMade, CommitOn, Proper
<1>6. SnapshotTaken(request[c])'
  <2> SUFFICES ASSUME q.command \in {"update", "delete"}
               PROVE  /\ q.id \in taken' /\ q.version # None
                      /\ row'[q.id] # None => q.version <= row'[q.id].version
    BY DEF SnapshotTaken
  <2>1. /\ q.id \in taken /\ q.version # None /\ q.version \in Nat
        /\ row[q.id] # None => q.version <= row[q.id].version
    BY <1>1, <1>3 DEF Made, SnapshotTaken
  <2>2. q.id \in Identifiers BY <2>1 DEF PublicationsInv, PublicationsTypeOK
  <2>3. CASE q.id # e BY <2>1, <2>2, <2>3 DEF CommitOn
  <2>4. CASE q.id = e
    <3>1. Edited(e) \/ Removed(e) BY <2>1, <2>4 DEF CommitOn, Inserted
    <3>2. CASE Edited(e)
      BY <1>2, <2>1, <2>4, <3>2 DEF CommitOn, Edited
    <3>3. CASE Removed(e)
      BY <2>1, <2>4, <3>3 DEF CommitOn, Removed
    <3> QED BY <3>1, <3>2, <3>3
  <2> QED BY <2>3, <2>4
<1>7. CreateMade(request[c])'
  <2> DEFINE s == q.entity.owner
  <2> SUFFICES ASSUME q.command = "create", q.entity.kind = "commercial", s # None
               PROVE  \E f \in Identifiers : IsCard(row', f, s)
    BY DEF CreateMade, CardsOf, Table, IsCard
  <2>1. PICK f \in Identifiers : IsCard(row, f, s)
    BY <1>1 DEF Made, CreateMade, CardsOf, Table, IsCard
  <2>2. CASE f # e BY <2>1, <2>2 DEF CommitOn, IsCard
  <2>3. CASE f = e
    <3>1. Edited(e) BY <1>2, <2>1, <2>3 DEF CommitOn, Inserted, Removed, IsCard
    <3>2. row'[e] # None BY <3>1, RowsAssumption DEF Edited
    <3> QED BY <2>1, <2>3, <3>1, <3>2 DEF Edited, IsCard
  <2> QED BY <2>2, <2>3
<1>8. UpdateMade(request[c])'
  <2> SUFFICES ASSUME q.command = "update", row'[q.id] # None
               PROVE  /\ q.version < MaxEditions
                      /\ row'[q.id].entity.kind = q.entity.kind
                      /\ row'[q.id].entity.owner = q.entity.owner
                      /\ q.entity.kind = "announcement" /\ row'[q.id].version = q.version =>
                           row'[q.id].entity.moment <= q.entity.moment
    <3>1. q.command = "update" => q.version < MaxEditions BY <1>1 DEF Made, UpdateMade
    <3> QED BY <3>1 DEF UpdateMade
  <2>1. /\ q.id \in taken /\ q.version # None /\ q.version \in Nat
        /\ row[q.id] # None => q.version <= row[q.id].version
    BY <1>1, <1>3 DEF Made, SnapshotTaken
  <2>2. q.id \in Identifiers BY <2>1 DEF PublicationsInv, PublicationsTypeOK
  <2>3. /\ q.version < MaxEditions
        /\ row[q.id] # None =>
             /\ row[q.id].entity.kind = q.entity.kind
             /\ row[q.id].entity.owner = q.entity.owner
             /\ q.entity.kind = "announcement" /\ row[q.id].version = q.version =>
                  row[q.id].entity.moment <= q.entity.moment
    BY <1>1 DEF Made, UpdateMade
  <2>4. CASE q.id # e BY <2>2, <2>3, <2>4 DEF CommitOn
  <2>5. CASE q.id = e
    <3>1. Edited(e) BY <2>1, <2>5 DEF CommitOn, Inserted, Removed
    <3>2. row'[e].version # q.version
      <4>1. row[e].version \in Nat /\ q.version <= row[e].version
        BY <1>2, <2>1, <2>5, <3>1 DEF Edited
      <4> QED BY <2>1, <3>1, <4>1 DEF Edited
    <3> QED BY <2>3, <2>5, <3>1, <3>2 DEF Edited
  <2> QED BY <2>4, <2>5
<1>9. DeleteMade(request[c])'
  <2> SUFFICES ASSUME q.command = "delete", row'[q.id] # None
               PROVE  row'[q.id].entity.kind # "card"
    BY DEF DeleteMade
  <2>1. q.id \in taken /\ (row[q.id] # None => row[q.id].entity.kind # "card")
    BY <1>1 DEF Made, SnapshotTaken, DeleteMade
  <2>2. q.id \in Identifiers BY <2>1 DEF PublicationsInv, PublicationsTypeOK
  <2>3. CASE q.id # e BY <2>1, <2>2, <2>3 DEF CommitOn
  <2>4. CASE q.id = e
    <3>1. Edited(e) BY <2>1, <2>4 DEF CommitOn, Inserted, Removed
    <3> QED BY <2>1, <2>4, <3>1 DEF Edited
  <2> QED BY <2>3, <2>4
<1> QED BY <1>5, <1>6, <1>7, <1>8, <1>9 DEF RequestMade, Made

(***************************************************************************)
(* A commit that inserts a card of a sponsor without one, or a banner of a *)
(* sponsor with one, keeps the cards and the banners in order.             *)
(***************************************************************************)
LEMMA CardsStay ==
  ASSUME PublicationsInv, NEW e \in Identifiers, CommitOn(e),
         NEW s, NEW f \in Identifiers, IsCard(row, f, s)
  PROVE  IsCard(row', f, s)
<1>1. CASE f # e BY <1>1 DEF CommitOn, IsCard
<1>2. CASE f = e
  <2>1. Edited(e) BY <1>2, RowType DEF CommitOn, Inserted, Removed, IsCard
  <2>2. row'[e] # None BY <2>1, RowsAssumption DEF Edited
  <2> QED BY <1>2, <2>1, <2>2 DEF Edited, IsCard
<1> QED BY <1>1, <1>2

LEMMA CommitKeepsCards ==
  ASSUME PublicationsInv, NEW e \in Identifiers, CommitOn(e),
         Inserted(e) => \A s : \A f \in Identifiers : ~(IsCard(row', e, s) /\ IsCard(row, f, s)),
         Inserted(e) => \A s : IsOwnedBanner(row', e, s) => \E f \in Identifiers : IsCard(row, f, s)
  PROVE  OneCardEach' /\ BannersBacked'
<1>0. OneEach(row) /\ Backed(row) BY CardsOfRows DEF PublicationsInv
<1>1. ASSUME NEW s, NEW f \in Identifiers, IsCard(row', f, s), ~Inserted(e) \/ f # e
      PROVE  IsCard(row, f, s)
  BY <1>1 DEF CommitOn, Edited, Removed, IsCard
<1>2. OneEach(row')
  <2> SUFFICES ASSUME NEW s \in Sponsors, NEW f \in Identifiers, NEW g \in Identifiers,
                      IsCard(row', f, s), IsCard(row', g, s)
               PROVE  f = g
    BY DEF OneEach
  <2> QED BY <1>0, <1>1 DEF OneEach
<1>3. Backed(row')
  <2> SUFFICES ASSUME NEW s, NEW f \in Identifiers, IsOwnedBanner(row', f, s)
               PROVE  \E g \in Identifiers : IsCard(row', g, s)
    BY DEF Backed
  <2>1. \E g \in Identifiers : IsCard(row, g, s)
    <3>1. CASE Inserted(e) /\ f = e BY <3>1
    <3>2. CASE ~(Inserted(e) /\ f = e)
      <4>1. IsOwnedBanner(row, f, s)
        BY <3>2 DEF CommitOn, Edited, Removed, IsOwnedBanner
      <4> QED BY <1>0, <4>1 DEF Backed
    <3> QED BY <3>1, <3>2
  <2> QED BY <2>1, CardsStay
<1> QED BY <1>2, <1>3, CardsOfRows

LEMMA CommitStep ==
  ASSUME PublicationsInv, NEW e \in Identifiers, CommitOn(e), OneCardEach', BannersBacked',
         NEW b \in Tabs, request' = [request EXCEPT ![b] = NoRequest]
  PROVE  PublicationsInv'
<1>1. NoRequest \in Posts /\ NoRequest.command = "none" BY DEF NoRequest, Posts
<1>2. PublicationsTypeOK'
  BY <1>1 DEF PublicationsInv, PublicationsTypeOK, CommitOn
<1>3. ASSUME NEW c \in Tabs PROVE RequestMade(c)'
  <2>1. CASE c # b
    <3>1. request'[c] = request[c] BY <2>1 DEF PublicationsInv, PublicationsTypeOK
    <3> QED BY <3>1, OtherPosts
  <2>2. CASE c = b
    <3>1. request'[c] = NoRequest BY <2>2 DEF PublicationsInv, PublicationsTypeOK
    <3> QED
      BY <1>1, <3>1
      DEF RequestMade, Made, WriteMade, SnapshotTaken, CreateMade, UpdateMade, DeleteMade
  <2> QED BY <2>1, <2>2
<1>4. ASSUME NEW f \in Identifiers, row'[f] # None
      PROVE  f \in taken' /\ Proper(row[f].entity)'
  <2>1. CASE f # e
    <3>1. row'[f] = row[f] /\ row[f] # None BY <1>4, <2>1 DEF CommitOn
    <3>2. f \in taken /\ Proper(row[f].entity) BY <3>1 DEF PublicationsInv
    <3> QED BY <3>1, <3>2 DEF CommitOn, Proper
  <2>2. CASE f = e
    <3>1. e \in taken' BY <1>4, <2>2, RowType DEF CommitOn, Inserted, Edited, Removed
    <3>2. Proper(row'[e].entity) BY <1>4, <2>2 DEF CommitOn
    <3> QED BY <2>2, <3>1, <3>2 DEF CommitOn, Proper
  <2> QED BY <2>1, <2>2
<1> QED BY <1>2, <1>3, <1>4 DEF PublicationsInv

LEMMA CreatedStep ==
  ASSUME PublicationsInv, NEW b \in Tabs, Created(b)
  PROVE  PublicationsInv'
<1> DEFINE q == request[b]
           x == [version |-> 0, entity |-> q.entity]
<1>1. PICK e \in Identifiers \ taken :
        taken' = taken \union {e} /\ row' = [row EXCEPT ![e] = x]
  BY DEF Created
<1>2. /\ q \in Posts /\ q.command = "create" /\ OwnCard(q.entity) /\ Made(q, user[b])
      /\ request' = [request EXCEPT ![b] = NoRequest]
      /\ UNCHANGED <<now, tables, user, page>>
  BY DEF Created, Answered, PublicationsInv, PublicationsTypeOK, RequestMade
<1>3. q.entity \in Entities /\ q.entity # None /\ Proper(q.entity)
  BY <1>2 DEF Made, WriteMade, Posts
<1>4. x \in Rows
  <2>1. 0 \in Versions BY BoundsAssumption DEF Versions
  <2> QED BY <1>3, <2>1 DEF Rows
<1>5. x # None /\ x.entity = q.entity BY <1>4, RowsAssumption
<1> HIDE DEF q, x
<1>6. row' \in [Identifiers -> Rows \union {None}] /\ row'[e] = x
  BY <1>1, <1>4 DEF PublicationsInv, PublicationsTypeOK
<1>7. \A f \in Identifiers \ {e} : row'[f] = row[f]
  BY <1>1 DEF PublicationsInv, PublicationsTypeOK
<1>8. Inserted(e) /\ taken' \in SUBSET Identifiers
  BY <1>1, <1>4, <1>6 DEF Inserted, PublicationsInv, PublicationsTypeOK
<1>9. CommitOn(e)
  BY <1>1, <1>2, <1>3, <1>5, <1>6, <1>7, <1>8 DEF CommitOn
<1>10. ASSUME NEW s, NEW f \in Identifiers, IsCard(row', e, s), IsCard(row, f, s) PROVE FALSE
  <2>1. q.entity.kind = "card" /\ q.entity.owner = s BY <1>5, <1>6, <1>10 DEF IsCard
  <2>2. CardsOf(q.entity.owner) = {} BY <1>2, <2>1 DEF OwnCard
  <2> QED BY <1>10, <2>1, <2>2 DEF IsCard, CardsOf, Table
<1>11. ASSUME NEW s, IsOwnedBanner(row', e, s) PROVE \E f \in Identifiers : IsCard(row, f, s)
  <2>1. q.entity.kind = "commercial" /\ q.entity.owner = s /\ s # None
    BY <1>5, <1>6, <1>11 DEF IsOwnedBanner
  <2>2. CardsOf(q.entity.owner) # {} BY <1>2, <2>1 DEF Made, CreateMade
  <2> QED BY <2>1, <2>2 DEF IsCard, CardsOf, Table
<1>12. OneCardEach' /\ BannersBacked' BY <1>9, <1>10, <1>11, CommitKeepsCards
<1> QED BY <1>2, <1>9, <1>12, CommitStep

LEMMA UpdatedStep ==
  ASSUME PublicationsInv, NEW b \in Tabs, Updated(b)
  PROVE  /\ PublicationsInv'
         /\ request[b].id \in Identifiers
         /\ \A f \in Identifiers \ {request[b].id} : row'[f] = row[f]
         /\ row'[request[b].id].entity = request[b].entity
<1> DEFINE q == request[b]
           e == q.id
           x == [version |-> q.version + 1, entity |-> q.entity]
<1>1. /\ q \in Posts /\ q.command = "update" /\ Made(q, user[b])
      /\ row[e] # None /\ row[e].version = q.version
      /\ row' = [row EXCEPT ![e] = x] /\ taken' = taken
      /\ request' = [request EXCEPT ![b] = NoRequest]
      /\ UNCHANGED <<now, tables, user, page>>
  BY DEF Updated, Unchanged, Answered, PublicationsInv, PublicationsTypeOK, RequestMade
<1>2. q.entity \in Entities /\ q.entity # None /\ Proper(q.entity)
  BY <1>1 DEF Made, WriteMade, Posts
<1>3. e \in taken /\ e \in Identifiers
  BY <1>1 DEF Made, SnapshotTaken, PublicationsInv, PublicationsTypeOK
<1>4. /\ q.version < MaxEditions /\ q.version \in Versions
      /\ row[e].entity.kind = q.entity.kind /\ row[e].entity.owner = q.entity.owner
  BY <1>1, <1>3, RowType DEF Made, UpdateMade
<1>5. x \in Rows
  <2>1. q.version + 1 \in Versions BY <1>4, BoundsAssumption DEF Versions
  <2> QED BY <1>2, <2>1 DEF Rows
<1>6. x # None /\ x.entity = q.entity /\ x.version = row[e].version + 1
  BY <1>1, <1>5, RowsAssumption
<1> HIDE DEF q, x, e
<1>7. row' \in [Identifiers -> Rows \union {None}] /\ row'[e] = x
  BY <1>1, <1>3, <1>5 DEF PublicationsInv, PublicationsTypeOK
<1>8. \A f \in Identifiers \ {e} : row'[f] = row[f]
  BY <1>1 DEF PublicationsInv, PublicationsTypeOK
<1>9. Edited(e) BY <1>1, <1>4, <1>5, <1>6, <1>7 DEF Edited
<1>10. CommitOn(e)
  BY <1>1, <1>2, <1>6, <1>7, <1>8, <1>9 DEF CommitOn, PublicationsInv, PublicationsTypeOK
<1>11. ~Inserted(e) BY <1>3 DEF Inserted
<1>12. OneCardEach' /\ BannersBacked' BY <1>3, <1>10, <1>11, CommitKeepsCards
<1>13. PublicationsInv' BY <1>1, <1>3, <1>10, <1>12, CommitStep
<1> QED BY <1>3, <1>6, <1>7, <1>8, <1>13 DEF q, e

LEMMA DeletedStep ==
  ASSUME PublicationsInv, NEW b \in Tabs, Deleted(b)
  PROVE  PublicationsInv'
<1> DEFINE q == request[b]
           e == q.id
<1>1. /\ q \in Posts /\ q.command = "delete" /\ Made(q, user[b]) /\ row[e] # None
      /\ row' = [row EXCEPT ![e] = None] /\ taken' = taken
      /\ request' = [request EXCEPT ![b] = NoRequest]
      /\ UNCHANGED <<now, tables, user, page>>
  BY DEF Deleted, Unchanged, Answered, PublicationsInv, PublicationsTypeOK, RequestMade
<1>2. e \in taken /\ e \in Identifiers /\ row[e].entity.kind # "card"
  BY <1>1 DEF Made, SnapshotTaken, DeleteMade, PublicationsInv, PublicationsTypeOK
<1> HIDE DEF q, e
<1>3. row' \in [Identifiers -> Rows \union {None}] /\ row'[e] = None
  BY <1>1, <1>2 DEF PublicationsInv, PublicationsTypeOK
<1>4. \A f \in Identifiers \ {e} : row'[f] = row[f]
  BY <1>1 DEF PublicationsInv, PublicationsTypeOK
<1>5. Removed(e) BY <1>1, <1>2, <1>3 DEF Removed
<1>6. CommitOn(e)
  BY <1>1, <1>3, <1>4, <1>5 DEF CommitOn, PublicationsInv, PublicationsTypeOK
<1>7. ~Inserted(e) BY <1>2 DEF Inserted
<1>8. OneCardEach' /\ BannersBacked' BY <1>2, <1>6, <1>7, CommitKeepsCards
<1> QED BY <1>1, <1>2, <1>6, <1>8, CommitStep

\* A commit that fails, and the clock.
LEMMA FailedStep ==
  ASSUME PublicationsInv, NEW b \in Tabs, Failed(b)
  PROVE  PublicationsInv' /\ row' = row
<1>1. NoRequest \in Posts /\ NoRequest.command = "none" BY DEF NoRequest, Posts
<1>2. Made(NoRequest, user[b])
  BY <1>1 DEF Made, WriteMade, SnapshotTaken, CreateMade, UpdateMade, DeleteMade
<1> QED BY <1>1, <1>2, SentPost DEF Failed, Answered

LEMMA TickStep ==
  ASSUME PublicationsInv, Tick
  PROVE  PublicationsInv' /\ row' = row
<1>1. now' \in 0 .. MaxNow /\ now' >= now
  BY BoundsAssumption DEF Tick, PublicationsInv, PublicationsTypeOK
<1>2. PublicationsTypeOK' BY <1>1 DEF Tick, PublicationsInv, PublicationsTypeOK
<1>3. ASSUME NEW c \in Tabs PROVE RequestMade(c)'
  <2>1. Made(request[c], user[c]) BY DEF PublicationsInv, RequestMade
  <2> QED BY <1>1, <2>1, PostsAlone DEF Tick
<1>4. /\ \A e \in Identifiers : row'[e] # None => e \in taken' /\ Proper(row[e].entity)'
      /\ OneCardEach' /\ BannersBacked'
  BY <1>1, RowsAlone DEF Tick
<1> QED BY <1>2, <1>3, <1>4 DEF PublicationsInv, Tick

-----------------------------------------------------------------------------
(***************************************************************************)
(* All the steps: those that leave the rows alone, and the commits.        *)
(***************************************************************************)
Commits(b) == Created(b) \/ Updated(b) \/ Deleted(b)

LEMMA PublicationsSteps ==
  ASSUME PublicationsInv, PublicationsNext
  PROVE  \/ PublicationsInv' /\ row' = row
         \/ \E b \in Tabs : Commits(b)
<1>1. CASE Tick BY <1>1, TickStep
<1>2. ASSUME NEW b \in Tabs, AdministratorPages(b) \/ VisitorPages(b)
      PROVE  PublicationsInv' /\ row' = row
  BY <1>2, AdministratorPagesShow, VisitorPagesShow, ShownPage
<1>3. ASSUME NEW b \in Tabs, AdministratorPosts(b) PROVE PublicationsInv' /\ row' = row
  <2>1. {"company", "investor", "commercial", "noncommercial", "spamword"}
          \subseteq Kinds \ {"announcement", "card"}
    BY DEF Kinds, Banners, Records
  <2>2. ASSUME NEW kind \in {"company", "investor", "commercial", "noncommercial"},
               CreateRecord(b, kind) \/ UpdateRecord(b, kind) \/ DeleteRecord(b, kind)
        PROVE  PublicationsInv' /\ row' = row
    <3>1. kind \in Kinds /\ kind \notin {"announcement", "card"} /\ kind # "spamword"
      BY <2>1
    <3> QED BY <2>2, <3>1, RecordPosts
  <2>3. CASE AdministratorSpamWordUpdate(b)
    <3>1. "spamword" \in Kinds /\ "spamword" \notin {"announcement", "card"} BY <2>1
    <3> QED BY <2>3, <3>1, RecordPosts DEF AdministratorSpamWordUpdate
  <2>4. CASE AdministratorUserAccountUpdate(b) BY <2>4, VisitorsPosts
  <2>5. CASE \/ AdministratorAnnouncementCreate(b) \/ AdministratorAnnouncementUpdate(b)
             \/ AdministratorAnnouncementDelete(b)
    BY <2>5, AnnouncementPosts
  <2>6. CASE \/ AdministratorChallengeCreate(b) \/ AdministratorChallengeUpdate(b)
             \/ AdministratorChallengeDelete(b)
    BY <2>6, ChallengePosts
  <2>7. CASE \/ AdministratorCompanyRecordCreate(b) \/ AdministratorCompanyRecordUpdate(b)
             \/ AdministratorCompanyRecordDelete(b)
    BY <2>2, <2>7 DEF AdministratorCompanyRecordCreate, AdministratorCompanyRecordUpdate,
                      AdministratorCompanyRecordDelete
  <2>8. CASE \/ AdministratorInvestorRecordCreate(b) \/ AdministratorInvestorRecordUpdate(b)
             \/ AdministratorInvestorRecordDelete(b)
    BY <2>2, <2>8 DEF AdministratorInvestorRecordCreate, AdministratorInvestorRecordUpdate,
                      AdministratorInvestorRecordDelete
  <2>9. CASE \/ AdministratorCommercialBannerCreate(b) \/ AdministratorCommercialBannerUpdate(b)
             \/ AdministratorCommercialBannerDelete(b)
    BY <2>2, <2>9 DEF AdministratorCommercialBannerCreate, AdministratorCommercialBannerUpdate,
                      AdministratorCommercialBannerDelete
  <2>10. CASE \/ AdministratorNonCommercialBannerCreate(b)
              \/ AdministratorNonCommercialBannerUpdate(b)
              \/ AdministratorNonCommercialBannerDelete(b)
    BY <2>2, <2>10
    DEF AdministratorNonCommercialBannerCreate, AdministratorNonCommercialBannerUpdate,
        AdministratorNonCommercialBannerDelete
  <2> QED
    BY <1>3, <2>3, <2>4, <2>5, <2>6, <2>7, <2>8, <2>9, <2>10 DEF AdministratorPosts
<1>4. ASSUME NEW b \in Tabs, VisitorPosts(b) PROVE PublicationsInv' /\ row' = row
  BY <1>4, VisitorsPosts
<1>5. ASSUME NEW b \in Tabs, NEW s \in Sponsors, SponsorStep(b, s)
      PROVE  PublicationsInv' /\ row' = row
  <2>1. CASE SponsorPages(b, s) BY <2>1, SponsorPagesShow, ShownPage
  <2>2. "commercial" \in Banners /\ "noncommercial" \in Banners BY DEF Banners
  <2>3. CASE \/ SponsorCommercialBannerCreate(b, s) \/ SponsorCommercialBannerUpdate(b, s)
             \/ SponsorCommercialBannerDelete(b, s)
    BY <2>2, <2>3, BannerPosts
    DEF SponsorCommercialBannerCreate, SponsorCommercialBannerUpdate, SponsorCommercialBannerDelete
  <2>4. CASE \/ SponsorNonCommercialBannerCreate(b, s) \/ SponsorNonCommercialBannerUpdate(b, s)
             \/ SponsorNonCommercialBannerDelete(b, s)
    BY <2>2, <2>4, BannerPosts
    DEF SponsorNonCommercialBannerCreate, SponsorNonCommercialBannerUpdate,
        SponsorNonCommercialBannerDelete
  <2>5. CASE SponsorCreditCardCreate(b, s) \/ SponsorCreditCardUpdate(b, s)
    BY <2>5, CardPosts
  <2> QED BY <1>5, <2>1, <2>3, <2>4, <2>5 DEF SponsorStep, SponsorPages
<1>6. ASSUME NEW b \in Tabs, Failed(b) PROVE PublicationsInv' /\ row' = row
  BY <1>6, FailedStep
<1> QED BY <1>1, <1>2, <1>3, <1>4, <1>5, <1>6 DEF PublicationsNext, Commits

LEMMA PublicationsStep ==
  PublicationsInv /\ [PublicationsNext]_publicationsVars => PublicationsInv'
<1> SUFFICES ASSUME PublicationsInv, [PublicationsNext]_publicationsVars
             PROVE  PublicationsInv'
  OBVIOUS
<1>1. CASE PublicationsNext
  BY <1>1, PublicationsSteps, CreatedStep, UpdatedStep, DeletedStep DEF Commits
<1>2. CASE UNCHANGED publicationsVars
  <2>1. now' \in 0 .. MaxNow /\ now' >= now
    BY <1>2, BoundsAssumption DEF publicationsVars, PublicationsInv, PublicationsTypeOK
  <2>2. PublicationsTypeOK'
    BY <1>2 DEF publicationsVars, PublicationsInv, PublicationsTypeOK
  <2>3. ASSUME NEW b \in Tabs PROVE RequestMade(b)'
    <3>1. Made(request[b], user[b]) BY DEF PublicationsInv, RequestMade
    <3> QED BY <1>2, <2>1, <3>1, PostsAlone DEF publicationsVars
  <2> QED BY <1>2, <2>1, <2>2, <2>3, RowsAlone DEF publicationsVars, PublicationsInv
<1> QED BY <1>1, <1>2

(***************************************************************************)
(* However forms and requests overlap, a sponsor has one card at most and  *)
(* every sponsor with a commercial banner has one.                         *)
(***************************************************************************)
THEOREM PublicationsInvariant == PublicationsSpec => []PublicationsInv
BY PublicationsInitInv, PublicationsStep, PTL DEF PublicationsSpec

(***************************************************************************)
(* What a sponsor publishes was clean when it was looked at, so it can be  *)
(* spam only by words that were edited since.                              *)
(***************************************************************************)
THEOREM SpamWordsWereEdited == PublicationsSpec => SpamNeedsNewWords
<1> DEFINE Edition ==
      \A b \in Tabs, e \in Identifiers :
        Saved(b, e) /\ user[b] \in Sponsors /\ row'[e].entity.text \in Spam'
          => request[b].spam # Spam'
<1>1. ASSUME PublicationsInv, [PublicationsNext]_publicationsVars PROVE [Edition]_publicationsVars
  <2> SUFFICES ASSUME PublicationsNext, NEW b \in Tabs, NEW e \in Identifiers,
                      Saved(b, e), user[b] \in Sponsors, row'[e].entity.text \in Spam'
               PROVE  request[b].spam # Spam'
    BY <1>1
  <2>1. PICK c \in Tabs : Commits(c) BY <1>1, PublicationsSteps DEF Saved
  <2>2. request' = [request EXCEPT ![c] = NoRequest]
    BY <2>1 DEF Commits, Created, Updated, Deleted, Answered
  <2>3. c = b
    BY <1>1, <2>2 DEF Saved, PublicationsInv, PublicationsTypeOK
  <2>4. ~Deleted(b)
    BY <1>1 DEF Deleted, Saved, PublicationsInv, PublicationsTypeOK
  <2>5. /\ request[b].command \in {"create", "update"}
        /\ row'[e].entity = request[b].entity
    BY <1>1, <2>1, <2>3, <2>4
    DEF Commits, Created, Updated, Saved, PublicationsInv, PublicationsTypeOK
  <2>6. request[b].entity.text \notin request[b].spam
    BY <1>1, <2>5 DEF PublicationsInv, RequestMade, Made, WriteMade
  <2> QED BY <2>5, <2>6
<1> QED BY <1>1, PublicationsInvariant, PTL DEF PublicationsSpec, SpamNeedsNewWords

(***************************************************************************)
(* The version that is compared at the commit keeps the moments of an      *)
(* announcement in order, whatever other tabs have written meanwhile.      *)
(***************************************************************************)
THEOREM MomentsMoveForward == PublicationsSpec => AnnouncementsMoveForward
<1> DEFINE Forward ==
      \A e \in Table("announcement") :
        row'[e] # None => row'[e].entity.moment >= row[e].entity.moment
<1>1. ASSUME PublicationsInv, [PublicationsNext]_publicationsVars PROVE [Forward]_publicationsVars
  <2> SUFFICES ASSUME PublicationsNext, NEW e \in Table("announcement"), row'[e] # None
               PROVE  row'[e].entity.moment >= row[e].entity.moment
    BY <1>1
  <2>1. e \in Identifiers /\ row[e] # None /\ row[e].entity.kind = "announcement"
    BY DEF Table
  <2>2. row[e].entity.moment \in 0 .. now /\ now \in Nat
    BY <1>1, <2>1, BoundsAssumption DEF PublicationsInv, PublicationsTypeOK, Proper
  <2>3. CASE row'[e] = row[e] BY <2>2, <2>3
  <2>4. CASE row'[e] # row[e]
    <3>1. PICK b \in Tabs : Commits(b) BY <1>1, <2>4, PublicationsSteps
    <3>2. e \in taken BY <1>1, <2>1 DEF PublicationsInv
    <3>3. ~Created(b)
      BY <1>1, <2>4, <3>2 DEF Created, PublicationsInv, PublicationsTypeOK
    <3>4. ~Deleted(b)
      BY <1>1, <2>1, <2>4 DEF Deleted, PublicationsInv, PublicationsTypeOK
    <3>5. Updated(b) BY <3>1, <3>3, <3>4 DEF Commits
    <3>6. request[b].id = e /\ row'[e].entity = request[b].entity
      BY <1>1, <2>1, <2>4, <3>5, UpdatedStep
    <3>7. /\ request[b].command = "update" /\ row[e].version = request[b].version
      BY <3>5, <3>6 DEF Updated, Unchanged
    <3>8. UpdateMade(request[b]) /\ WriteMade(request[b], user[b])
      BY <1>1 DEF PublicationsInv, RequestMade, Made
    <3>9. request[b].entity.kind = "announcement"
      BY <2>1, <3>6, <3>7, <3>8 DEF UpdateMade
    <3>10. /\ row[e].entity.moment <= request[b].entity.moment
           /\ request[b].entity.moment \in 0 .. now
      BY <2>1, <3>6, <3>7, <3>8, <3>9 DEF UpdateMade, WriteMade, Proper
    <3> QED BY <2>2, <3>6, <3>10
  <2> QED BY <2>3, <2>4
<1> QED BY <1>1, PublicationsInvariant, PTL DEF PublicationsSpec, AnnouncementsMoveForward

=============================================================================
