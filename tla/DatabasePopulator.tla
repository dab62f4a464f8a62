--------------------------- MODULE DatabasePopulator ---------------------------
(***************************************************************************)
(* Populating the database with the entities of one XML file.              *)
(*                                                                         *)
(* The entities refer to each other, and one can be persisted only after   *)
(* those that it requires.  The populator finds an order by trial: it      *)
(* persists them one by one in a transaction; the first that fails goes to *)
(* the end of the list, the transaction is rolled back, and it starts      *)
(* again, as many times as there are entities.                             *)
(*                                                                         *)
(* persist only queues the insertions, so that what is left to go wrong    *)
(* (a duplicate key, say) does when the transaction commits.               *)
(***************************************************************************)
EXTENDS Naturals, Sequences, FiniteSets, SequencesExt

CONSTANTS
  Entities,
  Listed     \* the entities in the order of the file

\* Every entity is in the list once.
Lists(l) ==
  /\ l \in Seq(Entities)
  /\ \A e \in Entities : \E i \in DOMAIN l : l[i] = e
  /\ \A i, j \in DOMAIN l : l[i] = l[j] => i = j

ASSUME ListedAssumption == Lists(Listed) /\ Entities # {}

VARIABLES
  requires,  \* what each entity of the file refers to and may not be without
  valid,     \* the entities that satisfy their constraints
  list,      \* the entities, in the order in which they are tried
  stage,     \* where the populator is
  attempts,  \* how many attempts have been made
  count,     \* how many entities the last attempt has persisted
  hasId,     \* the entities that carry an identifier
  stored,    \* the entities in the database
  map,       \* the entities with an identifier in the entity map
  outcome    \* what the user was told

file == <<requires, valid>>
populatorVars == <<requires, valid, list, stage, attempts, count, hasId, stored, map, outcome>>

PopulatorTypeOK ==
  /\ requires \in [Entities -> SUBSET Entities]
  /\ valid \in SUBSET Entities
  /\ list \in Seq(Entities)
  /\ stage \in {"validating", "sorting", "trying", "saving", "done"}
  /\ attempts \in Nat /\ count \in Nat
  /\ hasId \in SUBSET Entities /\ stored \in SUBSET Entities /\ map \in SUBSET Entities
  /\ outcome \in {"none", "charm", "failed"}

-----------------------------------------------------------------------------
Persisted == {list[i] : i \in 1 .. count}

Validate ==
  /\ stage = "validating"
  /\ IF valid = Entities THEN stage' = "sorting" /\ UNCHANGED outcome
                         ELSE stage' = "saving" /\ outcome' = "failed"
  /\ UNCHANGED <<file, list, attempts, count, hasId, stored, map>>

\* A mutant of MoreAttempts: one fewer.
FewerAttempts == attempts + 1 < Len(list)

MoreAttempts == attempts < Len(list)

\* tryPersist starts, with identifiers reset.
TryPersist ==
  /\ stage = "sorting" /\ MoreAttempts
  /\ stage' = "trying"
  /\ count' = 0
  /\ hasId' = {}
  /\ UNCHANGED <<file, list, attempts, stored, map, outcome>>

GiveUp ==
  /\ stage = "sorting" /\ ~MoreAttempts
  /\ stage' = "saving"
  /\ outcome' = "failed"
  /\ UNCHANGED <<file, list, attempts, count, hasId, stored, map>>

\* A mutant of CanPersist: an entity may be persisted before what it requires.
CanPersistAnything(e) == TRUE

CanPersist(e) == requires[e] \subseteq Persisted

\* An entity gets its identifier before its references are looked at.
Persist ==
  /\ stage = "trying" /\ count < Len(list)
  /\ CanPersist(list[count + 1])
  /\ hasId' = hasId \union {list[count + 1]}
  /\ count' = count + 1
  /\ UNCHANGED <<file, list, stage, attempts, stored, map, outcome>>

\* A mutant of Deferred: the entity is not put back.
Dropped == RemoveAt(list, count + 1)

Deferred == Append(RemoveAt(list, count + 1), list[count + 1])

\* A mutant of NextAttempt: the attempt is not counted.
SameAttempt == attempts

NextAttempt == attempts + 1

Defer ==
  /\ stage = "trying" /\ count < Len(list)
  /\ ~CanPersist(list[count + 1])
  /\ hasId' = hasId \union {list[count + 1]}
  /\ list' = Deferred
  /\ stage' = "sorting"
  /\ attempts' = NextAttempt
  /\ UNCHANGED <<file, count, stored, map, outcome>>

(***************************************************************************)
(* commitTransaction keeps to itself whether the commit worked, and the    *)
(* populator takes it that it has.                                         *)
(***************************************************************************)
Commit ==
  /\ stage = "trying" /\ count = Len(list)
  /\ stored' \in {stored, stored \union Persisted}
  /\ stage' = "saving"
  /\ attempts' = NextAttempt
  /\ outcome' = "charm"
  /\ UNCHANGED <<file, list, count, hasId, map>>

\* In the finally clause, whatever has happened.
SaveEntityMap ==
  /\ stage = "saving"
  /\ map' = hasId
  /\ stage' = "done"
  /\ UNCHANGED <<file, list, attempts, count, hasId, stored, outcome>>

\* Any file, but no entity refers to itself; none is valid, or all are.
PopulatorInit ==
  /\ requires \in {q \in [Entities -> SUBSET Entities] : \A e \in Entities : e \notin q[e]}
  /\ valid \in {Entities, {}}
  /\ list = Listed
  /\ stage = "validating"
  /\ attempts = 0 /\ count = 0
  /\ hasId = {} /\ stored = {} /\ map = {}
  /\ outcome = "none"

PopulatorNext ==
  \/ Validate \/ TryPersist \/ GiveUp \/ Persist \/ Defer \/ Commit
  \/ SaveEntityMap

PopulatorSpec == PopulatorInit /\ [][PopulatorNext]_populatorVars
PopulatorFairSpec == PopulatorSpec /\ WF_populatorVars(PopulatorNext)

-----------------------------------------------------------------------------
\* Every entity is after those that it requires, up to the nth.
Ordered(n) ==
  \A i \in 1 .. n : \A e \in requires[list[i]] : \E k \in 1 .. i - 1 : list[k] = e

\* Three entities that require one another in a row; a cycle is one.
Chain == \E a, b, c \in Entities : b \in requires[a] /\ c \in requires[b]

(***************************************************************************)
(* As long as there is no chain, no entity is deferred twice: the attempts *)
(* made have each put a different one at the end of the list.              *)
(***************************************************************************)
DeferredOnce ==
  ~Chain /\ outcome # "charm" =>
    \A i \in Len(list) - attempts + 1 .. Len(list) : requires[list[i]] # {}

(***************************************************************************)
(* How far the trials get: a file is given up only when an entity of it is *)
(* not valid, or when three of them require one another in a chain.  Such  *)
(* chains, unlike cycles, could be put in order.                           *)
(***************************************************************************)
OnlyChainsAreGivenUp == outcome = "failed" => valid # Entities \/ Chain

(***************************************************************************)
(* The inductive invariant: the list keeps every entity, what an attempt   *)
(* has persisted requires nothing that comes later in the list, attempts   *)
(* leave nothing behind, success is told of complete attempts only, and no *)
(* entity without requirements is among those that were deferred.          *)
(***************************************************************************)
PopulatorInv ==
  /\ PopulatorTypeOK /\ Lists(list)
  /\ count <= Len(list) /\ attempts <= Len(list)
  /\ stage = "trying" => attempts < Len(list)
  /\ stage = "trying" \/ outcome = "charm" => Ordered(count)
  /\ stage \in {"validating", "sorting", "trying"} => stored = {} /\ outcome = "none"
  /\ stored \in {{}, Entities}
  /\ outcome = "charm" => count = Len(list)
  /\ outcome # "charm" => stored = {}
  /\ DeferredOnce /\ OnlyChainsAreGivenUp

(***************************************************************************)
(* The database gets all the entities or none, and when it gets them their *)
(* order is a topological one: every entity after those that it requires.  *)
(***************************************************************************)
StoredInOrder == stored # {} => stored = Entities /\ Ordered(Len(list))

(***************************************************************************)
(* Why the populator ends: a trial takes at most as many steps as there    *)
(* are entities and two more, and there are at most as many trials.        *)
(***************************************************************************)
TrialStepsLeft == (Len(list) - attempts) * (Len(list) + 2)

StepsLeft ==
  CASE stage = "validating" -> TrialStepsLeft + 3
    [] stage = "sorting"    -> TrialStepsLeft + 2
    [] stage = "trying"     -> TrialStepsLeft + 1 - count
    [] stage = "saving"     -> 1
    [] stage = "done"       -> 0

\* Finitely many steps are left at any time, and every step leaves fewer.
StepsRunOut == [](StepsLeft \in Nat) /\ [][StepsLeft' < StepsLeft]_populatorVars

(***************************************************************************)
(* The user is told how it went, whatever requires what.                   *)
(***************************************************************************)
Ends == <>(stage = "done")

=============================================================================
