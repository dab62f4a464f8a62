----------------------------- MODULE EmployerJobs -----------------------------
(***************************************************************************)
(* acme.features.employer.job and acme.features.employer.duty: an employer *)
(* creates, updates, publishes and deletes jobs, each with an optional     *)
(* descriptor that has duties, while workers apply for the jobs and        *)
(* auditors write records about them.                                      *)
(*                                                                         *)
(* A POST is two steps: the first takes the snapshot in which authorise,   *)
(* findOne and validate read; the second flushes what the service wrote.   *)
(* The flush meets the latest rows: the versions of the rows it updates or *)
(* deletes must be those that were read, and the foreign keys are checked. *)
(* A form whose version is not that of the snapshot is refused             *)
(* (OptimisticLocking), so only the others are submitted here.  The jobs   *)
(* are those of one employer; authorise refuses everybody else's requests. *)
(***************************************************************************)
EXTENDS Naturals, FiniteSets, Functions

CONSTANTS
  Jobs, Descriptors, Duties,   \* the identifiers of the entities
  Clients,                     \* the employer's browser tabs
  Percentages,                 \* what percentageTimeForWeek may be
  MaxVersion,                  \* bound: rows edited so often are left alone
  NoRow

Statuses == {"DRAFT", "PUBLISHED"}
JobRows == [version : Nat, status : Statuses]
DutyRows == [version : Nat, descriptor : Descriptors, percentage : Nat]

ASSUME IdsAssumption == Jobs \cap Descriptors = {} /\ (Jobs \union Descriptors) \cap Duties = {}
\* DomainEntity.id is an int, so that there are finitely many.
ASSUME DutiesAssumption == IsFiniteSet(Duties)
ASSUME PercentagesAssumption == Percentages \subseteq 0..100
ASSUME MaxVersionAssumption == MaxVersion \in Nat

VARIABLES
  job,          \* the rows of the jobs
  descriptor,   \* descriptor[d]: the job of descriptor d, whose row never changes
  duty,         \* the rows of the duties
  applied,      \* the jobs that some application refers to
  audited,      \* the jobs that some audit record refers to
  given,        \* the identifiers that the sequence has given out
  command,      \* the command that each tab waits for
  target,       \* the entity that it is about
  seen          \* the snapshot of its transaction

db == <<job, descriptor, duty, applied, audited, given>>
txs == <<command, target, seen>>
vars == <<job, descriptor, duty, applied, audited, given, command, target, seen>>

Ids == Jobs \union Descriptors \union Duties
Commands == {"job_update", "job_delete", "duty_create", "duty_update"}
Snapshots == [job : [Jobs -> JobRows \union {NoRow}],
              descriptor : [Descriptors -> Jobs \union {NoRow}],
              duty : [Duties -> DutyRows \union {NoRow}],
              applied : SUBSET Jobs]

ASSUME NoRowAssumption == NoRow \notin JobRows \union DutyRows \union Jobs \union Snapshots

TypeOK ==
  /\ job \in [Jobs -> JobRows \union {NoRow}]
  /\ descriptor \in [Descriptors -> Jobs \union {NoRow}]
  /\ duty \in [Duties -> DutyRows \union {NoRow}]
  /\ applied \subseteq Jobs /\ audited \subseteq Jobs
  /\ given \subseteq Ids
  /\ command \in [Clients -> Commands \union {"none"}]
  /\ target \in [Clients -> Ids \union {NoRow}]
  /\ seen \in [Clients -> Snapshots \union {NoRow}]

Init ==
  /\ job = [j \in Jobs |-> NoRow]
  /\ descriptor = [d \in Descriptors |-> NoRow]
  /\ duty = [u \in Duties |-> NoRow]
  /\ applied = {} /\ audited = {} /\ given = {}
  /\ command = [c \in Clients |-> "none"]
  /\ target = [c \in Clients |-> NoRow]
  /\ seen = [c \in Clients |-> NoRow]

-----------------------------------------------------------------------------
\* The rows that refer to job j and to descriptor d, in a snapshot or the tables.
DescriptorsOf(descriptors, j) == {d \in Descriptors : descriptors[d] = j}
DutiesOf(duties, d) == {u \in Duties : duties[u] # NoRow /\ duties[u].descriptor = d}

Workload(duties, S) == SumFunction([u \in S |-> duties[u].percentage])

(***************************************************************************)
(* A job is read with its descriptor, a one-to-one association: with two   *)
(* descriptors, every request that reads the job or one of them panics.    *)
(***************************************************************************)
Loadable(j) ==
  job[j] # NoRow /\ \A d, e \in DescriptorsOf(descriptor, j) : d = e

Snapshot == [job |-> job, descriptor |-> descriptor, duty |-> duty, applied |-> applied]

\* What each command is about, and the job that is read with it.
About(cmd, x) ==
  \/ cmd \in {"job_update", "job_delete"} /\ x \in Jobs
  \/ cmd = "duty_create" /\ x \in Descriptors
  \/ cmd = "duty_update" /\ x \in Duties

Reads(cmd, x, j) ==
  \/ cmd \in {"job_update", "job_delete"} /\ x = j
  \/ cmd = "duty_create" /\ descriptor[x] = j
  \/ cmd = "duty_update" /\ duty[x] # NoRow /\ descriptor[duty[x].descriptor] = j

(***************************************************************************)
(* authorise and findOne; what they do not find makes the request panic.   *)
(***************************************************************************)
Begin(c, cmd, x) ==
  /\ command[c] = "none" /\ About(cmd, x)
  /\ \E j \in Jobs : Reads(cmd, x, j) /\ Loadable(j)
  /\ cmd = "job_update" => job[x].version < MaxVersion
  /\ cmd = "duty_update" => duty[x].version < MaxVersion
  /\ command' = [command EXCEPT ![c] = cmd]
  /\ target' = [target EXCEPT ![c] = x]
  /\ seen' = [seen EXCEPT ![c] = Snapshot]
  /\ UNCHANGED db

End(c) ==
  /\ command' = [command EXCEPT ![c] = "none"]
  /\ target' = [target EXCEPT ![c] = NoRow]
  /\ seen' = [seen EXCEPT ![c] = NoRow]

(***************************************************************************)
(* Validation errors (a blank field or spam, besides those below), a panic *)
(* or a flush that the database refuses: nothing is written.               *)
(***************************************************************************)
Reject(c) == command[c] # "none" /\ End(c) /\ UNCHANGED db

-----------------------------------------------------------------------------
(***************************************************************************)
(* The new job may not be published yet; with a title for it, it gets a    *)
(* descriptor.                                                             *)
(***************************************************************************)
JobCreate(j, titled, d) ==
  /\ j \notin given /\ d \notin given
  /\ job' = [job EXCEPT ![j] = [version |-> 0, status |-> "DRAFT"]]
  /\ descriptor' = IF titled THEN [descriptor EXCEPT ![d] = j] ELSE descriptor
  /\ given' = given \union (IF titled THEN {j, d} ELSE {j})
  /\ UNCHANGED <<duty, applied, audited, txs>>

\* The descriptors that the request of tab c found for its job, one at most.
Old(c) == DescriptorsOf(seen[c].descriptor, target[c])

\* A mutant of ValidUpdate: any workload will do.
ValidUpdateAnyWorkload(c, status) == status = "PUBLISHED" => Old(c) # {}

(***************************************************************************)
(* EmployerJobUpdateService.validate: a job is published with a descriptor *)
(* whose duties add up to 100; both are those found, not those submitted.  *)
(***************************************************************************)
ValidUpdate(c, status) ==
  status = "PUBLISHED" =>
    /\ Old(c) # {}
    /\ \A d \in Old(c) : Workload(seen[c].duty, DutiesOf(seen[c].duty, d)) = 100

\* A mutant of Deletable: no foreign key from the duties to the descriptor.
DeletableUnreferenced(c, D) ==
  \A d \in D :
    /\ descriptor[d] = seen[c].descriptor[d]
    /\ \A u \in DutiesOf(seen[c].duty, d) : duty[u] = seen[c].duty[u]

(***************************************************************************)
(* The descriptors D and the duties found for them can be deleted: all are *)
(* as they were read, and no other duty refers to D.                       *)
(***************************************************************************)
Deletable(c, D) ==
  \A d \in D :
    /\ descriptor[d] = seen[c].descriptor[d]
    /\ DutiesOf(duty, d) = DutiesOf(seen[c].duty, d)
    /\ \A u \in DutiesOf(seen[c].duty, d) : duty[u] = seen[c].duty[u]

WithoutDutiesOf(c, D) ==
  [u \in Duties |->
     IF \E d \in D : u \in DutiesOf(seen[c].duty, d) THEN NoRow ELSE duty[u]]

WithoutDescriptors(D) == [d \in Descriptors |-> IF d \in D THEN NoRow ELSE descriptor[d]]

\* The job's own row is written only when one of its columns changes.
SaveJob(c, status, changed) ==
  LET j == target[c] IN
  \/ /\ ~changed /\ status = seen[c].job[j].status
     /\ UNCHANGED job
  \/ /\ changed /\ job[j] = seen[c].job[j]
     /\ job' = [job EXCEPT ![j] = [version |-> seen[c].job[j].version + 1, status |-> status]]

\* The title submitted is that of the old descriptor, or empty without one.
KeepDescriptor == UNCHANGED <<descriptor, duty, given>>

\* A title where there was no descriptor.
FirstDescriptor(c, d) ==
  /\ Old(c) = {} /\ job[target[c]] # NoRow
  /\ d \notin given /\ given' = given \union {d}
  /\ descriptor' = [descriptor EXCEPT ![d] = target[c]]
  /\ UNCHANGED duty

\* An empty title.
ClearDescriptor(c) ==
  /\ Old(c) # {} /\ Deletable(c, Old(c))
  /\ duty' = WithoutDutiesOf(c, Old(c))
  /\ descriptor' = WithoutDescriptors(Old(c))
  /\ UNCHANGED given

\* A mutant of ReplaceDescriptor: the old descriptor is kept.
ReplaceKeepsOld(c, d) ==
  /\ Old(c) # {}
  /\ d \notin given /\ given' = given \union {d}
  /\ descriptor' = [descriptor EXCEPT ![d] = target[c]]
  /\ UNCHANGED duty

\* Another title: a new descriptor, without duties.
ReplaceDescriptor(c, d) ==
  /\ Old(c) # {} /\ Deletable(c, Old(c)) /\ job[target[c]] # NoRow
  /\ d \notin given /\ given' = given \union {d}
  /\ duty' = WithoutDutiesOf(c, Old(c))
  /\ descriptor' = [WithoutDescriptors(Old(c)) EXCEPT ![d] = target[c]]

(***************************************************************************)
(* EmployerJobUpdateService.update and the flush of what it saved.         *)
(***************************************************************************)
JobUpdate(c, status, changed) ==
  /\ command[c] = "job_update"
  /\ ValidUpdate(c, status)
  /\ SaveJob(c, status, changed)
  /\ \/ KeepDescriptor
     \/ ClearDescriptor(c)
     \/ \E d \in Descriptors : FirstDescriptor(c, d) \/ ReplaceDescriptor(c, d)
  /\ End(c)
  /\ UNCHANGED <<applied, audited>>

\* A mutant of JobUnreferenced: applications do not refer to their job.
JobUnappliedWhenRead(c) == target[c] \notin seen[c].applied /\ target[c] \notin audited

\* The applications are validated when they are read, and meet the foreign
\* keys at the flush; the audit records only the latter.
JobUnreferenced(c) ==
  target[c] \notin seen[c].applied /\ target[c] \notin applied \union audited

JobDelete(c) ==
  /\ command[c] = "job_delete"
  /\ job[target[c]] = seen[c].job[target[c]]
  /\ JobUnreferenced(c)
  /\ Deletable(c, Old(c))
  /\ DescriptorsOf(descriptor, target[c]) = Old(c)
  /\ duty' = WithoutDutiesOf(c, Old(c))
  /\ descriptor' = WithoutDescriptors(Old(c))
  /\ job' = [job EXCEPT ![target[c]] = NoRow]
  /\ End(c)
  /\ UNCHANGED <<applied, audited, given>>

Fits(duties, S, p) == Workload(duties, S) + p <= 100

(***************************************************************************)
(* The duties found and the new one must not exceed 100.                   *)
(***************************************************************************)
DutyCreate(c, u, p) ==
  LET d == target[c] IN
  /\ command[c] = "duty_create"
  /\ Fits(seen[c].duty, DutiesOf(seen[c].duty, d), p)
  /\ descriptor[d] # NoRow
  /\ u \notin given /\ given' = given \union {u}
  /\ duty' = [duty EXCEPT ![u] = [version |-> 0, descriptor |-> d, percentage |-> p]]
  /\ End(c)
  /\ UNCHANGED <<job, descriptor, applied, audited>>

(***************************************************************************)
(* The other duties found must not exceed 100; what this one becomes is    *)
(* not added.  A missing percentage counts as 0.                           *)
(***************************************************************************)
DutyUpdate(c, p) ==
  LET u == target[c]
      found == seen[c].duty[u]
  IN /\ command[c] = "duty_update"
     /\ Workload(seen[c].duty, DutiesOf(seen[c].duty, found.descriptor) \ {u}) <= 100
     /\ duty[u] = found
     /\ duty' = [duty EXCEPT ![u] = [version |-> found.version + 1,
                                     descriptor |-> found.descriptor,
                                     percentage |-> p]]
     /\ End(c)
     /\ UNCHANGED <<job, descriptor, applied, audited, given>>

(***************************************************************************)
(* A worker applies for a job, an auditor writes a record about it: the    *)
(* insertion meets the foreign key.                                        *)
(***************************************************************************)
Apply(j) ==
  /\ job[j] # NoRow /\ applied' = applied \union {j}
  /\ UNCHANGED <<job, descriptor, duty, audited, given, txs>>

Audit(j) ==
  /\ job[j] # NoRow /\ audited' = audited \union {j}
  /\ UNCHANGED <<job, descriptor, duty, applied, given, txs>>

-----------------------------------------------------------------------------
Next ==
  \/ \E j \in Jobs, titled \in BOOLEAN, d \in Descriptors : JobCreate(j, titled, d)
  \/ \E c \in Clients, cmd \in Commands, x \in Ids : Begin(c, cmd, x)
  \/ \E c \in Clients : Reject(c)
  \/ \E c \in Clients, status \in Statuses, changed \in BOOLEAN : JobUpdate(c, status, changed)
  \/ \E c \in Clients : JobDelete(c)
  \/ \E c \in Clients, u \in Duties, p \in Percentages : DutyCreate(c, u, p)
  \/ \E c \in Clients, p \in Percentages : DutyUpdate(c, p)
  \/ \E j \in Jobs : Apply(j) \/ Audit(j)

Spec == Init /\ [][Next]_vars

-----------------------------------------------------------------------------
(***************************************************************************)
(* Nothing refers to what is gone, whatever deletions, replacements and    *)
(* insertions overlap.                                                     *)
(***************************************************************************)
References ==
  /\ \A d \in Descriptors : descriptor[d] # NoRow => job[descriptor[d]] # NoRow
  /\ \A u \in Duties : duty[u] # NoRow => descriptor[duty[u].descriptor] # NoRow
  /\ \A j \in applied \union audited : job[j] # NoRow

\* A request has found the entity that it is about, a job with one descriptor at most.
Requests ==
  \A c \in Clients : command[c] # "none" =>
    /\ seen[c] # NoRow
    /\ About(command[c], target[c])
    /\ target[c] \in Jobs => seen[c].job[target[c]] # NoRow /\ \A d, e \in Old(c) : d = e
    /\ target[c] \in Duties => seen[c].duty[target[c]] # NoRow

\* No row has an identifier that the sequence may still give out.
Numbered ==
  /\ \A j \in Jobs : job[j] # NoRow => j \in given
  /\ \A d \in Descriptors : descriptor[d] # NoRow => d \in given
  /\ \A u \in Duties : duty[u] # NoRow => u \in given

(***************************************************************************)
(* The inductive invariant: the references of the tables hold because what *)
(* a request deletes or edits is compared with what it had found.          *)
(***************************************************************************)
IInv == TypeOK /\ Requests /\ References /\ Numbered

(***************************************************************************)
(* A descriptor goes together with its duties, all of them as the request  *)
(* that deletes them had found them: no edit or new duty is swept away     *)
(* unseen.                                                                 *)
(***************************************************************************)
SweepsOnlyWhatWasFound ==
  \A d \in Descriptors : descriptor[d] # NoRow /\ descriptor'[d] = NoRow =>
    \E c \in Clients :
      /\ command[c] \in {"job_update", "job_delete"}
      /\ \A u \in DutiesOf(duty, d) : duty'[u] = NoRow /\ seen[c].duty[u] = duty[u]
CascadesAreExact == [][SweepsOnlyWhatWasFound]_vars

(***************************************************************************)
(* "Cannot delete: worker has applied it", even if the application comes   *)
(* after the deletion was validated.                                       *)
(***************************************************************************)
KeepsApplied == \A j \in applied : job'[j] # NoRow
AppliedJobsStay == [][KeepsApplied]_vars

\* The duties of descriptor d are still those that the request of tab c found.
StillFound(c, d) ==
  \A u \in DutiesOf(duty, d) \union DutiesOf(seen[c].duty, d) : duty[u] = seen[c].duty[u]

Ends(c) == command[c] # "none" /\ command'[c] = "none"

Published(j) == job[j] # NoRow /\ job[j].status = "PUBLISHED"

PublishesWhatIsFull(c) ==
  \A j \in Jobs : ~Published(j) /\ Published(j)' =>
    \E d \in Old(c) : StillFound(c, d) => Workload(duty, DutiesOf(duty, d)) = 100

WritesWhatFits(c) ==
  \A u \in Duties : duty'[u] # duty[u] /\ duty'[u] # NoRow =>
    LET d == duty'[u].descriptor
        all == DutiesOf(duty', d)
    IN  StillFound(c, d) =>
          Workload(duty', IF duty[u] = NoRow THEN all ELSE all \ {u}) <= 100

(***************************************************************************)
(* Only what becomes of the same descriptor's duties between a request and *)
(* its flush can spoil what was validated, whatever else overlaps: with    *)
(* them as they were found, a job is published only if they add up to 100, *)
(* a duty that is added leaves them within 100, and one that is edited the *)
(* others, whatever it becomes itself.                                     *)
(***************************************************************************)
WorkloadsFit ==
  [][\A c \in Clients : Ends(c) => PublishesWhatIsFull(c) /\ WritesWhatFits(c)]_vars

(***************************************************************************)
(* A descriptor is replaced by another, never joined by one, whatever      *)
(* updates overlap, except by a request that had found none.               *)
(***************************************************************************)
JoinsOnlyUnseen ==
  \A j \in Jobs :
    LET was == DescriptorsOf(descriptor, j)
        is == DescriptorsOf(descriptor', j)
    IN  was # {} /\ was # is /\ was \subseteq is =>
          \E c \in Clients : Ends(c) /\ target[c] = j /\ Old(c) = {}
DescriptorIsReplaced == [][JoinsOnlyUnseen]_vars

(***************************************************************************)
(* "Descriptor must not be null in final mode" and "Duties' total          *)
(* percentage must be 100 in final mode", for as long as it is published.  *)
(***************************************************************************)
PublishedIsFull ==
  \A j \in Jobs : Published(j) =>
    \E d \in DescriptorsOf(descriptor, j) : Workload(duty, DutiesOf(duty, d)) = 100

=============================================================================
