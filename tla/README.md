# Acme Jobs: a verification project in TLA+

This directory models Acme Jobs, a job-board web application (Spring Boot 2.1, Spring MVC,
JPA/Hibernate over MySQL): the framework under `src/src/main/java/acme/framework` that carries every
request, the business features under `src/src/main/java/acme/features`, the database populator, and the
script that runs in the browser. TLC checks each model on small instances; TLAPS proves every safety
property of these runs for every value of the constants. Paths below are relative to `src/src/main/java/acme` unless they start with
`src/`.

1. [Inventory](#1-inventory) – the parts of the system
2. [The modules and the code](#2-the-modules-and-the-code) – how each module corresponds to it
3. [The runs](#3-the-runs) – what is checked, on which instances, and what it shows
4. [The proofs](#4-the-proofs) – what is proved, from which assumptions, by which argument
5. [Where code and documents disagree](#5-where-code-and-documents-disagree)
6. [What is not modelled](#6-what-is-not-modelled)
7. [Plan](#7-plan)

## 1. Inventory

### How the parts interact

A feature contributes a controller (a singleton bean), one service per command and a repository. A
request goes from the servlet container's worker thread to the controller's `handleRequest`, which
opens a transaction, makes the role of the URL active in the session's principal, asks the service to
`authorise`, finds or instantiates the entity, binds and `validate`s the form, lets the service write,
builds the view, commits or rolls back, and calls `onSuccess` or `onFailure` in a new transaction.
Some `onSuccess` methods reload the principal of the session.

The state that outlives a request is: the rows of the database, the HTTP sessions (a `Principal` each),
the fields of the singleton beans, and the pages and forms on users' screens. Nothing is
locked explicitly: concurrent requests meet in MySQL (snapshot reads, row locks, unique and foreign keys), in
the `version` column of every entity, and, by accident, in the fields of singletons and in the
principal that the requests of a session share. In the browser, each tab keeps in its session storage the stack of URLs by which
its pages lead back to where they were opened from.

### Framework

| Component | State | Operations | What is hard | What makes it correct |
|---|---|---|---|---|
| `AbstractController` | `transactionStatus`, one field per controller bean | `handleRequest`, `doGet`, `doPost`, `startTransaction`, `commitTransaction`, `rollbackTransaction` | threads share the field; every step may throw; the pool is small; restarts | the answer tells the truth about the data; no transaction leaks or is shared; follow-ups run in fresh transactions; every request is answered |
| Transaction manager, pool (Spring, external) | transactions, connections, what is bound to each thread | begin, commit, roll back | completing a status on a thread that did not begin it | – |
| Editing protocol (`DomainEntity`, `Request`, `doPost`) | each row's `version`; hidden `id` and `version` of forms | SHOW, CREATE, UPDATE, DELETE | stale, resent and rejected forms; two commits of one version | no lost update; what is deleted is what was validated |
| `Principal`, `PrincipalHelper`, `AuthenticationService` | the role map and the active role of each principal, the session's principal | sign-in, `setActiveRole`, `getActiveRoleId`, `handleUpdate` | one object for all requests of a session; reload and replace are two steps | services get ids of the right account and class; who gets a role can use it |
| `DatabasePopulator`, `DatabaseUtil` | the list of entities, their ids, the entity map | `populate`, `validate`, `persist`, `tryPersist`, `saveEntityMap` | ordering by trial; errors at commit | all or nothing, in topological order, and it ends |
| Request, model, errors, commands, binding | per request | – | – | (decisions left open in the models) |
| `ExtendedMessageSource` and other patches | cached message files | refresh | patched third-party code | – |
| Browser scripts (`src/src/main/webapp/META-INF/resources/libraries/acme/js/acme.js`, the tags and views that call it) | the stack of return URLs, one string per tab | `pushReturnUrl`, `popReturnUrl`, `clearReturnUrl`, `redirect` from menus, rows, buttons and the referrer page | Back, clicks that overtake a page, copied tabs, panic pages on the way | a form leads back to the listing it was opened from; the string remains a stack |
| `MasterController`, `PanicController` | – | shutdown, panic page | a shutdown with requests in flight | – |
| Configuration, helpers, formatting, logging, other command-line tools | – | – | – | – |

### Features

| Component | State (tables) | Operations | What is hard | What makes it correct |
|---|---|---|---|---|
| `employer/job`, `employer/duty` | jobs, descriptors, duties | create, update (publish), delete; create and update duties | validation reads what the same request then deletes; write skew; cascades against foreign keys | references hold; cascades take only what was found; applied jobs stay; publishing needs a full workload |
| `worker/application`, `employer/application` | applications | apply; accept or reject; lists | check, then act; a failed `onSuccess` after the commit; decisions from old forms, which bind everything but the job | one application per worker and job, one per reference; a decision leaves the day, the worker and the job |
| `auditor/audit_record`, `auditor/job` | audit records | create, update, lists | check, then act, without a unique key | one record per auditor and job |
| `consumer/offer`, `provider/request` | offers, requests | create; lists | look up, then insert | one per ticker |
| `anonymous/userAccount`, `administrator/userAccount`, `authenticated/userAccount` | user accounts | sign up; enable, disable; edit | look up, then insert | one per username |
| `authenticated/{worker,employer,sponsor,consumer,provider,auditors_request}`, `administrator/auditors_request` | roles, auditors' requests | create and update a role; ask to be an auditor; accept | check, then act; the session's principal is refreshed afterwards | one role of a class per account |
| `authenticated/{message_thread, message_thread_user_account, message}` | threads, participations, messages | create a thread, add and remove participants, post, lists | stale lists of "users to add"; leaving while a form is open | only participants act; an abandoned thread stays so |
| `administrator/{announcement, challenge, company_record, investor_record, commercialBanner, nonCommercialBanner, spam_word}` | one table each | list, show, create, update, delete (a spam word: list, show, update) | moments taken before the commit; stale forms | announcements never move back |
| `sponsor/{commercial_banners, non_commercial_banners, credit_card}` | banners, cards | list, show, create, update, delete; card: create, update | spam words edited meanwhile; two first cards; forms of other owners | one card per sponsor and one behind each commercial banner; owners keep banners |
| `authenticated/*` and `anonymous/*` lists and forms | – | read | filters by time | – |
| `administrator/dashboard` | – | read | four readings of the clock around the queries; groups by moment, not by day; days of 23 hours | the number over a label is about the day of the label |

`PROJECT.json` lists these components with their sources and status, and under `hazards` each place in
the code that is hard to test, with the properties that cover it or the reason why none does.

## 2. The modules and the code

Each component has a module of its own (variables, `Init`, one action per handler or step, `Next`,
`Spec`, then its properties), an `MC` module that gives its constants values and symmetry sets, one or
more `.cfg` files, and a `...Proofs` module that extends it (two proof modules serve two components each: `EmployerJobs`
with `Publications`, and `ReturnUrls` with `DatabasePopulator`, whose definitions have names of their own for that reason). The definitions called
"a mutant of X" are what a plausible mistake in the code would make of X; TLC refutes each property with
at least one of them.

| Module | Models | Abstract specification |
|---|---|---|
| `AbstractController`, with `JpaTransactionManager` | the request pipeline and its transactions | `RequestContract` |
| `OptimisticLocking` | the editing protocol that all features follow | `LinkedRecords` |
| `EmployerJobs` | an employer's jobs, descriptors and duties | – |
| `AccountRoles` | principals, active roles, the creation of roles | – |
| `UniqueReferences` | everything that is created once, under a key or per user | `KeyRegistry` |
| `DatabasePopulator` | ordering and storing the entities of a file | – |
| `MessageThreads` | threads, participants, messages | – |
| `Publications` | what administrators and sponsors publish and visitors read | – |
| `Applications` | applications, their decisions, and the chart of the dashboard | – |
| `ReturnUrls` | the return URLs of the pages in the browser | `ReturnStack` |

The modules fit together by levels. `AbstractController` is about steps inside a request; it shows that
a request's effect is settled once, as a whole, by the commit of its main transaction, unless the request came across
others at its controller. The others rest on that: there a request is a step that
reads (`Begin`, `Authorise`, the actions named for services) and a step that commits, with everything
between them private to its transaction. `OptimisticLocking` treats the version protocol once, for any
entity; `EmployerJobs`, `MessageThreads`, `Publications` and `Applications` then use its outcome (what a statement "where id = ? and
version = ?" finds). `ReturnUrls` is the client's side: the redirection with which `onSuccess` and the
views end a request is where its referrer page begins. `AccountRoles` is what `authorise` asks for the ids of roles.

### AbstractController and JpaTransactionManager

`pc[r]` is the place of request `r` in `handleRequest`, and a step reaches to the next access to the
field `transactionStatus`, since only there (and in the transaction manager) can threads meet. `Start`
is `startTransaction`; `Prepare` is everything up to `authorise`; `Serve`, `NextId` and `Saved` are `doGet` or
`doPost`; `Conclude` builds the view and commits or rolls back; `Reopen`, `Notify` and `Finish` are the
follow-up transaction with `onSuccess` or `onFailure`; `Catch`, `Recover` and `Report` are the catch clause.
Every step has its failing alternative. `Restart` stops the process wherever its requests are.

`transactionStatus` has one value per controller, and `Route[r]` says which controller serves `r`. Requests overlap as
they like. A history variable tells them apart afterwards: `Arrive` puts a request, and those that it finds in flight on its
controller, into `disturbed`, and their threads and controller into `spoilt` (`Meeting`), for they may leave a transaction
behind there; a request that comes to a spoilt place before the server restarts is disturbed, too. The
assertions of the source are disabled, as in a default JVM, so that a null or completed status makes the
transaction manager throw.

`JpaTransactionManager` is Spring's, modelled from how the controller uses it: a status either began a
transaction, which takes a connection, or joined the one bound to the thread; completing a status unbinds what is bound
to the *calling* thread. `NextId` is there because `GenerationType.SEQUENCE` on MySQL takes
a second connection for the id of a new entity while the first one is held.

`RequestContract` is the promise to the clients, with an `effect`, `reply` and `disturbed`. To each of them: its effect is
settled once, as a whole, and it is answered once. To an undisturbed one in addition: only its own steps settle its effect, before it is
answered, and a view means that it was kept, the form again that it was undone. Disturbed requests may settle one another's
effects, but nobody else's, and nobody is disturbed alone. The
mapping (`Effect`) takes the effect from the state of the request's main transaction.

### OptimisticLocking and LinkedRecords

`form[c]` is what a browser tab shows: the id, version and values that `unbind` wrote, and the values as the user
has changed them. `Submit` and `Resend` take the snapshot; `Invalid`, `Panic`, `Update` and `Delete` end the request.
`MergeAccepts` is the comparison in `EntityManager.merge` of the version bound from the form with the
one in the snapshot; `FlushFinds` is the one in the statement that the commit flushes against the latest
row. A deletion binds nothing, and is only subject to the second.

`LinkedRecords` is a register with load-linked and store-conditional. A form is *linked* while its
version is that of the row. The abstract specification says what the two comparisons achieve
together: only a linked form stores anything, and storing breaks every link.

### EmployerJobs

Jobs, descriptors and duties are rows; `seen[c]` is the snapshot of the request of tab `c`, in which
`authorise`, `findOne` and `validate` read. The actions that end a request are whole services: `JobUpdate` writes
the job, and keeps, clears, creates or replaces the descriptor, with its duties; `JobDelete` deletes all of them;
`DutyCreate` and `DutyUpdate` check the workload in the snapshot. What is written meets versions and foreign
keys of the latest rows. `Apply` and `Audit` are the insertions of the two features that refer to a
job. `Workload` adds up the percentages of a set of duties, as integers; the sum of doubles in the code is not modelled.
`given` are the identifiers that `hibernate_sequence` has given out.

### AccountRoles

`roleMap[p]` and `active[p]` are the fields of the `Principal` object `p`; `context[s]` is the principal of session `s`, and
the requests of a session hold the same object. `Arrive` is the way in up to `setActiveRole`; `Authorise` asks `ActiveRoleId`, or for the services
that give roles, looks for an existing role; `CommitRole` and `CommitAsk` are their commits; `HandleUpdate` and
`Refresh` are the two steps of `PrincipalHelper.handleUpdate`, which edits of accounts, roles, cards and audit records go
through as well (`Edits`; what they commit follows `OptimisticLocking`). `Given` are the identifiers in use: one sequence numbers
roles and asks. `beside[t]` (history) are the sessions that had requests in flight at the same time as that of `t`. `Accept` is the administrator's
acceptance of an auditors' request. `Guarded` classes are those whose create service looks for a role first (worker,
employer, sponsor); for `Unguarded` ones (consumer, provider) `authorise` always agrees.

### UniqueReferences and KeyRegistry

One machine for six create services. `Service` is the table in which they differ: the fields by which
`authorise` finds that the thing exists (`excludes`), those by which `validate` does (`looksUp`), and those of the unique column
(`unique`, from `src/src/main/population/create-schema.sql` and the entities' annotations). A request goes through `Authorise`,
`Create`, `Commit` and `Succeed`, or one of the ways to end badly. The snapshot is taken by the first
query; as rows are never deleted here, it is a prefix of `rows`. `KeyRegistry` says what a
client may rely on: a key is given once and for good, and what is told of it is true.

### DatabasePopulator

`Validate`, `TryPersist`, `Persist` and `Defer` are the nested loops of `populate`, `persist` and `tryPersist`:
the first entity that fails goes to the end of the list and everything starts again. `Commit` may fail,
and the populator does not learn of it. `requires` is the file: any relation between the entities.
An entity that may be stored without those that it refers to does not require them. `StepsLeft` counts down to the end
of the loops: what is left of this trial, and a whole trial for each attempt that the limit still allows.

### MessageThreads

A participation is a row with a thread and a user account; nothing keeps two for the same pair apart. `page[b]` is what a
tab shows, with the rows it was made of: forms are reached through pages that were authorised when they
were shown, and may be stale when they are used. `knew[r]` records which rows the form knew that added row
`r`; it is a history variable, written by `Insert` and read by properties only. Wording, tags and the spam filter
are one refusal that may happen (`Refused`).

### Publications

Every service of the features listed above is one definition named for it: the pages are made by `Lists` and
`Shows`, the POSTs by `Create`, `Update` and `Delete`, which authorise, bind and validate in the snapshot
of the transaction, and are ended by `Created`, `Updated`, `Deleted` or `Failed`. What a form says is reduced to what
services look at: the kind, the owner, one text (slogan, record, spam word, the status of an account) and one moment (deadline,
moment of publication, the month of a card). `Clean` is `is_spam`: `Spam` is the set of texts that the spam words condemn.
One tick of the clock `now` is enough for a deadline, a card's last month or an announcement's month
(`Month`) to pass. `UtcOffset` is there because one list compares deadlines with `utc_timestamp()` and the others with the
server's clock.

### Applications

`row` and `made` are the applications and, as history, the days on which they were made. A moment is a day and a time
of day; `Minute[t]` is the time that a form prints for `t`, so `Bound` is what printing and parsing a moment
makes of it. Reference, statement, skills and the justification of a rejection are left out: the first is in
`UniqueReferences`, the others can only refuse. `Displays` is every GET; lists show no form, and workers cannot send theirs back, so that what these contain is left
out. The form of an application is shown by `show` to its own employer, and by the GET of `update` to any. `WorkerApplicationCreate` and
`EmployerApplicationUpdate` are the services up to their write, `Created` and `Updated` the flush.

The dashboard is four steps, one for each reading of the clock: `Queried` takes the limit (line 94 of
`AdministratorDashboardShowService`) and runs the three queries, which group by *moment*; `Counted` takes the day again
in `getDates` and puts the groups over the days by `getDataByDate`; `Labelled` takes the limit once
more in `unbind`, and `Drawn` the day for the labels. `FirstOfDay` is what `replace(day, 0, n)` leaves when a day has several
groups: the first, and the query has no order. `ShortDays` are days of 23 hours; `getDates` divides
by 24 hours and then has a day less. `seen` (history) is what the database had, by the day of `made`, when the queries ran.

### ReturnUrls and ReturnStack

`storage[t]` is the item `return-stack` of a tab's session storage, one string in which URLs are joined by a separator. Since a
browser escapes the characters of the separator in a URL, the string is taken as the sequence of its pieces; `Pushed`, `Popped`, `PopResult`
and `LastIndexOf` are the string operations of `acme.js` on these. The actions are what a user can click: `MenuOption` (clears the stack),
`FooterOption`, `ClickRow` (pushes), `Button`, `Submit`, `Return` (pops) and the script of the referrer page, `Refer` (pops). Any page may turn
out to be the panic page. A second click may come before the next page does, and runs the script of the page again.
`Back` and `Duplicate` are the browser's. `opener` and `strayed` are history.

`ReturnStack` is a stack of listings for each tab, changed by nobody else; `Split` maps the string to it.

## 3. The runs

Sizes are distinct states. `CHECK_DEADLOCK FALSE` is set where the instance may have nothing left to do
(all requests served, all identifiers used), with a comment that says so; `UniqueReferences` and
`MessageThreads` are checked for deadlock.

| Run | Instance | States | What it shows |
|---|---|---|---|
| `controller` | 2 out of 3 requests: one after another or overlapping on 1 controller, or at the same time on 2 controllers; 2 threads, 2 connections | 284 343 | `IInv`; of undisturbed requests, `AnswerMatchesData`: a view means that everything written was kept, the form that nothing was; `FreshFollowUp`: "the 'onSuccess' and the 'onFailure' methods must be executed in fresh transactions"; `AssertionsHold`; `NoTransactionLeak`: no transaction outlives its request. Of all, `OwnTransactionsOnly`: a transaction is ended by another request only if both are disturbed; `ImplementsContract`; `EveryRequestIsAnswered`, although ids need a second connection, and two requests may hold both |
| `controller_race_answer` | 2 requests that overlap on 1 controller; 2 connections, 2 threads | – | a counterexample to `ViewMeansKept` (section 5) |
| `optimistic_locking` | 2 tabs, 2 entities, 3 values, versions opened up to 1 and reaching 2 | 71 644 | `IInv`; `NoLostUpdate`; `DeletesWhatItValidated`; `ImplementsLinkedRecords` |
| `jobs` | 2 tabs, 1 job, 2 descriptors, 2 duties, percentages 50 and 100 | 116 028 | `IInv` (`References`, `Requests`, `Numbered`); `CascadesAreExact`; `AppliedJobsStay`; `WorkloadsFit`: publishing needs 100 %, and the duties beside an edited one stay within it, unless the same descriptor's duties were changed in between; `DescriptorIsReplaced`: a second descriptor comes only from a request that had found none |
| `jobs_published` | 1 tab | – | a counterexample to `PublishedIsFull` (section 5) |
| `roles` | 2 accounts, 2 sessions, 2 threads, 1 guarded class, 3 identifiers (2 of them for roles, all for asks), 3 principals | 475 328 | `IInv`, with all overlaps; `ActsInRole`, unless another request of the session overlapped; `GivenOnce` and `RefreshedSessionsKnow`, unless another of the account did |
| `unique_references` | 2 requests, 7 forms of 4 kinds, 2 rows | 62 560 | `IInv`; `CollisionsOverlap`: the database refuses only what overlapped; `OnlyOverlapsRepeat`; `ImplementsRegistry` |
| `populator` | all 4096 relations between 4 entities, valid or not | 66 653 | `PopulatorInv`; `StoredInOrder`: all entities or none, in a topological order; `OnlyChainsAreGivenUp`: as many attempts as entities are enough unless three require one another in a row; `Ends` |
| `message_threads` | 2 tabs, 2 users, 2 threads, 3 participations, 1 message | 35 437 | `IInv`; `DoublesUnknown`; `StaysAbandoned` |
| `publications` | 2 tabs, 2 sponsors, 2 rows beside a spam word, 2 texts, clock 0 to 1 | 455 764 | `PublicationsInv` (`OneCardEach`, `BannersBacked`, `RequestMade`); `SpamNeedsNewWords`; `AnnouncementsMoveForward` |
| `return_urls` | 2 tabs, 2 listings, 4 forms, stacks of up to 3, 1 page to go back to | 183 314 | `IInv` (`Healthy`, `OpenerOnTop`); `ReturnsToOpener`: without Back and hasty clicks, a form leads back to its listing; `ImplementsStack`, with them |
| `applications` | 2 tabs, 2 employers with a job each, 1 worker, 2 applications, each decided up to twice, days 2 to 4 (day 2 short) with a chart of 2 | 1 704 462 | `IInv`: however it is decided, an application stays on its day with its job and worker; `LabelsTellTheDays`: the number over a label is nought exactly for days without applications of that status, and never too large; the day is that of the label, or as many days before it as midnights passed between the two readings of the limit |

### The bounds and why they are enough

- **Two actors.** The hazards are about two requests: one reads, another commits, the first goes on. Two
  tabs, threads or requests produce each order of such pairs. With three the
  state spaces leave the reach of a few minutes; the proofs of section 4 are for any number. In `controller` two of three
  requests arrive (`MaxArrivals`): the pair may share a controller, and then overlap there or come one after another, or not.
- **`Requests`, `Threads`, `PoolSize`.** A request of `AbstractController` is served once. Two are enough
  for one to follow or overlap another on the same thread, field or pool; with two connections and two creates at the
  same time, both wait for a second one, and the pool is exhausted.
- **`MaxVersion`** stops actions from opening rows edited that often. An update takes the version one further; so with 1
  (`jobs`, `publications`) a row has two versions and a form or snapshot can be behind it, and with 2 (`optimistic_locking`, `applications`) three,
  so that a tab may be one or two behind, and an application be decided again, from a form shown after the first decision or before.
- **`MaxRows`, `Rows`, `RoleIds`, `Asks`, `Descriptors`, `Duties`, `Ids`** are identifiers that are given out once (one that was a role's is no ask's). Two of a
  kind allow a duplicate, a conflict and a replacement; three participations allow a founder, a
  guest and a second row for either of them.
- **Forms** of `unique_references`: two users for one ticker, one worker twice for one job under two references,
  two workers under one reference, a card, and an audit record (which has no unique
  column). Requests for offers and user accounts have the same row in `Service` as offers.
- **`MaxDepth`, `MaxBack`** of `return_urls`: a listing pushes up to a depth of 3, so a double click may leave
  three URLs and a double pop one or none; Back goes to the page before, any further page is reached by repeating it in
  longer histories.
- **`Window`, `MaxDay`, `ShortDays`, `Times`** of `applications`: a chart of two days and a clock that passes two midnights,
  each of them between any two readings; day 2, the first that may have applications, is short, and is counted once the clock has passed it. Two times of a day, both printed as
  midnight, give a day two groups, which a decision may bring together.
- **`MaxNow`, `Month`, `UtcOffset`** are 1: a deadline may be now, next or passed, and the time-zone shift
  matters for it.
- **`Together`** (`TablesUsed`) is the bound of `publications`: a behaviour uses one of the listed sets of
  tables. Tables that are never read together (announcements and challenges, say) change independently, each row with
  its own version, so that nothing is lost by looking at them one after another. Those that read one another are together: non-commercial banners with
  spam words, commercial banners with cards. Commercial banners run with a spam word that is not edited, but
  may be any of the texts from the start.
- **4 entities** in `populator` have every shape that matters for the trials: chains of up to four, cycles, forks
  and joins; a chain of three is the shortest that may defeat it.
- **Principals** of `roles`: one for each of two sessions and one more for a refresh. A principal may be taken
  again when nothing refers to it.

### Fairness

- `EveryRequestIsAnswered` assumes `WF_vars(HandleRequest(r))` for each request: the JVM goes on running each
  thread that is inside `handleRequest`. It is justified since none of the steps waits for
  another request for ever: waiting for a connection ends with an exception (the pool's timeout), which is
  the failing disjunct of `Start`, `NextId`, `Reopen` and `Recover`. The arrival of requests and `Restart` are not fair.
- `Ends` assumes `WF_populatorVars(PopulatorNext)`: the populator is one thread that nobody blocks. It is true since each step
  counts (`StepsRunOut`, which is proved) and there is a next step until the populator is done (which the run shows).

No other property needs fairness.

### Properties for undisturbed requests

Some things cannot hold of requests that disturb one another, in the code as in the model. No model excludes the
overlaps; the properties say how far their harm goes: which requests must have met for something to go wrong, and that all others,
at the same time or later, are served as they should be:

- `AnswerMatchesData`, `FreshFollowUp` and `AssertionsHold` speak of requests that are not `disturbed`, beside others that are;
  `NoTransactionLeak`, `OwnTransactionsOnly` and `ImplementsContract` of all, with what disturbed ones may do to each other.
- `WorkloadsFit` holds whatever overlaps, but for changes of the same descriptor's duties between a request's snapshot and its commit
  (`StillFound`); `DescriptorIsReplaced` holds but for requests that found no descriptor.
- `ActsInRole` speaks of requests that met no other of their session (`AloneInSession`), `GivenOnce` of those that met none of their
  account (`AloneInAccount`), and `RefreshedSessionsKnow` of both; the same account may have any overlaps before and after.
- `OnlyOverlapsRepeat` and `DoublesUnknown` say exactly which overlaps make duplicates.
- `ReturnsToOpener` speaks of tabs that have not `strayed` (Back, or clicks that overtake a page) since the menu was used;
  `ImplementsStack` holds for all.
- `LabelsTellTheDays` lets numbers stand as many days late as midnights passed between the two readings of the limit, and no more; the day
  may change before, after and between the other readings.

## 4. The proofs

Eight modules hold theorems, each for all values of the constants that satisfy the module's assumptions. TLC
checks the invariants on the instances above first; TLC also evaluates the assumptions of every run.

| Module | Theorem | Statement |
|---|---|---|
| `AbstractControllerProofs` | `TypeCorrect` | `Spec => [](TypeOK /\ OnThread)`, however requests overlap |
| | `Invariance`, `AnswersAreTrue`, `NothingLeaks`, `FollowUpsAreFresh`, `AssertsHold` | `Spec => []P` for `IInv`, `AnswerMatchesData`, `NoTransactionLeak`, `FreshFollowUp`, `AssertionsHold` |
| | `OwnTransactions` | `Spec => OwnTransactionsOnly` |
| | `Refinement` | `Spec => ImplementsContract` |
| `OptimisticLockingProofs` | `TypeCorrect`, `Invariance` | `Spec => []TypeOK`, `Spec => []IInv` |
| | `NothingIsLost`, `DeletionsAreValidated` | `Spec => NoLostUpdate`, `Spec => DeletesWhatItValidated` |
| | `Refinement` | `Spec => ImplementsLinkedRecords` |
| `EmployerJobsAndPublicationsProofs` | `Invariance`, `CascadesExact`, `AppliedStay` | `Spec => []IInv`, `Spec => CascadesAreExact`, `Spec => AppliedJobsStay` |
| | `WorkloadsStayWithin`, `SecondsAreUnseen` | `Spec => WorkloadsFit`, `Spec => DescriptorIsReplaced`, for any number of duties |
| | `PublicationsInvariant` | `PublicationsSpec => []PublicationsInv` |
| | `SpamWordsWereEdited`, `MomentsMoveForward` | `PublicationsSpec => SpamNeedsNewWords`, `PublicationsSpec => AnnouncementsMoveForward` |
| `AccountRolesProofs` | `Invariance` | `Spec => []IInv`, however requests overlap |
| | `ServicesGetTheirRole`, `RolesOnce`, `RefreshesKnow` | `Spec => []ActsInRole`, `Spec => GivenOnce`, `Spec => RefreshedSessionsKnow` |
| `UniqueReferencesProofs` | `Invariance`, `OnlyOverlapsCollide`, `RepeatsOverlap` | `Spec => []IInv`, `Spec => []CollisionsOverlap`, `Spec => OnlyOverlapsRepeat` |
| | `Refinement` | `Spec => ImplementsRegistry` |
| `MessageThreadsProofs` | `Invariance`, `DoublesAreUnknown` | `Spec => []P` for `IInv`, `DoublesUnknown` |
| | `AbandonedForGood` | `Spec => StaysAbandoned` |
| `ReturnUrlsAndPopulatorProofs` | `Invariance`, `LeadsBackAlways` | `Spec => []IInv`, `Spec => ReturnsToOpener` |
| | `Refinement` | `Spec => ImplementsStack` |
| | `PopulatorInvariant` | `PopulatorSpec => []PopulatorInv`, for any entities and whatever they require |
| | `StoredEntitiesAreInOrder`, `ChainsAloneAreGivenUp` | `PopulatorSpec => []P` for `StoredInOrder`, `OnlyChainsAreGivenUp` |
| | `TrialsRunOut` | `PopulatorSpec => StepsRunOut` |
| `ApplicationsProofs` | `Invariance`, `ChartTellsTheDays` | `Spec => []IInv`, `Spec => LabelsTellTheDays` |

**AbstractController.** What clients are told is not inductive: it depends on whose status is in the
field. `IInv` adds, for each step of `handleRequest`, whether an undisturbed request *has* a transaction (its own
status in the field, active, and bound to its thread) or has none (`HoldsByStep`), that no
transaction of its is anywhere else (`NoneElsewhere`), and what has become of its main transaction
(`FateByStep`). Nothing of the kind is true of disturbed requests, so the rest is about where these are: `Apart` says that requests
in flight have different threads, and different controllers unless both are disturbed; `Contained`, that disturbed ones are at spoilt
places and undisturbed ones are not; `FieldsAtHome`, that the field of a controller has a status of its own requests, and of a disturbed one only if
the controller is spoilt; `IdleThreadsClear`, that nothing is bound to an idle thread that is not spoilt. The proof follows
the shapes of steps rather than the twelve actions: a step opens a transaction, closes it, or
leaves it alone (`StepShape`, then `OpenStep`, `CloseStep`, `ServingStep`), and beyond its own status it touches at most the one in its field
(`StepFrame`), which is none of an undisturbed request's (`OthersLeftAlone`). `ArriveContains` is the step in which requests meet. `EndsOthers` is
the fact behind `OwnTransactions`. For `Refinement`, `EffectStep` shows that an undisturbed request's effect changes as the contract allows,
`EffectsSettleOnce` that any request's does so at most once (with `OnceEach`), and `MetInCompany` that nobody is disturbed alone.

**OptimisticLocking.** The property is about the row that a form overwrites; the two comparisons are
about versions. `IInv` connects them: among forms, snapshots and the row, a version number of an
entity stands for one value (`FormsAgree`, `ReadsAgree`, `FormsAgreeWithReads`), no copy is ahead of
the row, and one with the row's version has its value (`FormsBehind`, `ReadsBehind`); ids are used
once, so that these survive deletion. `Refinement` then shows that an update with a change is a store by a linked form and breaks all links,
and one without a change asks for nothing.

**EmployerJobs.** `IInv` is the integrity of the references, with what a request in flight has found. The
cascades preserve it because a descriptor is deleted only when its duties are those that were found, by
`Sweeps` and `Unlinks`; `CascadesExact` and `AppliedStay` follow from it and the guards of the flush. For the other two properties, `Requests` adds that the job was found with one descriptor at most (`Loadable`: Hibernate loads it with the job,
through a one-to-one mapping that fails on two), and `Numbered` that no row has an identifier that is still to
be given out, so that a new duty or descriptor overwrites nothing. `StillFound` then turns what was validated in the snapshot into facts
about the tables (`FoundWorkload`, and a lemma `...Upheld` for each kind of step): the duties of one descriptor are all that the sum depends on.
For `SecondsAreUnseen`, a replacement needs the old descriptor to be there at the flush, since otherwise its deletion finds nothing and
fails (`Deletable`), and its identifier is not the new one's (`Numbered`): so one goes when one comes (`UpdateJoins`, `NextJoins`).

The library defines the sum of a function by taking one point after the other out of its domain, by `CHOOSE`. What the proofs need is that the
order is irrelevant: the sum over a set is the sum over what is left when *any* point is taken out (`SumTakesOut`), and depends on nothing
outside it (`SumsAgree`). There is no induction rule to cite for that; the lemmas take a smallest finite set for which the claim fails
(`SmallestPart`, from the library's theorem that finite sets are well founded by inclusion) and show that there is a smaller one.

**Publications.** That a sponsor has one card is kept by the unique key; that commercial banners have one behind them is not checked at
the commit at all. It is inductive because no form deletes a card and no update moves a row to another table or
owner, which is what `CreateMade`, `UpdateMade` and `DeleteMade` say of requests in flight: the row they will write at their commit
is, if it is there still, of the table and owner that they were read with. `SnapshotTaken` says that a request's
row is as old as the request or newer, so that a commit that finds its version has not been overtaken, and that its identifier was given out,
so that no new row takes its place. `WriteMade` keeps what validation established until the commit: it is the step before
`SpamWordsWereEdited`; `Proper` (announcements are dated at present or before) the one before `MomentsMoveForward`. The proof has a lemma for what
all services share (`SentPost`, then `CreatePost`, `UpdatePost`, `DeletePost`), and one for each page and kind of row.

**AccountRoles.** `IInv` says that the principals of a session, of its requests and of a refresh under way
*represent* the account that is signed in: each id in the map is a role of that account and of that
class, and the active class is in the map. It is inductive as roles are never deleted and their rows
never change. For the other three, `RoleInv` adds what a
request that has been alone so far can rely on: in its session (`InSession`), the role that it made active, the class of the id that its
service was told, and that the principal it has loaded knows what the session's does; in its account (`InAccount`), what `authorise`
found, and that the principal loaded knows the roles created so far. `Meets` says that any two requests in flight know of one another
by `beside`, so that one that is alone in its session or account after a step was so before (`WasAlone`) and the step was not another's of
the same (`OtherKept`). A principal in use belongs to one session (`OneSession`), so no other session's requests make another
role of it active. The administrators' acceptances may come at any time, but add roles of auditors only.

**UniqueReferences.** A commit fails against any row, but a request has looked at those of its snapshot
only. `IInv` says, next to the uniqueness of the columns (`UniqueColumns`), what each stage has ruled out:
a request that goes on has met no row, among those it had looked at, that repeats what its service looks for
(`LookedOK`; a service that excludes nothing may have looked at nothing yet, which `StageOK` says), and
that a row is there once it is committed or its client is told so (`ToldOK`). A row that collides, or is repeated, is therefore
one that came later. For `Refinement`, rows have the same key exactly when they agree in the unique
columns (`SameKey`, `AgreeingKeys`), so that a row holds its key alone (`HolderOf`): a commit gives a key that
nobody had (`RefCommit`), and answers are about what is held (`RefAnswer`).

**MessageThreads.** Rows of participants are deleted, so who takes part now does not tell which pages were
shown to whom. `IInv` is about all rows that ever were (`Spent`, with `of` and `knew`): a page inside a thread
was made when its user had a row among those the page shows (`PageMade`), a request from an invitation is for
somebody whom its page offered (`RequestMade`), and a row is of nobody whom its form showed
(`History`). `DoublesUnknown` follows from it; `AbandonedForGood` needs, for each
action, that an abandoned thread admits nobody (`NobodyAdmitted`) and has no request in flight.

**ReturnUrls.** The script only ever looks for the last separator, so the argument is about the form of the string:
in a `Joined` string pieces and separators alternate, beginning and ending with a piece. Lemmas say that a push and a pop keep that, that the last
separator of a joined string is its piece before the last, and what `Split` makes of both (`Append`, all but the last). `OpenerOnTop` is what
`ReturnsToOpener` needs before the step; it holds again in the listing, as the next row clicked is pushed, and becomes the
opener, at once. `strayed` gives up on it after Back or a double click until the menu clears the stack. `Refinement` goes by actions.

**DatabasePopulator.** `PopulatorInv` says that the list keeps each entity exactly once, that what an attempt has persisted so far
requires nothing that comes later (`Ordered`), that attempts leave nothing behind, and that success is told only of complete
attempts. `OnlyChainsAreGivenUp` is a matter of counting: `DeferredOnce` says that, without chains, each attempt so far has put another entity at
the end of the list, one with requirements. An entity is deferred because something that it requires comes later in the list; without chains, that
one requires nothing itself, so it is not among those at the end, and hence neither is the entity in front of it (`OnlyOnce`; `PutLastPlaces` says
where entities come to lie). After as many attempts as there are entities all of them would require another, and any two of these are a chain. `TrialsRunOut` is the safety half of `Ends`: `StepsLeft`, a natural number, falls with every
step, so that the loops end however the file is made.

**Applications.** That every moment in a row, in a request and in the groups of a chart lies on the day in `made`
(`Kept`) makes grouping by moment and looking up by day agree: a day has a group exactly when something was made on it, and
the applications of a group are among those made on the day, which is where cardinalities of finite sets come in (`Truthful`).
`ChartMade` follows each dashboard from step to step, with the days counted so far: positions are days from the limit on, and as the clock
only moves forward, there are no more numbers than labels (lemma `DaysBetween`) when the page is drawn with one limit.

**Assumptions.** The `ASSUME`s in the modules say that constants have their types, sets of identifiers (and those of controllers and threads) are
disjoint, and the "none" values are no other values; that identifiers of duties and of applications are finitely many
(they are `int`s in the code); and that a file has at least one entity, each listed once. None is about which requests overlap. There are
no unproved steps.

**Only model-checked**: the two liveness properties, `EveryRequestIsAnswered` and `Ends`, as liveness under fairness
and anything with `ENABLED` are out of the provers' reach. Every other property of a passing run is stated by a theorem. `StepsRunOut` is the other way
round: it is proved and no run checks it.

## 5. Where code and documents disagree

Two runs end in a counterexample to what the repository says of the program:

1. **`controller_race_answer`.** `transactionStatus` is a field of a singleton
   (`framework/controllers/AbstractController.java:82`). Two requests overlap on a controller: the second stores its status in the field,
   and the first commits that one, answers with a plain view, and leaves its own writes
   in an open transaction. Line 247 says "let's commit or rollback the transaction depending on
   whether there are errors or not in the response".
2. **`jobs_published`.** `EmployerJobUpdateService` validates the descriptor and the duties that it finds (line 131), and then
   deletes or replaces them in the same request, if the title submitted is empty or another (lines 155 to 165).
   The job is published without what its messages ask for: "Descriptor must not be null in final
   mode", "Duties' total percentage must be 100 in final mode".

Seen while modelling, and in the models as they are in the code, without a run of their own:

- the populator prints "Everything worked like a charm!" after a commit that failed, since
  `DatabaseUtil` keeps that to itself;
- an update of a challenge may set any deadline, its creation only one in the future;
- whether a sponsor's card has expired is looked at when the card is saved, but no longer when a commercial banner is
  (that part of the code is commented out), and a sponsor without a card gets a panic page, as `equals` is called on a null;
- the list of requests compares deadlines with `utc_timestamp()`, the list of offers with `now()`;
- the workload limit counts the other duties only when a duty is edited;
- the dashboard draws a "Number of pending, accepted and rejected applications per day during the last four weeks"
  (`src/src/main/webapp/META-INF/views/administrator/dashboard/i18n_en.messages`), but counts the first group of a day only, and a group is a
  moment (`AdministratorDashboardShowService.java`, line 119): `LabelsTellTheDays` promises no more than what is left;
- its labels are dated by a later clock than its numbers (line 43), and for four weeks in spring, when a day has 23 hours, it ends a day early
  (line 130);
- deciding an application takes the seconds from its moment, since the form prints it to the minute, and
  `EmployerApplicationUpdateService` leaves it to the form which application an employer decides;
- "The referrer view cares of returning to the appropriate listing or /master/welcome" (`framework/controllers/AbstractController.java`, line 427): after Back or
  a double click it may be another listing;
- a consumer or a provider may become one again, and an accepted auditors' request may be accepted again.

## 6. What is not modelled

- **Data formats**: parsing and printing of fields, patterns of tickers and references, prices, locales,
  passwords. What binding and validation decide about them is a choice of the models.
- **The arithmetic of `is_spam`** (frequency, size, threshold) and of workloads in floating point.
- **What edits of accounts, roles and audit records commit**: they follow `OptimisticLocking` with
  no further rule on the state. The refresh of the session after them is in `AccountRoles`.
- **Lists and forms that only read**, other than those of `MessageThreads`, `Publications` and
  `Applications`; the totals, averages and ratios of the dashboard, which are single SQL aggregates.
- **`ExtendedMessageSource`** (patched Spring code), helpers, converters, formatters, logging, configuration, and
  the command-line tools besides the populator.
- **Views, messages, styles** (presentation), and the population files (data).
- **Vendored scripts**: jQuery, Bootstrap, Popper, DataTables, Chart.js and Font Awesome are nearly all the JavaScript of the
  repository, some 84 000 lines. They are third-party code that the views only call; of the application's own script,
  `acme.js`, every function that keeps state is in `ReturnUrls`. What the map covers of the program is therefore Java for
  the most part.
- **Sessions that expire** in the browser: the sign-in page that comes instead keeps the stack, as the panic page does.
- **`DatabasePopulator`'s console and schema commands**: the schema is dropped and created before the
  files are read; several files are populated one after another, each as modelled.
- **Isolation weaker than the models assume**: reads are from a snapshot taken by the first query (REPEATABLE READ); writes
  meet the latest committed rows. Rows locked by an open transaction only delay a commit, which the models take to be atomic.

## 7. Plan

The order followed the importance of the behaviour: the pipeline under every request, the protocol
under every edit, then the features with rules of their own. What is left, in order:

1. **Proofs of liveness**, as far as they are safety: a measure for the requests of `AbstractController`, as `StepsLeft` is for the populator.
2. **Disabled accounts** that are signed in, in `AccountRoles`.
3. **Job boards** of workers, auditors and visitors, with `Applications` and `EmployerJobs`.
4. **The message source**: its two caches and the refresh by several threads.
5. **`EmployerJobs` on `LinkedRecords`**: the rows of jobs and duties as instances of the abstract register.
