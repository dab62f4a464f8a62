------------------------ MODULE AbstractController ------------------------
(***************************************************************************)
(* acme.framework.controllers.AbstractController: how one HTTP request is  *)
(* carried through its transactions by handleRequest, doGet and doPost.    *)
(*                                                                         *)
(* A controller is a singleton bean.  Its field transactionStatus is       *)
(* shared by every thread that is executing handleRequest on it, so a      *)
(* request commits, rolls back and tests whatever status the field holds   *)
(* when it gets there.  The code does nothing to keep the requests to one  *)
(* controller apart; the history variable disturbed says which of them     *)
(* such an overlap may have touched.                                       *)
(*                                                                         *)
(* Each step below is atomic up to the next access to the field; the       *)
(* assertions of the source are disabled, as they are in a default JVM: a  *)
(* null or completed status makes the transaction manager throw instead.   *)
(***************************************************************************)
EXTENDS Naturals, FiniteSets

CONSTANTS
  Requests,     \* the HTTP requests that may arrive
  Threads,      \* the worker threads that serve them
  Controllers,  \* the controllers, one bean each
  Route,        \* Route[r]: the controller that the URL of r maps to
  MaxArrivals,  \* bound: how many of the requests arrive
  NoTx, NoThread, PoolSize

Phases == {"main", "after", "oops"}

\* The statuses that startTransaction returns: request by request, call by call.
Statuses == Requests \X Phases

ASSUME RouteAssumption == Route \in [Requests -> Controllers]
ASSUME DisjointAssumption == Controllers \cap Threads = {}
ASSUME NoThreadAssumption == NoThread \notin Threads
ASSUME NoTxAssumption == NoTx \notin Statuses
ASSUME PoolSizeAssumption == PoolSize \in Nat \ {0}

VARIABLES
  st, joins, bound, rollbackOnly,  \* the transaction manager's state
  transactionStatus,  \* the field of each controller
  pc,                 \* the step of handleRequest that each request is at
  thread,             \* the thread that executes the request
  service,            \* whether the local variable 'service' has been assigned
  errors,             \* whether the response carries validation errors
  wroteIn,            \* the transaction that received the request's writes
  answer,             \* what the client was answered
  disturbed,  \* history: the requests that came across others at a controller
  spoilt      \* history: where these may have left something, since the start

TM == INSTANCE JpaTransactionManager WITH Tx <- Statuses

history == <<disturbed, spoilt>>
reqVars == <<thread, service, errors, wroteIn, answer, history>>
vars == <<st, joins, bound, rollbackOnly, transactionStatus, pc, reqVars>>

Steps == {"new", "start", "prepare", "serve", "sequence", "saved", "built",
          "reopen", "notify", "finish", "catch", "recover", "report", "done"}
Answers == {"none", "view", "form", "panic", "error", "lost"}

TypeOK ==
  /\ TM!TMTypeOK
  /\ transactionStatus \in [Controllers -> Statuses \union {NoTx}]
  /\ pc \in [Requests -> Steps]
  /\ thread \in [Requests -> Threads \union {NoThread}]
  /\ service \in [Requests -> BOOLEAN]
  /\ errors \in [Requests -> BOOLEAN]
  /\ wroteIn \in [Requests -> Statuses \union {NoTx}]
  /\ answer \in [Requests -> Answers]
  /\ disturbed \subseteq Requests
  /\ spoilt \subseteq Controllers \union Threads

Init ==
  /\ TM!TMInit
  /\ transactionStatus = [c \in Controllers |-> NoTx]
  /\ pc = [r \in Requests |-> "new"]
  /\ thread = [r \in Requests |-> NoThread]
  /\ service = [r \in Requests |-> FALSE]
  /\ errors = [r \in Requests |-> FALSE]
  /\ wroteIn = [r \in Requests |-> NoTx]
  /\ answer = [r \in Requests |-> "none"]
  /\ disturbed = {} /\ spoilt = {}

-----------------------------------------------------------------------------
InFlight(r) == pc[r] \notin {"new", "done"}
Idle(t) == \A r \in Requests : InFlight(r) => thread[r] # t

Goto(r, step) == pc' = [pc EXCEPT ![r] = step]

\* isTransactionActive(), on the controller of request r
Field(r) == transactionStatus[Route[r]]
IsTransactionActive(r) == TM!Open(Field(r))

\* A mutant of SetField: the field is static.
SetFieldStatic(r, x) == transactionStatus' = [c \in Controllers |-> x]
SetField(r, x) == transactionStatus' = [transactionStatus EXCEPT ![Route[r]] = x]

\* startTransaction(), commitTransaction() and rollbackTransaction(), and
\* what is left of them when the transaction manager throws.
StartTransaction(r, phase) ==
  TM!Begin(thread[r], <<r, phase>>) /\ SetField(r, <<r, phase>>)
StartTransactionThrows(r) ==
  TM!BeginFails(thread[r]) /\ UNCHANGED transactionStatus
CommitTransaction(r) ==
  TM!Commit(thread[r], Field(r)) /\ SetField(r, NoTx)
CommitTransactionThrows(r) ==
  TM!CommitFails(thread[r], Field(r)) /\ UNCHANGED transactionStatus
RollbackTransaction(r) ==
  TM!Rollback(thread[r], Field(r)) /\ SetField(r, NoTx)
RollbackTransactionThrows(r) ==
  TM!RollbackFails(thread[r], Field(r)) /\ UNCHANGED transactionStatus

noTransactionChange == UNCHANGED <<st, joins, bound, rollbackOnly, transactionStatus>>

Answer(r, a) ==
  /\ Goto(r, "done")
  /\ answer' = [answer EXCEPT ![r] = a]
  /\ UNCHANGED <<thread, service, errors, wroteIn, history>>

-----------------------------------------------------------------------------
(***************************************************************************)
(* The requests that are disturbed when r arrives on thread t: r and those *)
(* in flight on its controller, or r alone, if disturbed ones have been on *)
(* its thread or its controller since the server started.                  *)
(***************************************************************************)
Meeting(r, t) ==
  LET others == {q \in Requests : InFlight(q) /\ Route[q] = Route[r]}
  IN  IF others = {} /\ {Route[r], t} \cap spoilt = {} THEN {} ELSE others \union {r}

(***************************************************************************)
(* The container hands request r to an idle worker thread.                 *)
(***************************************************************************)
Arrive(r, t) ==
  /\ pc[r] = "new" /\ Idle(t)
  /\ Cardinality({q \in Requests : pc[q] # "new"}) < MaxArrivals
  /\ Goto(r, "start")
  /\ thread' = [thread EXCEPT ![r] = t]
  /\ disturbed' = disturbed \union Meeting(r, t)
  /\ spoilt' = spoilt \union UNION {{Route[q], thread'[q]} : q \in Meeting(r, t)}
  /\ noTransactionChange
  /\ UNCHANGED <<service, errors, wroteIn, answer>>

Start(r) ==
  /\ pc[r] = "start"
  /\ \/ StartTransaction(r, "main") /\ Goto(r, "prepare")
     \/ StartTransactionThrows(r) /\ Goto(r, "catch")
  /\ UNCHANGED reqVars

(***************************************************************************)
(* From the CSRF parameter to service.authorise: the endpoint or the role  *)
(* may be refused before 'service' is assigned, the authorisation after.   *)
(***************************************************************************)
Prepare(r) ==
  /\ pc[r] = "prepare"
  /\ \/ Goto(r, "catch") /\ UNCHANGED service
     \/ /\ Goto(r, "catch") \/ Goto(r, "serve")
        /\ service' = [service EXCEPT ![r] = TRUE]
  /\ noTransactionChange
  /\ UNCHANGED <<thread, errors, wroteIn, answer, history>>

\* doGet and doPost are @Transactional(MANDATORY), called through 'self'.
InTransaction(r) == TM!Running(bound[thread[r]])

ServeThrows(r) ==
  /\ TM!MarkRollbackOnly(thread[r]) /\ Goto(r, "catch")
  /\ UNCHANGED <<transactionStatus, reqVars>>

\* A GET only reads, and expects no errors.
DoGet(r) == Goto(r, "built") /\ UNCHANGED <<errors, wroteIn>>

(***************************************************************************)
(* A POST finds or instantiates the entity, binds and validates it, and    *)
(* only without errors invokes the service's create, update or delete,     *)
(* whose writes go to the transaction bound to the thread.                 *)
(***************************************************************************)
DoPost(r) ==
  \/ /\ Goto(r, "built")
     /\ errors' = [errors EXCEPT ![r] = TRUE]
     /\ UNCHANGED wroteIn
  \/ /\ Goto(r, "saved")
     /\ wroteIn' = [wroteIn EXCEPT ![r] = bound[thread[r]]]
     /\ UNCHANGED errors
  \/ Goto(r, "sequence") /\ UNCHANGED <<errors, wroteIn>>

Serve(r) ==
  /\ pc[r] = "serve"
  /\ \/ ServeThrows(r)
     \/ /\ InTransaction(r)
        /\ DoGet(r) \/ DoPost(r)
        /\ noTransactionChange
        /\ UNCHANGED <<thread, service, answer, history>>

\* A mutant of NextId: the wait for a connection has no time limit.
NextIdPatient(r) ==
  /\ pc[r] = "sequence" /\ InTransaction(r) /\ TM!ConnectionFree
  /\ Goto(r, "saved")
  /\ wroteIn' = [wroteIn EXCEPT ![r] = bound[thread[r]]]
  /\ noTransactionChange
  /\ UNCHANGED <<thread, service, errors, answer, history>>

(***************************************************************************)
(* Saving a new entity asks the table behind GenerationType.SEQUENCE for   *)
(* its id on a second connection, while the first one is held; waiting for *)
(* a connection ends with an exception when none is returned in time.      *)
(***************************************************************************)
NextId(r) ==
  /\ pc[r] = "sequence"
  /\ \/ ServeThrows(r)
     \/ /\ InTransaction(r) /\ TM!ConnectionFree
        /\ Goto(r, "saved")
        /\ wroteIn' = [wroteIn EXCEPT ![r] = bound[thread[r]]]
        /\ noTransactionChange
        /\ UNCHANGED <<thread, service, errors, answer, history>>

\* The service's method may still fail after its first write.
Saved(r) ==
  /\ pc[r] = "saved"
  /\ \/ ServeThrows(r)
     \/ /\ Goto(r, "built")
        /\ noTransactionChange
        /\ UNCHANGED reqVars

BuildRequestedViewThrows(r) == Goto(r, "catch") /\ noTransactionChange

\* Mutants of Conclude: no commit before onSuccess; a commit despite errors.
ConcludeNoCommit(r) ==
  /\ pc[r] = "built"
  /\ \/ ~errors[r] /\ noTransactionChange
     \/ errors[r] /\ RollbackTransaction(r)
  /\ Goto(r, "reopen")
  /\ UNCHANGED reqVars

ConcludeAlwaysCommits(r) ==
  /\ pc[r] = "built"
  /\ \/ CommitTransaction(r) /\ Goto(r, "reopen")
     \/ CommitTransactionThrows(r) /\ Goto(r, "catch")
  /\ UNCHANGED reqVars

(***************************************************************************)
(* buildRequestedView, then commit or rollback as the response says.       *)
(***************************************************************************)
Conclude(r) ==
  /\ pc[r] = "built"
  /\ \/ BuildRequestedViewThrows(r)
     \/ /\ ~errors[r]
        /\ \/ CommitTransaction(r) /\ Goto(r, "reopen")
           \/ CommitTransactionThrows(r) /\ Goto(r, "catch")
     \/ /\ errors[r]
        /\ \/ RollbackTransaction(r) /\ Goto(r, "reopen")
           \/ RollbackTransactionThrows(r) /\ Goto(r, "catch")
  /\ UNCHANGED reqVars

\* A mutant of Reopen: no new transaction for onSuccess and onFailure.
ReopenNothing(r) ==
  /\ pc[r] = "reopen" /\ Goto(r, "notify")
  /\ noTransactionChange
  /\ UNCHANGED reqVars

Reopen(r) ==
  /\ pc[r] = "reopen"
  /\ \/ StartTransaction(r, "after") /\ Goto(r, "notify")
     \/ StartTransactionThrows(r) /\ Goto(r, "catch")
  /\ UNCHANGED reqVars

(***************************************************************************)
(* service.onSuccess may throw (it reloads the principal); no service      *)
(* overrides onFailure, whose default does nothing.                        *)
(***************************************************************************)
Notify(r) ==
  /\ pc[r] = "notify"
  /\ Goto(r, "finish") \/ (~errors[r] /\ Goto(r, "catch"))
  /\ noTransactionChange
  /\ UNCHANGED reqVars

Finish(r) ==
  /\ pc[r] = "finish"
  /\ \/ /\ CommitTransaction(r)
        /\ Answer(r, IF errors[r] THEN "form" ELSE "view")
     \/ /\ CommitTransactionThrows(r) /\ Goto(r, "catch")
        /\ UNCHANGED reqVars

\* A mutant of Catch: the active transaction is not rolled back.
CatchNoRollback(r) ==
  /\ pc[r] = "catch" /\ Goto(r, "recover")
  /\ noTransactionChange
  /\ UNCHANGED reqVars

(***************************************************************************)
(* The catch clause.  What it throws leaves handleRequest: the container   *)
(* answers with an error page.                                             *)
(***************************************************************************)
Catch(r) ==
  /\ pc[r] = "catch"
  /\ \/ /\ ~IsTransactionActive(r)
        /\ Goto(r, "recover")
        /\ noTransactionChange
        /\ UNCHANGED reqVars
     \/ /\ IsTransactionActive(r)
        /\ \/ RollbackTransaction(r) /\ Goto(r, "recover") /\ UNCHANGED reqVars
           \/ RollbackTransactionThrows(r) /\ Answer(r, "error")

Recover(r) ==
  /\ pc[r] = "recover"
  /\ \/ ~service[r] /\ Answer(r, "panic") /\ noTransactionChange
     \/ /\ service[r]
        /\ \/ StartTransaction(r, "oops") /\ Goto(r, "report") /\ UNCHANGED reqVars
           \/ StartTransactionThrows(r) /\ Answer(r, "error")

Report(r) ==
  /\ pc[r] = "report"
  /\ \/ CommitTransaction(r) /\ Answer(r, "panic")
     \/ CommitTransactionThrows(r) /\ Answer(r, "error")

(***************************************************************************)
(* The process stops, through /master/shutdown or a crash, and is started  *)
(* again: the requests in flight are lost.                                 *)
(***************************************************************************)
Restart ==
  /\ \E r \in Requests : InFlight(r)
  /\ TM!LoseConnections
  /\ transactionStatus' = [c \in Controllers |-> NoTx]
  /\ pc' = [r \in Requests |-> IF InFlight(r) THEN "done" ELSE pc[r]]
  /\ answer' = [r \in Requests |-> IF InFlight(r) THEN "lost" ELSE answer[r]]
  /\ spoilt' = {}
  /\ UNCHANGED <<thread, service, errors, wroteIn, disturbed>>

-----------------------------------------------------------------------------
HandleRequest(r) ==
  \/ Start(r) \/ Prepare(r) \/ Serve(r) \/ NextId(r) \/ Saved(r) \/ Conclude(r)
  \/ Reopen(r) \/ Notify(r) \/ Finish(r) \/ Catch(r) \/ Recover(r) \/ Report(r)

Next ==
  \/ \E r \in Requests, t \in Threads : Arrive(r, t)
  \/ \E r \in Requests : HandleRequest(r)
  \/ Restart

\* The JVM keeps running every thread that is inside handleRequest.
Fairness == \A r \in Requests : WF_vars(HandleRequest(r))

Spec == Init /\ [][Next]_vars
FairSpec == Spec /\ Fairness

-----------------------------------------------------------------------------
(***************************************************************************)
(* The refinement mapping to the contract of a request: its effect is kept *)
(* when its main transaction commits, undone when that transaction ends in *)
(* another way or could not begin.                                         *)
(***************************************************************************)
Effect(r) ==
  IF TM!Durable(<<r, "main">>) THEN "kept"
  ELSE IF pc[r] \in {"new", "start"} \/ st[<<r, "main">>] = "active" THEN "pending"
  ELSE "undone"

Contract == INSTANCE RequestContract WITH
  effect <- [r \in Requests |-> Effect(r)],
  reply <- answer

(***************************************************************************)
(* Requests are carried out as the contract says: in full, unless they met *)
(* others at their controller, and their overlaps harm nobody else.        *)
(***************************************************************************)
ImplementsContract == Contract!ContractSpec

Undisturbed == Requests \ disturbed

\* The steps with the main transaction open.
InMain == {"prepare", "serve", "sequence", "saved", "built"}

\* The main transaction of request r, whose fate is that of its writes.
Main(r) == <<r, "main">>

Kept(r) == wroteIn[r] # NoTx /\ TM!Durable(wroteIn[r])

(***************************************************************************)
(* "let's commit or rollback the transaction depending on whether there    *)
(* are errors or not in the response": whoever is answered with an         *)
(* ordinary view has everything that the request wrote made durable.       *)
(***************************************************************************)
ViewMeansKept ==
  \A r \in Requests : answer[r] = "view" /\ wroteIn[r] # NoTx => Kept(r)

(***************************************************************************)
(* What an undisturbed client is told is what happened to its data: a view *)
(* as above, the form shown again means that nothing was kept, and nothing *)
(* is ever kept of a request before its response was built without errors. *)
(***************************************************************************)
AnswerMatchesData ==
  \A r \in Undisturbed :
    /\ answer[r] = "view" /\ wroteIn[r] # NoTx => Kept(r)
    /\ answer[r] = "form" => ~Kept(r)
    /\ Kept(r) => ~errors[r] /\ pc[r] \notin InMain

(***************************************************************************)
(* Every transaction that holds a connection belongs to a request in       *)
(* flight and is bound to the thread of that request, and an idle thread   *)
(* has nothing bound: only disturbed requests leave anything behind, and   *)
(* only where they have been since the server started.                     *)
(***************************************************************************)
NoTransactionLeak ==
  /\ \A t \in Threads \ spoilt : Idle(t) => bound[t] = NoTx
  /\ \A x \in Statuses :
       TM!HoldsConnection(x) /\ x[1] \in Undisturbed =>
         InFlight(x[1]) /\ bound[thread[x[1]]] = x

(***************************************************************************)
(* "the 'onSuccess' and the 'onFailure' methods must be executed in fresh  *)
(* transactions": in an undisturbed request none of them joins another     *)
(* transaction, and the request's main transaction is over by then.        *)
(***************************************************************************)
FreshFollowUp ==
  \A r \in Undisturbed :
    /\ pc[r] \in {"notify", "finish"} => bound[thread[r]] = <<r, "after">>
    /\ pc[r] = "report" => bound[thread[r]] = <<r, "oops">>
    /\ pc[r] \in {"notify", "finish", "report"} => st[<<r, "main">>] # "active"

(***************************************************************************)
(* "assert this.isTransactionActive()" in commitTransaction and            *)
(* rollbackTransaction fails in disturbed requests only.                   *)
(***************************************************************************)
AssertionsHold ==
  \A r \in Undisturbed :
    pc[r] \in {"built", "finish", "report"} => IsTransactionActive(r)

(***************************************************************************)
(* A transaction is ended by the request that began it, unless both that   *)
(* one and whoever ends it are disturbed: the requests to one controller   *)
(* get at those to another only through a thread or a controller on which  *)
(* they have been.  (A restart ends all.)                                  *)
(***************************************************************************)
EndsOwn(x) ==
  pc'[x[1]] # pc[x[1]] \/
    /\ x[1] \in disturbed
    /\ \A r \in Undisturbed : pc'[r] # pc[r] => answer'[r] = "lost"

OwnTransactionsOnly ==
  [][\A x \in Statuses : st[x] = "active" /\ st'[x] # "active" => EndsOwn(x)]_vars

(***************************************************************************)
(* The inductive invariant.  By its step, an undisturbed request either    *)
(* has its own transaction, in the field and bound to its thread, or has   *)
(* none at all; it shares its thread with nobody, its controller with      *)
(* nobody in flight, and neither with any disturbed request before it.     *)
(***************************************************************************)
Early == {"start", "prepare", "serve", "sequence"}

Has(r, phase) ==
  /\ Field(r) = <<r, phase>>
  /\ st[<<r, phase>>] = "active"
  /\ bound[thread[r]] = <<r, phase>>

HasNone(r) == ~IsTransactionActive(r) /\ bound[thread[r]] = NoTx

OnThread == \A r \in Requests : InFlight(r) => thread[r] \in Threads

Apart ==
  \A r, q \in Requests : InFlight(r) /\ InFlight(q) =>
    /\ thread[r] = thread[q] => r = q
    /\ Route[r] = Route[q] => r = q \/ {r, q} \subseteq disturbed

\* Where disturbed requests are and have been.
Contained ==
  /\ spoilt # {} => disturbed # {}
  /\ \A r \in disturbed :
       pc[r] # "new" /\ (InFlight(r) => {Route[r], thread[r]} \subseteq spoilt)
  /\ \A r \in Undisturbed : InFlight(r) => {Route[r], thread[r]} \cap spoilt = {}

HoldsByStep(r) ==
  /\ pc[r] \in InMain => Has(r, "main")
  /\ pc[r] \in {"notify", "finish"} => Has(r, "after")
  /\ pc[r] = "report" => Has(r, "oops")
  /\ pc[r] \in {"start", "reopen", "recover"} => HasNone(r)
  /\ pc[r] = "catch" => HasNone(r) \/ Has(r, "main") \/ Has(r, "after")

NoneElsewhere(r) ==
  \A phase \in Phases :
    /\ joins[<<r, phase>>] = NoTx
    /\ st[<<r, phase>>] # "stranded"
    /\ st[<<r, phase>>] = "active" =>
         InFlight(r) /\ bound[thread[r]] = <<r, phase>>

FateByStep(r) ==
  /\ wroteIn[r] \in {NoTx, Main(r)}
  /\ errors[r] => wroteIn[r] = NoTx
  /\ pc[r] \in Early \union {"new"} => ~errors[r] /\ wroteIn[r] = NoTx
  /\ pc[r] = "saved" => ~errors[r]
  /\ pc[r] \in {"reopen", "notify", "finish"} \/ answer[r] \in {"view", "form"} =>
       st[Main(r)] = IF errors[r] THEN "rolledback" ELSE "committed"
  /\ answer[r] = "view" => ~errors[r]
  /\ answer[r] = "form" => errors[r]
  /\ st[Main(r)] = "committed" => ~errors[r]

\* Of disturbed requests, too: when the main transaction begins, and the answer is given.
OnceEach(r) ==
  /\ pc[r] \in {"new", "start"} => st[Main(r)] = "none"
  /\ answer[r] # "none" <=> pc[r] = "done"

IdleThreadsClear == \A t \in Threads \ spoilt : Idle(t) => bound[t] = NoTx

FieldsAtHome ==
  \A r \in Requests, phase \in Phases, c \in Controllers :
    transactionStatus[c] = <<r, phase>> =>
      Route[r] = c /\ (r \in disturbed => c \in spoilt)

IInv ==
  /\ TypeOK /\ OnThread /\ Apart /\ Contained /\ IdleThreadsClear /\ FieldsAtHome
  /\ \A r \in Requests : OnceEach(r)
  /\ \A r \in Undisturbed : HoldsByStep(r) /\ NoneElsewhere(r) /\ FateByStep(r)

(***************************************************************************)
(* handleRequest returns for every request, whatever fails and however few *)
(* connections there are: those that wait for one give up in the end.      *)
(***************************************************************************)
EveryRequestIsAnswered ==
  \A r \in Requests : pc[r] = "start" ~> pc[r] = "done"

=============================================================================
