---------------------- MODULE AbstractControllerProofs ----------------------
(***************************************************************************)
(* Theorems about AbstractController, for any requests, threads,           *)
(* controllers and size of the connection pool, however requests overlap.  *)
(***************************************************************************)
EXTENDS AbstractController, TLAPS

USE DEF history

-----------------------------------------------------------------------------
\* What a status of the transaction manager can be, spelt out once.
LEMMA StatusPairs ==
  ASSUME NEW r \in Requests
  PROVE  /\ <<r, "main">> \in Statuses /\ <<r, "main">> # NoTx
         /\ <<r, "after">> \in Statuses /\ <<r, "after">> # NoTx
         /\ <<r, "oops">> \in Statuses /\ <<r, "oops">> # NoTx
  BY NoTxAssumption DEF Statuses, Phases

\* What startTransaction leaves in the transaction manager and in the field.
LEMMA StartTypes ==
  ASSUME TypeOK, OnThread, NEW r \in Requests, InFlight(r), NEW phase \in Phases,
         StartTransaction(r, phase) \/ StartTransactionThrows(r)
  PROVE  /\ TM!TMTypeOK'
         /\ transactionStatus' \in [Controllers -> Statuses \union {NoTx}]
  <1>. DEFINE x == <<r, phase>>
  <1>1. x \in Statuses /\ thread[r] \in Threads
    BY DEF Statuses, OnThread
  <1>2. CASE StartTransactionThrows(r)
    BY <1>2 DEF StartTransactionThrows, TM!BeginFails, TM!TMTypeOK, TypeOK
  <1>3. CASE StartTransaction(r, phase)
    <2>. HIDE DEF x
    <2>1. TM!Begin(thread[r], x) /\ SetField(r, x)
      BY <1>3 DEF StartTransaction, x
    <2>2. joins' \in [Statuses -> Statuses \union {NoTx}]
      BY <1>1, <2>1 DEF TM!Begin, TM!Running, TM!Open, TM!TMTypeOK, TypeOK
    <2>. QED
      BY <1>1, <2>1, <2>2, RouteAssumption
         DEF TM!Begin, SetField, TM!TMTypeOK, TM!TxStates, TypeOK
  <1>. QED BY <1>2, <1>3

(***************************************************************************)
(* Types.  A request in flight is on a thread, so what its thread has      *)
(* bound is a status.                                                      *)
(***************************************************************************)
LEMMA TypeStep ==
  ASSUME TypeOK, OnThread, NEW r \in Requests, HandleRequest(r)
  PROVE  TypeOK' /\ thread' = thread /\ UNCHANGED history
  <1>. USE RouteAssumption
       DEF TypeOK, OnThread, InFlight, TM!TMTypeOK, TM!TxStates, Steps, Answers,
           Goto, SetField, Field
  <1>1. CASE Start(r)
    BY <1>1, StartTypes DEF Start, Phases, reqVars
  <1>2. CASE Prepare(r)
    BY <1>2 DEF Prepare, noTransactionChange
  <1>3. CASE Serve(r)
    BY <1>3 DEF Serve, DoGet, DoPost, ServeThrows, noTransactionChange, reqVars, InTransaction,
                TM!MarkRollbackOnly, TM!Running, TM!Open
  <1>4. CASE NextId(r)
    BY <1>4 DEF NextId, DoGet, DoPost, ServeThrows, noTransactionChange, reqVars, InTransaction,
                TM!MarkRollbackOnly, TM!Running, TM!Open
  <1>5. CASE Saved(r)
    BY <1>5 DEF Saved, DoGet, DoPost, ServeThrows, noTransactionChange, reqVars, InTransaction,
                TM!MarkRollbackOnly, TM!Running, TM!Open
  <1>. DEFINE Closing == CommitTransaction(r) \/ CommitTransactionThrows(r)
                           \/ RollbackTransaction(r) \/ RollbackTransactionThrows(r)
  <1>6. ASSUME Closing, InFlight(r)
        PROVE  /\ st' \in [Statuses -> TM!TxStates]
               /\ joins' = joins
               /\ bound' \in [Threads -> Statuses \union {NoTx}]
               /\ rollbackOnly' \subseteq Statuses
               /\ transactionStatus' \in [Controllers -> Statuses \union {NoTx}]
    BY <1>6 DEF CommitTransaction, CommitTransactionThrows, RollbackTransaction,
                RollbackTransactionThrows, TM!Commit, TM!CommitFails, TM!Rollback,
                TM!RollbackFails, TM!Complete, TM!Open
  <1>7. CASE Conclude(r)
    <2>1. pc' \in [Requests -> Steps] /\ UNCHANGED reqVars
      BY <1>7 DEF Conclude, BuildRequestedViewThrows
    <2>2. InFlight(r) /\ (Closing \/ noTransactionChange)
      BY <1>7 DEF Conclude, BuildRequestedViewThrows
    <2>. QED BY <2>1, <2>2, <1>6 DEF reqVars, noTransactionChange
  <1>8. CASE Reopen(r)
    BY <1>8, StartTypes DEF Reopen, Phases, reqVars
  <1>9. CASE Notify(r)
    BY <1>9 DEF Notify, noTransactionChange, reqVars
  <1>10. CASE Finish(r)
    <2>1. InFlight(r) /\ Closing
      BY <1>10 DEF Finish
    <2>. QED BY <1>10, <2>1, <1>6 DEF Finish, Answer, reqVars
  <1>11. CASE Catch(r)
    <2>1. InFlight(r) /\ (Closing \/ noTransactionChange)
      BY <1>11 DEF Catch
    <2>. QED BY <1>11, <2>1, <1>6 DEF Catch, Answer, reqVars, noTransactionChange
  <1>12. CASE Recover(r)
    BY <1>12, StartTypes DEF Recover, Phases, reqVars, Answer, noTransactionChange
  <1>13. CASE Report(r)
    <2>1. InFlight(r) /\ Closing
      BY <1>13 DEF Report
    <2>. QED BY <1>13, <2>1, <1>6 DEF Report, Answer, reqVars
  <1>. QED
    BY <1>1, <1>2, <1>3, <1>4, <1>5, <1>7, <1>8, <1>9, <1>10, <1>11, <1>12, <1>13
       DEF HandleRequest

(***************************************************************************)
(* A step of handleRequest moves its request on, and changes nothing of    *)
(* the local variables of any other.                                       *)
(***************************************************************************)
LEMMA Locality ==
  ASSUME TypeOK, NEW r \in Requests, HandleRequest(r)
  PROVE  /\ InFlight(r) /\ thread' = thread /\ UNCHANGED history
         /\ pc'[r] # pc[r] /\ pc'[r] \notin {"new", "start"}
         /\ \A q \in Requests : q # r =>
              /\ pc'[q] = pc[q] /\ errors'[q] = errors[q]
              /\ wroteIn'[q] = wroteIn[q] /\ answer'[q] = answer[q]
  <1>. USE DEF TypeOK, InFlight, Goto, Answer, reqVars
  <1>1. CASE Start(r) \/ Prepare(r) \/ Notify(r) \/ Reopen(r)
    BY <1>1 DEF Start, Prepare, Notify, Reopen
  <1>2. CASE Serve(r) \/ NextId(r) \/ Saved(r)
    BY <1>2 DEF Serve, DoGet, DoPost, ServeThrows, NextId, Saved
  <1>3. CASE Conclude(r) \/ Finish(r)
    BY <1>3 DEF Conclude, BuildRequestedViewThrows, Finish
  <1>4. CASE Catch(r) \/ Recover(r) \/ Report(r)
    BY <1>4 DEF Catch, Recover, Report
  <1>. QED BY <1>1, <1>2, <1>3, <1>4 DEF HandleRequest

\* The requests that an arrival disturbs, and where they are.
LEMMA Met ==
  ASSUME TypeOK, NEW r \in Requests, NEW t \in Threads, Arrive(r, t)
  PROVE  /\ pc[r] = "new" /\ Idle(t) /\ noTransactionChange
         /\ pc' = [pc EXCEPT ![r] = "start"] /\ thread' = [thread EXCEPT ![r] = t]
         /\ UNCHANGED <<service, errors, wroteIn, answer>>
         /\ disturbed' = disturbed \union Meeting(r, t)
         /\ spoilt' = spoilt \union UNION {{Route[q], thread'[q]} : q \in Meeting(r, t)}
         /\ \A q \in Meeting(r, t) : q \in Requests /\ (q = r \/ (InFlight(q) /\ Route[q] = Route[r]))
         /\ r \in Meeting(r, t) \/ Meeting(r, t) = {}
         /\ r \notin Meeting(r, t) => {Route[r], t} \cap spoilt = {}
         /\ r \notin Meeting(r, t) => \A q \in Requests : InFlight(q) => Route[q] # Route[r]
         /\ \A q \in Requests : InFlight(q) /\ Route[q] = Route[r] => {r, q} \subseteq Meeting(r, t)
BY DEF Arrive, Goto, Meeting

LEMMA ArriveTypes ==
  ASSUME TypeOK, OnThread, NEW r \in Requests, NEW t \in Threads, Arrive(r, t)
  PROVE  TypeOK' /\ OnThread'
  <1>1. TM!TMTypeOK' /\ transactionStatus' = transactionStatus
    BY Met DEF noTransactionChange, TypeOK, TM!TMTypeOK
  <1>2. pc' \in [Requests -> Steps] /\ thread' \in [Requests -> Threads \union {NoThread}]
    BY Met DEF TypeOK, Steps
  <1>3. OnThread'
    BY <1>2, Met DEF TypeOK, OnThread, InFlight
  <1>4. disturbed' \subseteq Requests
    BY Met DEF TypeOK
  <1>5. \A q \in Meeting(r, t) : {Route[q], thread'[q]} \subseteq Controllers \union Threads
    <2>. SUFFICES ASSUME NEW q \in Meeting(r, t)
                  PROVE  Route[q] \in Controllers /\ thread'[q] \in Threads
      OBVIOUS
    <2>1. q \in Requests /\ InFlight(q)'
      BY Met DEF TypeOK, InFlight
    <2>. QED BY <2>1, <1>3, RouteAssumption DEF OnThread
  <1>6. spoilt' \subseteq Controllers \union Threads
    BY <1>5, Met DEF TypeOK
  <1>. QED BY <1>1, <1>2, <1>3, <1>4, <1>6, Met DEF TypeOK

THEOREM TypeCorrect == Spec => [](TypeOK /\ OnThread)
  <1>1. Init => TypeOK /\ OnThread
    BY DEF Init, TypeOK, OnThread, InFlight, TM!TMInit, TM!TMTypeOK, TM!TxStates,
           Steps, Answers
  <1>2. TypeOK /\ OnThread /\ [Next]_vars => (TypeOK /\ OnThread)'
    <2>. SUFFICES ASSUME TypeOK, OnThread, [Next]_vars
                  PROVE  (TypeOK /\ OnThread)'
      OBVIOUS
    <2>1. ASSUME NEW r \in Requests, NEW t \in Threads, Arrive(r, t)
          PROVE  (TypeOK /\ OnThread)'
      BY <2>1, ArriveTypes DEF TypeOK, OnThread
    <2>2. ASSUME NEW r \in Requests, HandleRequest(r)
          PROVE  (TypeOK /\ OnThread)'
      <3>1. InFlight(r) /\ \A q \in Requests : q # r => pc'[q] = pc[q]
        BY <2>2, Locality
      <3>. QED BY <2>2, <3>1, TypeStep DEF OnThread, InFlight
    <2>3. CASE Restart
      BY <2>3 DEF Restart, TypeOK, OnThread, InFlight, TM!LoseConnections,
                  TM!TMTypeOK, TM!TxStates, Steps, Answers
    <2>4. CASE UNCHANGED vars
      BY <2>4 DEF vars, reqVars, TypeOK, OnThread, InFlight, TM!TMTypeOK
    <2>. QED BY <2>1, <2>2, <2>3, <2>4 DEF Next
  <1>. QED BY <1>1, <1>2, PTL DEF Spec

-----------------------------------------------------------------------------
(***************************************************************************)
(* What the four private methods of the controller do for a request that   *)
(* has its own transaction, or none.                                       *)
(***************************************************************************)
LEMMA OpenOwn ==
  ASSUME TypeOK, OnThread, NEW r \in Requests, NEW phase \in Phases,
         InFlight(r), HasNone(r), StartTransaction(r, phase)
  PROVE  /\ st' = [st EXCEPT ![<<r, phase>>] = "active"]
         /\ joins' = joins
         /\ bound' = [bound EXCEPT ![thread[r]] = <<r, phase>>]
         /\ SetField(r, <<r, phase>>)
  BY DEF StartTransaction, TM!Begin, TM!Running, TM!Open, HasNone

Undoing(r) ==
  \/ CommitTransactionThrows(r) \/ RollbackTransaction(r)
  \/ RollbackTransactionThrows(r)

LEMMA CloseOwn ==
  ASSUME TypeOK, OnThread, NEW r \in Requests, NEW phase \in Phases,
         InFlight(r), Has(r, phase), NoneElsewhere(r),
         CommitTransaction(r) \/ Undoing(r)
  PROVE  /\ joins' = joins
         /\ bound' = [bound EXCEPT ![thread[r]] = NoTx]
         /\ SetField(r, NoTx) \/ UNCHANGED transactionStatus
         /\ CommitTransaction(r) => st' = [st EXCEPT ![<<r, phase>>] = "committed"]
         /\ Undoing(r) => st' = [st EXCEPT ![<<r, phase>>] = "rolledback"]
  <1>. DEFINE x == <<r, phase>>
  <1>1. x \in Statuses /\ x # NoTx /\ thread[r] \in Threads
    BY NoTxAssumption DEF Statuses, OnThread
  <1>2. Field(r) = x /\ st[x] = "active" /\ joins[x] = NoTx /\ bound[thread[r]] = x
    BY DEF Has, NoneElsewhere
  <1>. HIDE DEF x
  <1>3. CommitTransaction(r) =>
          /\ joins' = joins
          /\ bound' = [bound EXCEPT ![thread[r]] = NoTx]
          /\ SetField(r, NoTx)
          /\ st' = [st EXCEPT ![x] = "committed"]
    BY <1>1, <1>2 DEF CommitTransaction, TM!Commit, TM!Complete
  <1>4. Undoing(r) =>
          /\ joins' = joins
          /\ bound' = [bound EXCEPT ![thread[r]] = NoTx]
          /\ SetField(r, NoTx) \/ UNCHANGED transactionStatus
          /\ st' = [st EXCEPT ![x] = "rolledback"]
    BY <1>1, <1>2
       DEF Undoing, CommitTransactionThrows, RollbackTransaction,
           RollbackTransactionThrows, TM!CommitFails, TM!Rollback, TM!RollbackFails,
           TM!Complete, TM!Open
  <1>5. ~(CommitTransaction(r) /\ Undoing(r))
    <2>. SUFFICES ASSUME CommitTransaction(r), Undoing(r) PROVE FALSE
      OBVIOUS
    <2>1. st'[x] = "committed" /\ st'[x] = "rolledback"
      BY <1>1, <1>3, <1>4 DEF TypeOK, TM!TMTypeOK
    <2>. QED BY <2>1
  <1>. QED BY <1>3, <1>4 DEF x

-----------------------------------------------------------------------------
(***************************************************************************)
(* What a step of request r reaches, whatever is in its field: its own     *)
(* transactions, the one in the field, its thread and its controller.      *)
(***************************************************************************)
Frame(r) ==
  /\ thread' = thread /\ UNCHANGED history
  /\ \A q \in Requests : q # r =>
       /\ pc'[q] = pc[q] /\ errors'[q] = errors[q]
       /\ wroteIn'[q] = wroteIn[q] /\ answer'[q] = answer[q]
       /\ \A phase \in Phases :
            /\ joins'[<<q, phase>>] = joins[<<q, phase>>]
            /\ st'[<<q, phase>>] # st[<<q, phase>>] =>
                 Field(r) = <<q, phase>> /\ st[<<q, phase>>] = "active"
  /\ \A c \in Controllers : c # Route[r] => transactionStatus'[c] = transactionStatus[c]
  /\ \A t \in Threads : t # thread[r] => bound'[t] = bound[t]
  /\ \/ transactionStatus'[Route[r]] \in {transactionStatus[Route[r]], NoTx}
     \/ \E phase \in Phases : transactionStatus'[Route[r]] = <<r, phase>>

Closing(r) ==
  \/ CommitTransaction(r) \/ CommitTransactionThrows(r)
  \/ RollbackTransaction(r) \/ RollbackTransactionThrows(r)

\* What a step does to transactions is one of three things.
LEMMA StepCalls ==
  ASSUME NEW r \in Requests, HandleRequest(r)
  PROVE  \/ UNCHANGED <<st, joins, bound, transactionStatus>>
         \/ \E phase \in Phases :
              StartTransaction(r, phase) /\ (phase = "main" => pc[r] = "start")
         \/ Closing(r)
  <1>. USE DEF noTransactionChange
  <1>1. CASE Start(r) \/ Reopen(r) \/ Recover(r)
    BY <1>1 DEF Start, Reopen, Recover, StartTransactionThrows, TM!BeginFails, Phases
  <1>2. CASE Prepare(r) \/ Serve(r) \/ NextId(r) \/ Saved(r) \/ Notify(r)
    BY <1>2 DEF Prepare, Serve, NextId, Saved, Notify, ServeThrows, TM!MarkRollbackOnly, reqVars
  <1>3. CASE Conclude(r) \/ Finish(r) \/ Catch(r) \/ Report(r)
    BY <1>3 DEF Conclude, BuildRequestedViewThrows, Finish, Catch, Report, Closing
  <1>. QED BY <1>1, <1>2, <1>3 DEF HandleRequest

LEMMA StepFrame ==
  ASSUME TypeOK, OnThread, NEW r \in Requests, HandleRequest(r)
  PROVE  Frame(r)
  <1>1. /\ InFlight(r) /\ thread' = thread /\ UNCHANGED history /\ thread[r] \in Threads
        /\ \A q \in Requests : q # r =>
             /\ pc'[q] = pc[q] /\ errors'[q] = errors[q]
             /\ wroteIn'[q] = wroteIn[q] /\ answer'[q] = answer[q]
    BY Locality DEF OnThread
  <1>2. \A q \in Requests, phase \in Phases : q # r =>
          /\ <<q, phase>> \in Statuses
          /\ \A other \in Phases : <<q, phase>> # <<r, other>>
    BY DEF Statuses
  <1>. USE RouteAssumption, <1>1 DEF TypeOK, TM!TMTypeOK, Frame, SetField
  <1>3. CASE UNCHANGED <<st, joins, bound, transactionStatus>>
    BY <1>3
  <1>4. ASSUME NEW phase \in Phases, StartTransaction(r, phase)
        PROVE  Frame(r)
    <2>. DEFINE x == <<r, phase>>
    <2>1. /\ st' = [st EXCEPT ![x] = "active"]
          /\ joins' = [joins EXCEPT ![x] = bound[thread[r]]] \/ joins' = joins
          /\ bound' = [bound EXCEPT ![thread[r]] = x] \/ bound' = bound
          /\ transactionStatus' = [transactionStatus EXCEPT ![Route[r]] = x]
      BY <1>4 DEF StartTransaction, TM!Begin
    <2>2. \A q \in Requests, other \in Phases : q # r =>
            st'[<<q, other>>] = st[<<q, other>>] /\ joins'[<<q, other>>] = joins[<<q, other>>]
      BY <1>2, <2>1
    <2>3. /\ \A c \in Controllers : c # Route[r] => transactionStatus'[c] = transactionStatus[c]
          /\ transactionStatus'[Route[r]] = <<r, phase>>
      BY <2>1
    <2>4. \A t \in Threads : t # thread[r] => bound'[t] = bound[t]
      BY <2>1
    <2>. QED BY <2>2, <2>3, <2>4
  <1>5. CASE Closing(r)
    <2>. DEFINE x == Field(r)
    <2>1. \/ UNCHANGED <<st, joins, bound>>
          \/ /\ st[x] = "active" /\ joins' = joins
             /\ \E outcome : st' = [st EXCEPT ![x] = outcome]
             /\ bound' = [bound EXCEPT ![thread[r]] = NoTx] \/ bound' = bound
      BY <1>5 DEF Closing, CommitTransaction, CommitTransactionThrows, RollbackTransaction,
                  RollbackTransactionThrows, TM!Commit, TM!CommitFails, TM!Rollback,
                  TM!RollbackFails, TM!Complete, TM!Open
    <2>2. \/ transactionStatus' = transactionStatus
          \/ transactionStatus' = [transactionStatus EXCEPT ![Route[r]] = NoTx]
      BY <1>5 DEF Closing, CommitTransaction, CommitTransactionThrows, RollbackTransaction,
                  RollbackTransactionThrows
    <2>3. \A q \in Requests, other \in Phases : q # r =>
            /\ joins'[<<q, other>>] = joins[<<q, other>>]
            /\ st'[<<q, other>>] # st[<<q, other>>] =>
                 x = <<q, other>> /\ st[<<q, other>>] = "active"
      BY <1>2, <2>1
    <2>4. \A t \in Threads : t # thread[r] => bound'[t] = bound[t]
      BY <2>1
    <2>. HIDE DEF x
    <2>5. \A q \in Requests, other \in Phases : q # r =>
            /\ joins'[<<q, other>>] = joins[<<q, other>>]
            /\ st'[<<q, other>>] # st[<<q, other>>] =>
                 Field(r) = <<q, other>> /\ st[<<q, other>>] = "active"
      BY <2>3 DEF x
    <2>. QED BY <2>2, <2>4, <2>5
  <1>. QED BY <1>3, <1>4, <1>5, StepCalls

-----------------------------------------------------------------------------
(***************************************************************************)
(* A step of an undisturbed request leaves its transactions as they are,   *)
(* opens one, or closes the open one.                                      *)
(***************************************************************************)
Same == UNCHANGED <<st, joins, bound, transactionStatus>>

Opened(r, phase) ==
  /\ HasNone(r)
  /\ st' = [st EXCEPT ![<<r, phase>>] = "active"]
  /\ joins' = joins
  /\ bound' = [bound EXCEPT ![thread[r]] = <<r, phase>>]
  /\ SetField(r, <<r, phase>>)

Closed(r, phase, outcome) ==
  /\ Has(r, phase)
  /\ st' = [st EXCEPT ![<<r, phase>>] = outcome]
  /\ joins' = joins
  /\ bound' = [bound EXCEPT ![thread[r]] = NoTx]
  /\ SetField(r, NoTx) \/ UNCHANGED transactionStatus

LocalOK(r) == HoldsByStep(r) /\ NoneElsewhere(r) /\ FateByStep(r)

LEMMA StepShape ==
  ASSUME TypeOK, OnThread, NEW r \in Requests, HandleRequest(r), LocalOK(r)
  PROVE  /\ InFlight(r) /\ thread' = thread
         /\ \A q \in Requests : q # r =>
              /\ pc'[q] = pc[q] /\ errors'[q] = errors[q]
              /\ wroteIn'[q] = wroteIn[q] /\ answer'[q] = answer[q]
         /\ \/ Same
            \/ \E phase \in Phases : Opened(r, phase)
            \/ \E phase \in Phases, outcome \in TM!TxStates : Closed(r, phase, outcome)
  <1>1. /\ InFlight(r) /\ thread' = thread
        /\ \A q \in Requests : q # r =>
             /\ pc'[q] = pc[q] /\ errors'[q] = errors[q]
             /\ wroteIn'[q] = wroteIn[q] /\ answer'[q] = answer[q]
    BY Locality
  <1>2. ASSUME NEW phase \in Phases, HasNone(r),
               StartTransaction(r, phase) \/ StartTransactionThrows(r)
        PROVE  Same \/ Opened(r, phase)
    BY <1>1, <1>2, OpenOwn DEF Opened, Same, StartTransactionThrows, TM!BeginFails
  <1>3. ASSUME NEW phase \in Phases, Has(r, phase), CommitTransaction(r) \/ Undoing(r)
        PROVE  Closed(r, phase, "committed") \/ Closed(r, phase, "rolledback")
    BY <1>1, <1>3, CloseOwn DEF Closed, LocalOK
  <1>4. Phases = {"main", "after", "oops"} /\ {"committed", "rolledback"} \subseteq TM!TxStates
    BY DEF Phases, TM!TxStates
  <1>5. CASE Start(r) \/ Reopen(r) \/ Recover(r)
    <2>1. HasNone(r)
      BY <1>5 DEF Start, Reopen, Recover, LocalOK, HoldsByStep
    <2>2. Same \/ Opened(r, "main") \/ Opened(r, "after") \/ Opened(r, "oops")
      BY <2>1, <1>2, <1>4, <1>5 DEF Start, Reopen, Recover, Same, noTransactionChange
    <2>. QED BY <2>2, <1>1, <1>4
  <1>6. CASE Prepare(r) \/ Serve(r) \/ NextId(r) \/ Saved(r) \/ Notify(r)
    <2>1. Same
      BY <1>6 DEF Prepare, Serve, NextId, Saved, Notify, DoGet, DoPost, ServeThrows,
                  TM!MarkRollbackOnly,
                  Same, noTransactionChange, reqVars
    <2>. QED BY <2>1, <1>1
  <1>7. CASE Conclude(r) \/ Finish(r) \/ Catch(r) \/ Report(r)
    <2>1. \/ noTransactionChange
          \/ /\ CommitTransaction(r) \/ Undoing(r)
             /\ Has(r, "main") \/ Has(r, "after") \/ Has(r, "oops")
      BY <1>7 DEF Conclude, BuildRequestedViewThrows, Finish, Catch,
           Report, Undoing, LocalOK, HoldsByStep, HasNone,
                  InMain
    <2>2. \/ Same
          \/ \E phase \in Phases : Closed(r, phase, "committed") \/ Closed(r, phase, "rolledback")
      BY <2>1, <1>3, <1>4 DEF Same, noTransactionChange
    <2>. QED BY <2>2, <1>1, <1>4
  <1>. QED BY <1>1, <1>5, <1>6, <1>7 DEF HandleRequest

-----------------------------------------------------------------------------
(***************************************************************************)
(* What the shapes of a step establish for the request that takes it.      *)
(***************************************************************************)
LEMMA OpenedHas ==
  ASSUME TypeOK, OnThread, NEW r \in Requests, InFlight(r), NoneElsewhere(r),
         NEW phase \in Phases, Opened(r, phase), thread' = thread, InFlight(r)'
  PROVE  /\ Has(r, phase)' /\ NoneElsewhere(r)'
         /\ \A other \in Phases : other # phase => st'[<<r, other>>] = st[<<r, other>>]
  BY RouteAssumption, NoTxAssumption
     DEF Opened, Has, HasNone, NoneElsewhere, Field, SetField, TypeOK, TM!TMTypeOK,
         OnThread, Statuses

LEMMA ClosedHasNone ==
  ASSUME TypeOK, OnThread, NEW r \in Requests, InFlight(r), NoneElsewhere(r),
         NEW phase \in Phases, NEW outcome \in {"committed", "rolledback"},
         Closed(r, phase, outcome), thread' = thread
  PROVE  /\ HasNone(r)' /\ NoneElsewhere(r)'
         /\ st'[<<r, phase>>] = outcome
         /\ \A other \in Phases : other # phase => st'[<<r, other>>] = st[<<r, other>>]
  <1>1. /\ st'[<<r, phase>>] = outcome
        /\ \A other \in Phases : other # phase => st'[<<r, other>>] = st[<<r, other>>]
    BY DEF Closed, TypeOK, TM!TMTypeOK, Statuses
  <1>2. bound'[thread[r]] = NoTx
    BY DEF Closed, TypeOK, TM!TMTypeOK, OnThread
  <1>3. HasNone(r)'
    BY <1>1, <1>2, RouteAssumption, NoTxAssumption
       DEF Closed, HasNone, Has, Field, SetField, IsTransactionActive, TM!Open, TypeOK
  <1>4. NoneElsewhere(r)'
    BY <1>1 DEF Closed, Has, NoneElsewhere
  <1>. QED BY <1>1, <1>3, <1>4

LEMMA SameKeeps ==
  ASSUME TypeOK, NEW r \in Requests, NoneElsewhere(r), Same, thread' = thread
  PROVE  /\ \A phase \in Phases : Has(r, phase)' <=> Has(r, phase)
         /\ HasNone(r)' <=> HasNone(r)
         /\ \A phase \in Phases : st'[<<r, phase>>] = st[<<r, phase>>]
         /\ InFlight(r)' => NoneElsewhere(r)' \/ ~InFlight(r)
         /\ HasNone(r) => NoneElsewhere(r)'
  BY NoTxAssumption
     DEF Same, Has, HasNone, NoneElsewhere, Field, IsTransactionActive, TM!Open, Statuses

(***************************************************************************)
(* A commit only happens to a main transaction when the response is free   *)
(* of errors, and its outcome decides what the request is told.            *)
(***************************************************************************)
Quiet(r) == ~InFlight(r)' => bound'[thread[r]] = NoTx

LEMMA ServingStep ==
  ASSUME TypeOK, OnThread, NEW r \in Requests, LocalOK(r), OnceEach(r),
         Prepare(r) \/ Serve(r) \/ NextId(r) \/ Saved(r) \/ Notify(r)
  PROVE  LocalOK(r)' /\ Quiet(r)
  <1>1. Same /\ thread' = thread /\ InFlight(r) /\ InFlight(r)'
    BY DEF Prepare, Serve, NextId, Saved, Notify, DoGet, DoPost, ServeThrows,
                  TM!MarkRollbackOnly,
           Same, noTransactionChange, reqVars, InFlight, Goto, TypeOK
  <1>2. NoneElsewhere(r)'
    BY <1>1, SameKeeps DEF LocalOK
  <1>3. HoldsByStep(r)'
    BY <1>1, SameKeeps
       DEF LocalOK, HoldsByStep, Prepare, Serve, NextId, Saved, Notify, DoGet, DoPost, ServeThrows,
           Goto, TypeOK, InMain, Phases
  <1>4. FateByStep(r)'
    <2>1. st'[Main(r)] = st[Main(r)]
      BY <1>1, SameKeeps DEF LocalOK, Main, Phases
    <2>2. pc[r] \in {"serve", "sequence"} => bound[thread[r]] = Main(r) /\ st[Main(r)] = "active"
      BY DEF LocalOK, HoldsByStep, Has, InMain, Main
    <2>. QED
      BY <2>1, <2>2
         DEF LocalOK, FateByStep, OnceEach, Prepare, Serve, NextId, Saved, Notify, DoGet, DoPost, ServeThrows,
             Goto, TypeOK, Early, Main, reqVars
  <1>. QED BY <1>1, <1>2, <1>3, <1>4 DEF LocalOK, Quiet

LEMMA OpenStep ==
  ASSUME TypeOK, OnThread, NEW r \in Requests, LocalOK(r), OnceEach(r),
         Start(r) \/ Reopen(r) \/ Recover(r)
  PROVE  LocalOK(r)' /\ Quiet(r)
  <1>1. /\ InFlight(r) /\ HasNone(r) /\ thread' = thread /\ NoneElsewhere(r)
        /\ errors' = errors /\ wroteIn' = wroteIn
    BY DEF Start, Reopen, Recover, LocalOK, HoldsByStep, InFlight, reqVars, Answer
  <1>2. \/ /\ Same /\ pc[r] \in {"start", "reopen"} /\ pc'[r] = "catch"
           /\ answer' = answer
        \/ /\ Same /\ pc[r] = "recover" /\ pc'[r] = "done"
           /\ answer'[r] \in {"panic", "error"}
        \/ \E phase \in Phases :
             /\ StartTransaction(r, phase)
             /\ <<phase, pc[r], pc'[r]>> \in
                  {<<"main", "start", "prepare">>, <<"after", "reopen", "notify">>,
                   <<"oops", "recover", "report">>}
             /\ answer' = answer
    BY DEF Start, Reopen, Recover, Goto, Answer, reqVars, TypeOK, Phases, Same,
           StartTransactionThrows, TM!BeginFails, noTransactionChange
  <1>3. CASE Same /\ pc'[r] \in {"catch", "done"}
    <2>1. HasNone(r)' /\ NoneElsewhere(r)' /\ st'[Main(r)] = st[Main(r)]
      BY <1>1, <1>3, SameKeeps DEF Main, Phases
    <2>2. HoldsByStep(r)'
      BY <2>1, <1>3 DEF HoldsByStep, InMain
    <2>3. FateByStep(r)'
      BY <1>1, <1>2, <1>3, <2>1 DEF LocalOK, FateByStep, OnceEach, Early, Main
    <2>. QED BY <1>1, <2>1, <2>2, <2>3 DEF LocalOK, Quiet, HasNone
  <1>4. ASSUME NEW phase \in Phases, StartTransaction(r, phase),
               <<phase, pc[r], pc'[r]>> \in
                 {<<"main", "start", "prepare">>, <<"after", "reopen", "notify">>,
                  <<"oops", "recover", "report">>},
               answer' = answer
        PROVE  LocalOK(r)' /\ Quiet(r)
    <2>1. Opened(r, phase) /\ InFlight(r)'
      BY <1>1, <1>4, OpenOwn DEF Opened, InFlight
    <2>2. /\ Has(r, phase)' /\ NoneElsewhere(r)'
          /\ \A other \in Phases : other # phase => st'[<<r, other>>] = st[<<r, other>>]
      BY <1>1, <2>1, OpenedHas
    <2>3. HoldsByStep(r)'
      BY <1>4, <2>2 DEF HoldsByStep, InMain
    <2>4. FateByStep(r)'
      <3>1. CASE phase = "main"
        <4>1. st'[Main(r)] = "active" /\ pc[r] = "start" /\ pc'[r] = "prepare"
          BY <1>4, <2>2, <3>1 DEF Has, Main
        <4>. QED BY <1>1, <1>4, <4>1 DEF LocalOK, FateByStep, OnceEach, Early, Main
      <3>2. CASE phase # "main"
        <4>1. st'[Main(r)] = st[Main(r)] /\ "main" \in Phases
          BY <2>2, <3>2 DEF Main, Phases
        <4>. QED BY <1>1, <1>4, <3>2, <4>1 DEF LocalOK, FateByStep, OnceEach, Early, Main
      <3>. QED BY <3>1, <3>2
    <2>. QED BY <2>1, <2>2, <2>3, <2>4 DEF LocalOK, Quiet
  <1>. QED BY <1>2, <1>3, <1>4

(***************************************************************************)
(* Closing a transaction: conclude, finish, catch and report.              *)
(***************************************************************************)
LEMMA CloseStep ==
  ASSUME TypeOK, OnThread, NEW r \in Requests, LocalOK(r), OnceEach(r),
         Conclude(r) \/ Finish(r) \/ Catch(r) \/ Report(r)
  PROVE  LocalOK(r)' /\ Quiet(r)
  <1>1. /\ InFlight(r) /\ thread' = thread /\ NoneElsewhere(r)
        /\ errors' = errors /\ wroteIn' = wroteIn
    BY DEF Conclude, BuildRequestedViewThrows, Finish, Catch,
           Report, LocalOK, InFlight, reqVars, Answer
  <1>. DEFINE
       Committed == CommitTransaction(r) /\
         \/ /\ pc[r] = "built" /\ pc'[r] = "reopen" /\ ~errors[r] /\ answer' = answer
         \/ /\ pc[r] = "finish" /\ pc'[r] = "done"
            /\ answer'[r] = IF errors[r] THEN "form" ELSE "view"
         \/ /\ pc[r] = "report" /\ pc'[r] = "done" /\ answer'[r] = "panic"
       Undone == Undoing(r) /\
         \/ /\ pc[r] = "built" /\ pc'[r] = "reopen" /\ errors[r] /\ answer' = answer
         \/ /\ pc[r] \in {"built", "finish"} /\ pc'[r] = "catch" /\ answer' = answer
         \/ /\ pc[r] = "catch" /\ IsTransactionActive(r)
            /\ \/ pc'[r] = "recover" /\ answer' = answer
               \/ pc'[r] = "done" /\ answer'[r] = "error"
         \/ /\ pc[r] = "report" /\ pc'[r] = "done" /\ answer'[r] = "error"
       Nothing == Same /\ answer' = answer /\
         \/ pc[r] = "built" /\ pc'[r] = "catch"
         \/ pc[r] = "catch" /\ pc'[r] = "recover" /\ ~IsTransactionActive(r)
  <1>2. Committed \/ Undone \/ Nothing
    BY DEF Conclude, BuildRequestedViewThrows, Finish, Catch,
           Report, Goto, Answer, reqVars, TypeOK, Same,
           noTransactionChange, Undoing
  <1>3. CASE Nothing
    <2>1. /\ \A phase \in Phases : Has(r, phase)' <=> Has(r, phase)
          /\ HasNone(r)' <=> HasNone(r)
          /\ st'[Main(r)] = st[Main(r)]
          /\ NoneElsewhere(r)' /\ InFlight(r)'
      BY <1>1, <1>3, SameKeeps DEF Main, Phases, InFlight
    <2>2. HoldsByStep(r)'
      BY <1>3, <2>1
         DEF LocalOK, HoldsByStep, InMain, Has, IsTransactionActive, TM!Open, Statuses,
             HasNone, Phases
    <2>3. FateByStep(r)'
      BY <1>1, <1>3, <2>1 DEF LocalOK, FateByStep, OnceEach, Early, Main
    <2>. QED BY <2>1, <2>2, <2>3 DEF LocalOK, Quiet
  <1>4. ASSUME NEW phase \in Phases, Has(r, phase), CommitTransaction(r) \/ Undoing(r)
        PROVE  /\ HasNone(r)' /\ NoneElsewhere(r)'
               /\ CommitTransaction(r) => st'[<<r, phase>>] = "committed"
               /\ Undoing(r) => st'[<<r, phase>>] = "rolledback"
               /\ phase # "main" => st'[Main(r)] = st[Main(r)]
    <2>1. /\ CommitTransaction(r) => Closed(r, phase, "committed")
          /\ Undoing(r) => Closed(r, phase, "rolledback")
      BY <1>1, <1>4, CloseOwn DEF Closed
    <2>2. "main" \in Phases
      BY DEF Phases
    <2>. QED BY <1>1, <1>4, <2>1, <2>2, ClosedHasNone DEF Main
  <1>5. CASE Committed
    <2>1. pc[r] = "built" => Has(r, "main")
      BY DEF LocalOK, HoldsByStep, InMain
    <2>2. /\ pc[r] = "finish" => Has(r, "after")
          /\ pc[r] = "report" => Has(r, "oops")
      BY DEF LocalOK, HoldsByStep
    <2>3. /\ HasNone(r)' /\ NoneElsewhere(r)'
          /\ pc[r] = "built" => st'[Main(r)] = "committed"
          /\ pc[r] # "built" => st'[Main(r)] = st[Main(r)]
      BY <1>4, <1>5, <2>1, <2>2 DEF Main, Phases
    <2>4. HoldsByStep(r)'
      BY <1>5, <2>3 DEF HoldsByStep, InMain
    <2>5. FateByStep(r)'
      BY <1>1, <1>5, <2>3 DEF LocalOK, FateByStep, OnceEach, Early, Main
    <2>. QED BY <1>1, <2>3, <2>4, <2>5 DEF LocalOK, Quiet, HasNone
  <1>6. CASE Undone
    <2>1. PICK phase \in Phases : Has(r, phase) /\ (phase = "main" => pc[r] \in {"built", "catch"})
      BY <1>6 DEF LocalOK, HoldsByStep, InMain, Phases, HasNone
    <2>2. HasNone(r)' /\ NoneElsewhere(r)' /\ st'[Main(r)] \in {st[Main(r)], "rolledback"}
      BY <1>4, <1>6, <2>1 DEF Main
    <2>3. pc[r] = "built" => st'[Main(r)] = "rolledback"
      BY <1>4, <1>6 DEF LocalOK, HoldsByStep, InMain, Main, Phases
    <2>4. HoldsByStep(r)'
      BY <1>6, <2>2 DEF HoldsByStep, InMain
    <2>5. FateByStep(r)'
      BY <1>1, <1>6, <2>2, <2>3 DEF LocalOK, FateByStep, OnceEach, Early, Main
    <2>. QED BY <1>1, <2>2, <2>4, <2>5 DEF LocalOK, Quiet, HasNone
  <1>. QED BY <1>2, <1>3, <1>5, <1>6

-----------------------------------------------------------------------------
(***************************************************************************)
(* A step of any request leaves the undisturbed ones alone: what is in its *)
(* field is not of theirs, as they have no controller in common with it.   *)
(***************************************************************************)
LEMMA OthersLeftAlone ==
  ASSUME IInv, NEW r \in Requests, HandleRequest(r), NEW q \in Undisturbed, q # r
  PROVE  /\ pc'[q] = pc[q] /\ errors'[q] = errors[q] /\ wroteIn'[q] = wroteIn[q]
         /\ answer'[q] = answer[q] /\ thread'[q] = thread[q]
         /\ \A phase \in Phases : /\ st'[<<q, phase>>] = st[<<q, phase>>]
                                 /\ joins'[<<q, phase>>] = joins[<<q, phase>>]
         /\ InFlight(q) => /\ Field(q)' = Field(q)
                           /\ bound'[thread[q]] = bound[thread[q]]
                           /\ IsTransactionActive(q)' <=> IsTransactionActive(q)
  <1>1. TypeOK /\ OnThread /\ q \in Requests /\ q \notin disturbed
    BY DEF IInv, Undisturbed
  <1>2. Frame(r) /\ InFlight(r)
    BY <1>1, StepFrame, Locality
  <1>3. InFlight(q) => Route[q] # Route[r] /\ thread[q] # thread[r] /\ thread[q] \in Threads
    BY <1>1, <1>2 DEF IInv, Apart, OnThread
  <1>4. ASSUME NEW p \in Requests, p # r, NEW phase \in Phases,
               st'[<<p, phase>>] # st[<<p, phase>>]
        PROVE  Route[p] = Route[r] /\ p # q
    <2>1. Field(r) = <<p, phase>> /\ st[<<p, phase>>] = "active"
      BY <1>2, <1>4 DEF Frame
    <2>2. Route[p] = Route[r]
      BY <2>1, RouteAssumption DEF IInv, FieldsAtHome, Field
    <2>3. p = q => InFlight(q)
      BY <1>1, <2>1 DEF IInv, NoneElsewhere
    <2>. QED BY <1>3, <2>2, <2>3
  <1>5. \A phase \in Phases : /\ st'[<<q, phase>>] = st[<<q, phase>>]
                             /\ joins'[<<q, phase>>] = joins[<<q, phase>>]
    BY <1>1, <1>2, <1>4 DEF Frame
  <1>6. ASSUME InFlight(q)
        PROVE  /\ Field(q)' = Field(q)
               /\ bound'[thread[q]] = bound[thread[q]]
               /\ IsTransactionActive(q)' <=> IsTransactionActive(q)
    <2>1. Field(q)' = Field(q) /\ bound'[thread[q]] = bound[thread[q]]
      BY <1>1, <1>2, <1>3, <1>6, RouteAssumption DEF Frame, Field
    <2>2. CASE Field(q) = NoTx
      BY <2>1, <2>2 DEF IsTransactionActive, TM!Open
    <2>3. CASE Field(q) # NoTx
      <3>1. PICK p \in Requests, phase \in Phases : Field(q) = <<p, phase>>
        BY <1>1, <2>3, RouteAssumption DEF TypeOK, Field, Statuses
      <3>2. Route[p] = Route[q]
        BY <1>1, <3>1, RouteAssumption DEF IInv, FieldsAtHome, Field
      <3>3. st'[<<p, phase>>] = st[<<p, phase>>]
        BY <1>3, <1>4, <1>6, <3>2
      <3>. QED BY <2>1, <3>1, <3>3 DEF IsTransactionActive, TM!Open
    <2>. QED BY <2>1, <2>2, <2>3
  <1>. QED BY <1>1, <1>2, <1>5, <1>6 DEF Frame

LEMMA OthersStayLocal ==
  ASSUME IInv, NEW r \in Requests, HandleRequest(r), NEW q \in Undisturbed, q # r
  PROVE  LocalOK(q)'
  <1>1. LocalOK(q)
    BY DEF IInv, LocalOK
  <1>2. HoldsByStep(q)'
    <2>1. InFlight(q) => /\ \A phase \in Phases : Has(q, phase)' <=> Has(q, phase)
                         /\ HasNone(q)' <=> HasNone(q)
      BY OthersLeftAlone DEF Has, HasNone
    <2>2. HoldsByStep(q) /\ Phases = {"main", "after", "oops"} /\ pc'[q] = pc[q]
      BY <1>1, OthersLeftAlone DEF LocalOK, Phases
    <2>. QED BY <2>1, <2>2 DEF HoldsByStep, InFlight, InMain
  <1>3. NoneElsewhere(q)'
    BY <1>1, OthersLeftAlone DEF LocalOK, NoneElsewhere, InFlight
  <1>4. FateByStep(q)'
    BY <1>1, OthersLeftAlone DEF LocalOK, FateByStep, Main, Phases
  <1>. QED BY <1>2, <1>3, <1>4 DEF LocalOK

\* The main transaction begins once and the answer comes once, disturbed or not.
LEMMA OnceEachStep ==
  ASSUME IInv, NEW r \in Requests, HandleRequest(r), NEW q \in Requests
  PROVE  OnceEach(q)'
  <1>1. TypeOK /\ OnThread /\ OnceEach(q) /\ OnceEach(r)
    BY DEF IInv
  <1>2. CASE q # r
    <2>1. pc'[q] = pc[q] /\ answer'[q] = answer[q] /\ st[Main(q)] # "active" => st'[Main(q)] = st[Main(q)]
      BY <1>1, <1>2, StepFrame DEF Frame, Main, Phases
    <2>2. pc'[q] = pc[q] /\ answer'[q] = answer[q]
      BY <1>1, <1>2, StepFrame DEF Frame
    <2>3. st[Main(q)] = "none" => st'[Main(q)] = "none"
      BY <1>1, <1>2, StepFrame DEF Frame, Main, Phases
    <2>. QED BY <1>1, <2>2, <2>3 DEF OnceEach
  <1>3. CASE q = r
    <2>1. pc'[r] \notin {"new", "start"} /\ InFlight(r)
      BY <1>1, Locality
    <2>2. answer'[r] # "none" <=> pc'[r] = "done"
      <3>1. answer[r] = "none"
        BY <1>1, <2>1 DEF OnceEach, InFlight
      <3>. USE <3>1 DEF TypeOK, Goto, Answer, reqVars
      <3>2. CASE Start(r) \/ Prepare(r) \/ Notify(r) \/ Reopen(r)
        BY <3>2, <1>1 DEF Start, Prepare, Notify, Reopen
      <3>3. CASE Serve(r) \/ NextId(r) \/ Saved(r)
        BY <3>3, <1>1 DEF Serve, DoGet, DoPost, ServeThrows, NextId, Saved
      <3>4. CASE Conclude(r) \/ Finish(r)
        BY <3>4, <1>1 DEF Conclude, BuildRequestedViewThrows, Finish
      <3>5. CASE Catch(r) \/ Recover(r) \/ Report(r)
        BY <3>5, <1>1 DEF Catch, Recover, Report
      <3>. QED BY <3>2, <3>3, <3>4, <3>5 DEF HandleRequest
    <2>. QED BY <1>3, <2>1, <2>2 DEF OnceEach
  <1>. QED BY <1>2, <1>3

LEMMA HandleRequestStep ==
  ASSUME IInv, NEW r \in Requests, HandleRequest(r)
  PROVE  IInv'
  <1>1. TypeOK /\ OnThread /\ OnceEach(r)
    BY DEF IInv
  <1>2. InFlight(r) /\ Frame(r)
    BY <1>1, StepFrame, Locality
  <1>3. r \in Undisturbed => LocalOK(r)' /\ Quiet(r)
    BY <1>1, ServingStep, OpenStep, CloseStep DEF HandleRequest, IInv, LocalOK
  <1>4. TypeOK' /\ disturbed' = disturbed /\ spoilt' = spoilt
    BY <1>1, TypeStep
  <1>5. OnThread' /\ Apart' /\ Contained'
    <2>1. \A q \in Requests : InFlight(q)' => InFlight(q)
      BY <1>2 DEF InFlight, Frame
    <2>2. \A q \in Requests : pc[q] # "new" => pc'[q] # "new"
      BY <1>1, <1>2, Locality DEF Frame
    <2>3. thread' = thread
      BY <1>2 DEF Frame
    <2>4. OnThread' /\ Apart'
      BY <1>4, <2>1, <2>3 DEF IInv, OnThread, Apart
    <2>5. Contained'
      BY <1>4, <2>1, <2>2, <2>3 DEF IInv, Contained, TypeOK, Undisturbed
    <2>. QED BY <2>4, <2>5
  <1>6. IdleThreadsClear'
    <2>. SUFFICES ASSUME NEW t \in Threads \ spoilt, Idle(t)' PROVE bound'[t] = NoTx
      BY <1>4 DEF IdleThreadsClear
    <2>1. CASE t = thread[r]
      <3>1. r \in Undisturbed
        BY <1>2, <2>1 DEF IInv, Contained, Undisturbed
      <3>. QED BY <1>2, <1>3, <2>1, <3>1 DEF Idle, Quiet, Frame
    <2>2. CASE t # thread[r]
      <3>1. Idle(t)
        BY <1>2, <2>2 DEF Idle, InFlight, Frame
      <3>. QED BY <1>2, <2>2, <3>1 DEF IInv, IdleThreadsClear, Frame
    <2>. QED BY <2>1, <2>2
  <1>7. FieldsAtHome'
    <2>. SUFFICES ASSUME NEW p \in Requests, NEW phase \in Phases, NEW c \in Controllers,
                         transactionStatus'[c] = <<p, phase>>
                  PROVE  Route[p] = c /\ (p \in disturbed => c \in spoilt)
      BY <1>4 DEF FieldsAtHome
    <2>1. CASE c # Route[r]
      BY <1>2, <2>1 DEF IInv, FieldsAtHome, Frame
    <2>2. CASE c = Route[r]
      <3>1. <<p, phase>> # NoTx
        BY NoTxAssumption DEF Statuses
      <3>2. \/ transactionStatus[c] = <<p, phase>>
            \/ \E other \in Phases : <<p, phase>> = <<r, other>>
        BY <1>2, <2>2, <3>1 DEF Frame
      <3>3. r \in disturbed => Route[r] \in spoilt
        BY <1>2 DEF IInv, Contained
      <3>. QED BY <2>2, <3>2, <3>3 DEF IInv, FieldsAtHome
    <2>. QED BY <2>1, <2>2
  <1>8. \A q \in Undisturbed' : LocalOK(q)'
    BY <1>3, <1>4, OthersStayLocal DEF Undisturbed
  <1>. QED BY <1>4, <1>5, <1>6, <1>7, <1>8, OnceEachStep DEF IInv, LocalOK

\* A request arrives: whom it meets is disturbed from now on.
LEMMA ArriveContains ==
  ASSUME IInv, NEW r \in Requests, NEW t \in Threads, Arrive(r, t)
  PROVE  Apart' /\ Contained'
  <1>. DEFINE M == Meeting(r, t)
  <1>1. TypeOK /\ Apart /\ Contained /\ M \subseteq Requests
    BY Met DEF IInv
  <1>2. \A q \in Requests : q # r => pc'[q] = pc[q] /\ thread'[q] = thread[q]
    BY <1>1, Met DEF TypeOK
  <1>3. pc'[r] = "start" /\ thread'[r] = t /\ r \notin disturbed
    BY <1>1, Met DEF TypeOK, Contained
  <1>4. \A q \in Requests : q # r => (InFlight(q)' <=> InFlight(q))
    BY <1>2 DEF InFlight
  <1>5. Apart'
    <2>. SUFFICES ASSUME NEW p \in Requests, NEW q \in Requests, p # q, InFlight(p)', InFlight(q)'
                  PROVE  /\ thread'[p] # thread'[q]
                         /\ Route[p] = Route[q] => {p, q} \subseteq disturbed'
      BY DEF Apart
    <2>1. CASE p # r /\ q # r
      BY <1>1, <1>2, <1>4, <2>1, Met DEF Apart
    <2>2. CASE p = r
      BY <1>1, <1>2, <1>3, <1>4, <2>2, Met DEF Idle
    <2>3. CASE q = r
      BY <1>1, <1>2, <1>3, <1>4, <2>3, Met DEF Idle
    <2>. QED BY <2>1, <2>2, <2>3
  <1>6. spoilt' # {} => disturbed' # {}
    BY <1>1, Met DEF Contained
  <1>7. ASSUME NEW q \in disturbed'
        PROVE  pc'[q] # "new" /\ (InFlight(q)' => {Route[q], thread'[q]} \subseteq spoilt')
    <2>1. CASE q \in M
      <3>1. {Route[q], thread'[q]} \subseteq spoilt'
        BY <1>1, <2>1, Met
      <3>2. pc'[q] # "new"
        BY <1>1, <1>2, <1>3, <2>1, Met DEF InFlight
      <3>. QED BY <3>1, <3>2
    <2>2. CASE q \notin M
      <3>1. q \in disturbed /\ q # r /\ q \in Requests
        BY <1>1, <1>3, <1>7, <2>2, Met DEF TypeOK
      <3>. QED BY <1>1, <1>2, <1>4, <3>1, Met DEF Contained
    <2>. QED BY <2>1, <2>2
  <1>8. ASSUME NEW q \in Undisturbed', InFlight(q)'
        PROVE  {Route[q], thread'[q]} \cap spoilt' = {}
    <2>1. q \in Requests /\ q \notin disturbed /\ q \notin M
      BY <1>1, <1>8, Met DEF Undisturbed
    <2>2. CASE q = r
      BY <1>1, <1>3, <2>1, <2>2, Met
    <2>3. CASE q # r
      <3>1. InFlight(q) /\ thread'[q] = thread[q] /\ {Route[q], thread[q]} \cap spoilt = {}
        BY <1>1, <1>2, <1>4, <1>8, <2>1, <2>3 DEF Contained, Undisturbed
      <3>2. Route[q] \in Controllers /\ thread[q] \in Threads
        BY <2>1, <3>1, RouteAssumption DEF IInv, OnThread
      <3>3. ASSUME NEW p \in M
            PROVE  /\ Route[p] \in Controllers /\ thread'[p] \in Threads
                   /\ Route[p] # Route[q] /\ thread'[p] # thread[q]
        <4>1. p \in Requests /\ (p = r \/ (InFlight(p) /\ Route[p] = Route[r]))
          BY <1>1, <3>3, Met
        <4>2. Route[p] # Route[q]
          BY <1>1, <2>1, <3>1, <4>1, Met
        <4>3. CASE p = r
          BY <1>1, <1>3, <2>1, <3>1, <4>2, <4>3, Met, RouteAssumption DEF Idle
        <4>4. CASE p # r
          BY <1>1, <1>2, <2>1, <3>1, <3>3, <4>1, <4>2, <4>4, RouteAssumption
             DEF Apart, IInv, OnThread
        <4>. QED BY <4>3, <4>4
      <3>. QED BY <1>1, <3>1, <3>2, <3>3, Met, DisjointAssumption
    <2>. QED BY <2>2, <2>3
  <1>. QED BY <1>5, <1>6, <1>7, <1>8 DEF Contained

LEMMA ArriveStep ==
  ASSUME IInv, NEW r \in Requests, NEW t \in Threads, Arrive(r, t)
  PROVE  IInv'
  <1>1. /\ pc[r] = "new" /\ Idle(t)
        /\ pc' = [pc EXCEPT ![r] = "start"] /\ thread' = [thread EXCEPT ![r] = t]
        /\ UNCHANGED <<st, joins, bound, rollbackOnly, transactionStatus, service, errors,
                      wroteIn, answer>>
        /\ disturbed \subseteq disturbed' /\ spoilt \subseteq spoilt'
    BY Met DEF IInv, noTransactionChange
  <1>2. TypeOK' /\ OnThread' /\ Apart' /\ Contained'
    BY ArriveTypes, ArriveContains DEF IInv
  <1>3. \A q \in Requests : q # r => pc'[q] = pc[q] /\ thread'[q] = thread[q]
    BY <1>1 DEF IInv, TypeOK
  <1>4. pc'[r] = "start" /\ thread'[r] = t
    BY <1>1 DEF IInv, TypeOK
  <1>5. IdleThreadsClear'
    <2>1. \A u \in Threads : Idle(u)' => Idle(u)
      BY <1>1, <1>3 DEF Idle, InFlight
    <2>. QED BY <1>1, <2>1 DEF IInv, IdleThreadsClear
  <1>6. FieldsAtHome'
    <2>. SUFFICES ASSUME NEW p \in Requests, NEW phase \in Phases, NEW c \in Controllers,
                         transactionStatus[c] = <<p, phase>>
                  PROVE  Route[p] = c /\ (p \in disturbed' => c \in spoilt')
      BY <1>1 DEF FieldsAtHome
    <2>1. Route[p] = c /\ (p \in disturbed => c \in spoilt)
      BY DEF IInv, FieldsAtHome
    <2>2. p \in Meeting(r, t) => Route[p] \in spoilt'
      BY Met DEF IInv
    <2>. QED BY <1>1, <2>1, <2>2, Met DEF IInv
  <1>7. \A q \in Requests : OnceEach(q)'
    BY <1>1, <1>3, <1>4 DEF IInv, OnceEach, Main
  <1>8. ASSUME NEW q \in Undisturbed', q # r
        PROVE  LocalOK(q)'
    <2>0. q \in Undisturbed
      BY <1>1, <1>8 DEF Undisturbed
    <2>1. /\ pc'[q] = pc[q] /\ thread'[q] = thread[q] /\ st' = st /\ joins' = joins
          /\ bound' = bound /\ errors' = errors /\ wroteIn' = wroteIn /\ answer' = answer
          /\ Field(q)' = Field(q)
      BY <1>1, <1>3, <1>8 DEF Field, Undisturbed
    <2>2. IsTransactionActive(q)' <=> IsTransactionActive(q)
      BY <2>1 DEF IsTransactionActive, TM!Open
    <2>3. /\ \A phase : Has(q, phase)' <=> Has(q, phase)
          /\ HasNone(q)' <=> HasNone(q)
      BY <2>1, <2>2 DEF Has, HasNone
    <2>4. HoldsByStep(q)'
      BY <2>0, <2>1, <2>3 DEF IInv, HoldsByStep, InMain
    <2>5. NoneElsewhere(q)' /\ FateByStep(q)'
      BY <2>0, <2>1 DEF IInv, NoneElsewhere, FateByStep, InFlight, Early, Main
    <2>. QED BY <2>4, <2>5 DEF LocalOK
  <1>9. ASSUME r \in Undisturbed'
        PROVE  LocalOK(r)'
    <2>0. r \in Undisturbed /\ r \notin Meeting(r, t)
      BY <1>1, <1>9, Met DEF Undisturbed, IInv
    <2>1. ~IsTransactionActive(r)
      <3>. SUFFICES ASSUME IsTransactionActive(r) PROVE FALSE
        OBVIOUS
      <3>1. Field(r) # NoTx /\ st[Field(r)] = "active"
        BY DEF IsTransactionActive, TM!Open
      <3>2. PICK p \in Requests, phase \in Phases : Field(r) = <<p, phase>>
        BY <3>1, RouteAssumption DEF IInv, TypeOK, Field, Statuses
      <3>3. Route[p] = Route[r] /\ (p \in disturbed => Route[r] \in spoilt)
        BY <3>2, RouteAssumption DEF IInv, FieldsAtHome, Field
      <3>4. p \in Undisturbed
        BY <2>0, <3>3, Met DEF IInv, Undisturbed
      <3>5. InFlight(p)
        BY <3>1, <3>2, <3>4 DEF IInv, NoneElsewhere
      <3>. QED BY <2>0, <3>3, <3>5, Met DEF IInv
    <2>2. bound[t] = NoTx
      BY <1>1, <2>0, Met DEF IInv, IdleThreadsClear
    <2>3. HasNone(r)'
      BY <1>1, <1>4, <2>1, <2>2 DEF HasNone, IsTransactionActive, TM!Open, Field
    <2>4. HoldsByStep(r)'
      BY <1>4, <2>3 DEF HoldsByStep, InMain
    <2>5. NoneElsewhere(r)'
      BY <1>1, <2>0 DEF IInv, NoneElsewhere, InFlight
    <2>6. FateByStep(r)'
      BY <1>1, <1>4, <2>0 DEF IInv, FateByStep, Early, Main
    <2>. QED BY <2>4, <2>5, <2>6 DEF LocalOK
  <1>. QED BY <1>2, <1>5, <1>6, <1>7, <1>8, <1>9 DEF IInv, LocalOK

\* After a restart nothing is in flight, bound or held in a field.
LEMMA RestartStep ==
  ASSUME IInv, Restart
  PROVE  IInv'
  <1>1. TypeOK'
    BY DEF IInv, Restart, TypeOK, InFlight, TM!LoseConnections, TM!TMTypeOK, TM!TxStates,
           Steps, Answers
  <1>2. \A r \in Requests : ~InFlight(r)'
    BY DEF IInv, TypeOK, Restart, InFlight
  <1>3. OnThread' /\ Apart' /\ Contained'
    <2>1. spoilt' = {} /\ disturbed' = disturbed /\ \A r \in Requests : pc[r] # "new" => pc'[r] # "new"
      BY DEF Restart, IInv, TypeOK
    <2>. QED BY <1>2, <2>1 DEF OnThread, Apart, Contained, IInv, TypeOK, Undisturbed
  <1>4. IdleThreadsClear' /\ FieldsAtHome'
    BY NoTxAssumption
       DEF IdleThreadsClear, FieldsAtHome, Restart, TM!LoseConnections, Statuses
  <1>5. ASSUME NEW r \in Requests
        PROVE  OnceEach(r)' /\ (r \in Undisturbed => LocalOK(r)')
    <2>1. /\ pc'[r] = IF InFlight(r) THEN "done" ELSE pc[r]
          /\ answer'[r] = IF InFlight(r) THEN "lost" ELSE answer[r]
          /\ errors' = errors /\ wroteIn' = wroteIn /\ joins' = joins
          /\ \A phase \in Phases :
               st'[<<r, phase>>] = IF st[<<r, phase>>] \in {"active", "stranded"}
                                   THEN "rolledback" ELSE st[<<r, phase>>]
      BY DEF Restart, TM!LoseConnections, Statuses
    <2>2. HoldsByStep(r)'
      BY <1>2 DEF HoldsByStep, InFlight, InMain
    <2>3. r \in Undisturbed => NoneElsewhere(r)'
      BY <2>1 DEF IInv, NoneElsewhere
    <2>4. OnceEach(r)'
      BY <2>1 DEF IInv, OnceEach, InFlight, Main, Phases
    <2>5. r \in Undisturbed => FateByStep(r)'
      BY <2>1 DEF IInv, FateByStep, InFlight, Early, Main, Phases
    <2>. QED BY <2>2, <2>3, <2>4, <2>5 DEF LocalOK
  <1>6. Undisturbed' = Undisturbed
    BY DEF Restart, Undisturbed
  <1>. QED BY <1>1, <1>3, <1>4, <1>5, <1>6 DEF IInv, LocalOK, Undisturbed

-----------------------------------------------------------------------------
(***************************************************************************)
(* The inductive invariant, whatever requests arrive and whenever.         *)
(***************************************************************************)
THEOREM Invariance == Spec => []IInv
  <1>1. Init => IInv
    BY NoTxAssumption
       DEF Init, IInv, TypeOK, OnThread, Apart, Contained, IdleThreadsClear, FieldsAtHome,
           HoldsByStep, NoneElsewhere, FateByStep, OnceEach, InFlight, TM!TMInit,
           TM!TMTypeOK, TM!TxStates, Steps, Answers, Early, InMain, Main, Statuses, Phases,
           Undisturbed
  <1>2. IInv /\ [Next]_vars => IInv'
    <2>. SUFFICES ASSUME IInv, [Next]_vars PROVE IInv'
      OBVIOUS
    <2>1. ASSUME NEW r \in Requests, NEW t \in Threads, Arrive(r, t)
          PROVE  IInv'
      BY <2>1, ArriveStep
    <2>2. ASSUME NEW r \in Requests, HandleRequest(r)
          PROVE  IInv'
      BY <2>2, HandleRequestStep
    <2>3. CASE Restart
      BY <2>3, RestartStep
    <2>4. CASE UNCHANGED vars
      <3>1. /\ TypeOK' /\ OnThread' /\ Apart' /\ Contained' /\ IdleThreadsClear'
            /\ FieldsAtHome'
        BY <2>4 DEF vars, reqVars, IInv, TypeOK, OnThread, Apart, Contained, IdleThreadsClear,
                    FieldsAtHome, InFlight, Idle, TM!TMTypeOK, Undisturbed
      <3>2. Undisturbed' = Undisturbed /\ \A r \in Requests : HoldsByStep(r)' <=> HoldsByStep(r)
        BY <2>4 DEF vars, reqVars, HoldsByStep, Has, HasNone, Field, IsTransactionActive,
                    TM!Open, InMain, Undisturbed
      <3>3. /\ \A r \in Requests : OnceEach(r)'
            /\ \A r \in Undisturbed : NoneElsewhere(r)' /\ FateByStep(r)'
        BY <2>4 DEF vars, reqVars, IInv, NoneElsewhere, FateByStep, OnceEach, InFlight, Early,
                    Main
      <3>. QED BY <3>1, <3>2, <3>3 DEF IInv, Undisturbed
    <2>. QED BY <2>1, <2>2, <2>3, <2>4 DEF Next
  <1>. QED BY <1>1, <1>2, PTL DEF Spec

(***************************************************************************)
(* What an undisturbed client is told is what happened to its data,        *)
(* however the requests to other controllers, or later ones, overlap.      *)
(***************************************************************************)
THEOREM AnswersAreTrue == Spec => []AnswerMatchesData
  <1>1. IInv => AnswerMatchesData
    <2>. SUFFICES ASSUME IInv, NEW r \in Undisturbed
                  PROVE  /\ answer[r] = "view" /\ wroteIn[r] # NoTx => Kept(r)
                         /\ answer[r] = "form" => ~Kept(r)
                         /\ Kept(r) => ~errors[r] /\ pc[r] \notin InMain
      BY DEF AnswerMatchesData
    <2>1. FateByStep(r) /\ HoldsByStep(r) /\ joins[Main(r)] = NoTx /\ r \in Requests
      BY DEF IInv, NoneElsewhere, Main, Phases, Undisturbed
    <2>2. Kept(r) <=> wroteIn[r] = Main(r) /\ st[Main(r)] = "committed"
      BY <2>1, StatusPairs DEF Kept, TM!Durable, FateByStep, Main
    <2>3. pc[r] \in InMain => st[Main(r)] = "active"
      BY <2>1 DEF HoldsByStep, Has, Main
    <2>. QED BY <2>1, <2>2, <2>3, StatusPairs DEF FateByStep, Main
  <1>. QED BY <1>1, Invariance, PTL

(***************************************************************************)
(* No thread goes idle with a transaction bound to it, and no connection   *)
(* is held by anybody but a request in flight, except where disturbed      *)
(* requests have been.                                                     *)
(***************************************************************************)
THEOREM NothingLeaks == Spec => []NoTransactionLeak
  <1>1. IInv => NoTransactionLeak
    BY DEF IInv, NoTransactionLeak, IdleThreadsClear, NoneElsewhere, TM!HoldsConnection,
           Statuses
  <1>. QED BY <1>1, Invariance, PTL

(***************************************************************************)
(* onSuccess and onFailure of an undisturbed request run in transactions   *)
(* of their own.                                                           *)
(***************************************************************************)
THEOREM FollowUpsAreFresh == Spec => []FreshFollowUp
  <1>1. IInv => FreshFollowUp
    <2>. SUFFICES ASSUME IInv, NEW r \in Undisturbed
                  PROVE  /\ pc[r] \in {"notify", "finish"} => bound[thread[r]] = <<r, "after">>
                         /\ pc[r] = "report" => bound[thread[r]] = <<r, "oops">>
                         /\ pc[r] \in {"notify", "finish", "report"} => st[<<r, "main">>] # "active"
      BY DEF FreshFollowUp
    <2>1. HoldsByStep(r) /\ NoneElsewhere(r)
      BY DEF IInv
    <2>2. st[<<r, "main">>] = "active" => bound[thread[r]] = <<r, "main">>
      BY <2>1 DEF NoneElsewhere, Phases
    <2>. QED BY <2>1, <2>2 DEF HoldsByStep, Has
  <1>. QED BY <1>1, Invariance, PTL

(***************************************************************************)
(* The assertions of commitTransaction and rollbackTransaction hold in     *)
(* undisturbed requests.                                                   *)
(***************************************************************************)
THEOREM AssertsHold == Spec => []AssertionsHold
  <1>1. IInv => AssertionsHold
    <2>. SUFFICES ASSUME IInv, NEW r \in Undisturbed, pc[r] \in {"built", "finish", "report"}
                  PROVE  IsTransactionActive(r)
      BY DEF AssertionsHold
    <2>1. (Has(r, "main") \/ Has(r, "after") \/ Has(r, "oops")) /\ r \in Requests
      BY DEF IInv, HoldsByStep, InMain, Undisturbed
    <2>. QED BY <2>1, StatusPairs DEF Has, IsTransactionActive, TM!Open
  <1>. QED BY <1>1, Invariance, PTL

-----------------------------------------------------------------------------
(***************************************************************************)
(* Whose transactions a step of request r may end: what it finds in the    *)
(* field of its controller is its own, or both are disturbed.              *)
(***************************************************************************)
LEMMA EndsOthers ==
  ASSUME IInv, NEW r \in Requests, HandleRequest(r), NEW q \in Requests, q # r,
         NEW phase \in Phases, st'[<<q, phase>>] # st[<<q, phase>>]
  PROVE  st[<<q, phase>>] = "active" /\ {q, r} \subseteq disturbed
  <1>1. Frame(r) /\ InFlight(r)
    BY StepFrame, Locality DEF IInv
  <1>2. Field(r) = <<q, phase>> /\ st[<<q, phase>>] = "active"
    BY <1>1 DEF Frame
  <1>3. Route[q] = Route[r] /\ (q \in disturbed => Route[r] \in spoilt)
    BY <1>2, RouteAssumption DEF IInv, FieldsAtHome, Field
  <1>4. r \notin disturbed => Route[r] \notin spoilt
    BY <1>1 DEF IInv, Contained, Undisturbed
  <1>5. q \notin disturbed => InFlight(q)
    BY <1>2 DEF IInv, NoneElsewhere, Undisturbed
  <1>. QED BY <1>1, <1>2, <1>3, <1>4, <1>5 DEF IInv, Apart

(***************************************************************************)
(* No request ends a transaction that another began, unless both came      *)
(* across others at their controller.                                      *)
(***************************************************************************)
THEOREM OwnTransactions == Spec => OwnTransactionsOnly
  <1>. DEFINE Own == \A x \in Statuses : st[x] = "active" /\ st'[x] # "active" => EndsOwn(x)
  <1>1. IInv /\ [Next]_vars => [Own]_vars
    <2>. SUFFICES ASSUME IInv, Next, NEW q \in Requests, NEW phase \in Phases,
                         st[<<q, phase>>] = "active", st'[<<q, phase>>] # "active"
                  PROVE  \/ pc'[q] # pc[q]
                         \/ /\ q \in disturbed
                            /\ \A p \in Undisturbed : pc'[p] # pc[p] => answer'[p] = "lost"
      BY DEF Statuses, EndsOwn
    <2>1. ASSUME NEW r \in Requests, NEW t \in Threads, Arrive(r, t)
          PROVE  FALSE
      BY <2>1 DEF Arrive, noTransactionChange
    <2>2. ASSUME NEW r \in Requests, HandleRequest(r)
          PROVE  \/ pc'[q] # pc[q]
                 \/ /\ q \in disturbed
                    /\ \A p \in Undisturbed : pc'[p] # pc[p] => answer'[p] = "lost"
      <3>1. pc'[r] # pc[r] /\ \A p \in Requests : p # r => pc'[p] = pc[p]
        BY <2>2, Locality DEF IInv
      <3>2. q = r \/ {q, r} \subseteq disturbed
        BY <2>2, EndsOthers
      <3>. QED BY <3>1, <3>2 DEF Undisturbed
    <2>3. CASE Restart
      <3>1. q \notin disturbed => InFlight(q)
        BY DEF IInv, NoneElsewhere, Undisturbed
      <3>. QED BY <2>3, <3>1 DEF Restart, InFlight, IInv, TypeOK, Undisturbed
    <2>. QED BY <2>1, <2>2, <2>3 DEF Next
  <1>. QED BY <1>1, Invariance, PTL DEF Spec, OwnTransactionsOnly

-----------------------------------------------------------------------------
\* A step answers its own request, at most, and that once.
LEMMA AnsweredOnce ==
  ASSUME IInv, NEW r \in Requests, HandleRequest(r)
  PROVE  /\ answer[r] = "none"
         /\ \/ answer' = answer
            \/ \E a \in {"view", "form", "panic", "error"} : answer' = [answer EXCEPT ![r] = a]
  <1>1. answer[r] = "none"
    BY Locality DEF IInv, TypeOK, OnceEach, InFlight, Answers
  <1>. USE DEF Answer, reqVars
  <1>2. CASE Start(r) \/ Prepare(r) \/ Serve(r) \/ NextId(r) \/ Saved(r) \/ Notify(r)
    BY <1>1, <1>2 DEF Start, Prepare, Serve, ServeThrows, NextId, Saved, Notify
  <1>3. CASE Conclude(r) \/ Reopen(r) \/ Finish(r)
    BY <1>1, <1>3 DEF Conclude, Reopen, Finish
  <1>4. CASE Catch(r) \/ Recover(r) \/ Report(r)
    BY <1>1, <1>4 DEF Catch, Recover, Report
  <1>. QED BY <1>2, <1>3, <1>4 DEF HandleRequest

(***************************************************************************)
(* Refinement.  What a step of an undisturbed request does to its effect   *)
(* and to the reply.                                                       *)
(***************************************************************************)
Replied(r, a) ==
  /\ answer[r] = "none" /\ answer' = [answer EXCEPT ![r] = a]
  /\ \/ a = "view" /\ Effect(r) = "kept" /\ Effect(r)' = "kept"
     \/ a = "form" /\ Effect(r) = "undone" /\ Effect(r)' = "undone"
     \/ /\ a \in {"panic", "error", "lost"}
        /\ Effect(r)' = IF Effect(r) = "pending" THEN "undone" ELSE Effect(r)

Settled(r) ==
  /\ Effect(r) = "pending" /\ Effect(r)' \in {"kept", "undone"}
  /\ answer[r] = "none" /\ answer' = answer

LEMMA EffectStep ==
  ASSUME IInv, NEW r \in Requests, r \in Undisturbed, HandleRequest(r)
  PROVE  \/ Effect(r)' = Effect(r) /\ answer' = answer
         \/ Settled(r)
         \/ \E a \in Answers : Replied(r, a)
  <1>1. /\ InFlight(r) /\ answer[r] = "none" /\ LocalOK(r) /\ LocalOK(r)'
        /\ joins[Main(r)] = NoTx /\ joins'[Main(r)] = NoTx /\ Main(r) # NoTx
    <2>1. LocalOK(r)' /\ LocalOK(r)
      BY HandleRequestStep, Locality DEF IInv, LocalOK, Undisturbed
    <2>2. InFlight(r) /\ answer[r] = "none"
      BY AnsweredOnce, Locality DEF IInv
    <2>. QED
      BY <2>1, <2>2, StatusPairs
         DEF LocalOK, NoneElsewhere, FateByStep, Main, Phases, InFlight
  <1>2. /\ Effect(r) = IF st[Main(r)] = "committed" THEN "kept"
                       ELSE IF pc[r] = "start" \/ st[Main(r)] = "active" THEN "pending"
                       ELSE "undone"
        /\ Effect(r)' = IF st'[Main(r)] = "committed" THEN "kept"
                        ELSE IF st'[Main(r)] = "active" THEN "pending"
                        ELSE "undone"
    <2>1. pc'[r] \notin {"new", "start"}
      BY Locality DEF IInv
    <2>. QED BY <1>1, <2>1 DEF Effect, TM!Durable, Main, InFlight
  <1>3. CASE Prepare(r) \/ Serve(r) \/ NextId(r) \/ Saved(r) \/ Notify(r)
    <2>1. st' = st /\ answer' = answer /\ pc[r] # "start"
      BY <1>3 DEF Prepare, Serve, NextId, Saved, Notify, DoGet, DoPost, ServeThrows,
                  TM!MarkRollbackOnly,
                  noTransactionChange, reqVars
    <2>. QED BY <1>2, <2>1
  <1>4. CASE Start(r)
    <2>1. answer' = answer /\ st[Main(r)] = "none"
      BY <1>1, <1>4 DEF Start, reqVars, IInv, OnceEach
    <2>2. st'[Main(r)] \in {"active", "none"}
      BY <1>4, <2>1, StatusPairs
         DEF Start, StartTransaction, StartTransactionThrows, TM!Begin, TM!BeginFails, Main,
             IInv, TypeOK, TM!TMTypeOK
    <2>. QED BY <1>1, <1>2, <1>4, <2>1, <2>2 DEF Start, Settled
  <1>5. CASE Reopen(r) \/ Recover(r)
    <2>1. st'[Main(r)] = st[Main(r)]
      BY <1>5, StatusPairs
         DEF Reopen, Recover, StartTransaction, StartTransactionThrows, TM!Begin,
             TM!BeginFails, Main, IInv, TypeOK, TM!TMTypeOK, noTransactionChange
    <2>2. pc[r] # "start" /\ st[Main(r)] # "active"
      BY <1>1, <1>5, StatusPairs
         DEF Reopen, Recover, LocalOK, HoldsByStep, HasNone, NoneElsewhere, Main, Phases
    <2>3. answer' = answer \/ \E a \in {"panic", "error"} : answer' = [answer EXCEPT ![r] = a]
      BY <1>5 DEF Reopen, Recover, Answer, reqVars
    <2>. QED BY <1>1, <1>2, <2>1, <2>2, <2>3 DEF Replied, Answers
  <1>6. CASE Conclude(r) \/ Catch(r)
    <2>1. pc[r] # "start" /\ (answer' = answer \/ answer' = [answer EXCEPT ![r] = "error"])
      BY <1>6 DEF Conclude, BuildRequestedViewThrows, Catch, Answer, reqVars
    <2>2. CASE noTransactionChange /\ answer' = answer
      BY <1>2, <2>1, <2>2 DEF noTransactionChange
    <2>3. ASSUME NEW phase \in Phases, Has(r, phase), NEW outcome \in {"committed", "rolledback"},
                 st' = [st EXCEPT ![<<r, phase>>] = outcome],
                 outcome = "committed" => answer' = answer
          PROVE  \/ Effect(r)' = Effect(r) /\ answer' = answer
                 \/ Settled(r)
                 \/ Replied(r, "error")
      <3>1. CASE phase = "main"
        <4>1. st[Main(r)] = "active" /\ st'[Main(r)] = outcome
          BY <2>3, <3>1, StatusPairs DEF Has, Main, IInv, TypeOK, TM!TMTypeOK
        <4>. QED BY <1>1, <1>2, <2>1, <2>3, <4>1 DEF Settled, Replied
      <3>2. CASE phase # "main"
        <4>1. st'[Main(r)] = st[Main(r)]
          BY <2>3, <3>2, StatusPairs DEF Main, IInv, TypeOK, TM!TMTypeOK, Statuses
        <4>2. st[Main(r)] # "active"
          BY <1>1, <2>3, <3>2 DEF LocalOK, NoneElsewhere, Has, Main, Phases
        <4>. QED BY <1>1, <1>2, <2>1, <4>1, <4>2 DEF Replied
      <3>. QED BY <3>1, <3>2
    <2>4. ASSUME NEW phase \in Phases, Has(r, phase),
                 (CommitTransaction(r) /\ answer' = answer) \/ Undoing(r)
          PROVE  \E outcome \in {"committed", "rolledback"} :
                   /\ st' = [st EXCEPT ![<<r, phase>>] = outcome]
                   /\ outcome = "committed" => answer' = answer
      <3>1. /\ CommitTransaction(r) => st' = [st EXCEPT ![<<r, phase>>] = "committed"]
            /\ Undoing(r) => st' = [st EXCEPT ![<<r, phase>>] = "rolledback"]
        BY <1>1, <2>4, CloseOwn DEF LocalOK, IInv
      <3>. QED BY <2>4, <3>1
    <2>5. \/ noTransactionChange /\ answer' = answer
          \/ /\ (CommitTransaction(r) /\ answer' = answer) \/ Undoing(r)
             /\ Has(r, "main") \/ Has(r, "after")
      BY <1>1, <1>6 DEF Conclude, BuildRequestedViewThrows, Catch, Answer, reqVars, Undoing, LocalOK, HoldsByStep,
                        InMain, HasNone
    <2>6. {"main", "after"} \subseteq Phases /\ "error" \in Answers
      BY DEF Phases, Answers
    <2>. QED BY <2>2, <2>3, <2>4, <2>5, <2>6
  <1>7. CASE Finish(r) \/ Report(r)
    <2>1. PICK phase \in {"after", "oops"} : Has(r, phase)
      BY <1>1, <1>7 DEF Finish, Report, LocalOK, HoldsByStep
    <2>2. phase \in Phases /\ phase # "main" /\ (CommitTransaction(r) \/ Undoing(r))
      BY <1>7 DEF Finish, Report, Phases, Undoing
    <2>3. \E outcome : st' = [st EXCEPT ![<<r, phase>>] = outcome]
      BY <1>1, <2>1, <2>2, CloseOwn DEF LocalOK, IInv
    <2>4. st'[Main(r)] = st[Main(r)] /\ st[Main(r)] # "active"
      <3>1. st'[Main(r)] = st[Main(r)]
        BY <2>2, <2>3, StatusPairs DEF Main, IInv, TypeOK, TM!TMTypeOK
      <3>2. st[Main(r)] # "active"
        BY <1>1, <2>1 DEF LocalOK, NoneElsewhere, Has, Main, Phases
      <3>. QED BY <3>1, <3>2
    <2>5. CASE Finish(r)
      <3>1. st[Main(r)] = IF errors[r] THEN "rolledback" ELSE "committed"
        BY <1>1, <2>5 DEF Finish, LocalOK, FateByStep
      <3>2. \/ answer' = answer
            \/ answer' = [answer EXCEPT ![r] = IF errors[r] THEN "form" ELSE "view"]
        BY <2>5 DEF Finish, Answer, reqVars
      <3>3. pc[r] # "start"
        BY <2>5 DEF Finish
      <3>. QED BY <1>1, <1>2, <2>4, <3>1, <3>2, <3>3 DEF Replied, Answers
    <2>6. CASE Report(r)
      <3>1. pc[r] # "start" /\ \E a \in {"panic", "error"} : answer' = [answer EXCEPT ![r] = a]
        BY <2>6 DEF Report, Answer
      <3>. QED BY <1>1, <1>2, <2>4, <3>1 DEF Replied, Answers
    <2>. QED BY <1>7, <2>5, <2>6
  <1>. QED BY <1>3, <1>4, <1>5, <1>6, <1>7 DEF HandleRequest

(***************************************************************************)
(* What a step of any request does to the effects: it settles its own, or, *)
(* when it is disturbed, that of another such.                             *)
(***************************************************************************)
LEMMA EffectsSettleOnce ==
  ASSUME IInv, NEW r \in Requests, HandleRequest(r), NEW q \in Requests,
         Effect(q)' # Effect(q)
  PROVE  Effect(q) = "pending" /\ (q = r \/ {q, r} \subseteq disturbed)
  <1>1. CASE q # r
    <2>1. pc'[q] = pc[q] /\ joins'[Main(q)] = joins[Main(q)]
      BY <1>1, StepFrame DEF Frame, IInv, Main, Phases
    <2>2. st'[Main(q)] # st[Main(q)]
      BY <2>1 DEF Effect, Main, TM!Durable
    <2>3. st[Main(q)] = "active" /\ {q, r} \subseteq disturbed
      BY <1>1, <2>2, EndsOthers DEF Main, Phases
    <2>. QED BY <2>3 DEF Effect, Main, TM!Durable
  <1>2. CASE q = r
    <2>1. pc'[r] \notin {"new", "start"} /\ InFlight(r) /\ Main(r) \in Statuses
      BY Locality, StatusPairs DEF IInv, Main
    <2>2. CASE pc[r] = "start"
      BY <1>2, <2>2 DEF IInv, OnceEach, Effect, Main, TM!Durable
    <2>3. CASE pc[r] # "start"
      <3>1. /\ st[Main(r)] # "active" => st'[Main(r)] = st[Main(r)]
            /\ joins'[Main(r)] = joins[Main(r)]
        <4>1. CASE UNCHANGED <<st, joins, bound, transactionStatus>>
          BY <4>1
        <4>2. ASSUME NEW phase \in Phases, StartTransaction(r, phase), phase # "main"
              PROVE  st'[Main(r)] = st[Main(r)] /\ joins'[Main(r)] = joins[Main(r)]
          <5>1. <<r, phase>> # Main(r) /\ <<r, phase>> \in Statuses
            BY <4>2 DEF Main, Statuses
          <5>. QED BY <2>1, <4>2, <5>1
               DEF StartTransaction, TM!Begin, IInv, TypeOK, TM!TMTypeOK
        <4>3. CASE Closing(r)
          BY <2>1, <4>3
             DEF Closing, CommitTransaction, CommitTransactionThrows, RollbackTransaction,
                 RollbackTransactionThrows, TM!Commit, TM!CommitFails, TM!Rollback,
                 TM!RollbackFails, TM!Complete, TM!Open, IInv, TypeOK, TM!TMTypeOK
        <4>. QED BY <2>3, <4>1, <4>2, <4>3, StepCalls
      <3>. QED BY <1>2, <2>1, <2>3, <3>1 DEF Effect, Main, TM!Durable, InFlight
    <2>. QED BY <1>2, <2>2, <2>3
  <1>. QED BY <1>1, <1>2

\* Nobody is disturbed alone.
LEMMA MetInCompany ==
  ASSUME IInv, NEW r \in Requests, NEW t \in Threads, Arrive(r, t),
         NEW m \in Meeting(r, t)
  PROVE  answer[m] = "none" /\ disturbed' # {m}
  <1>1. TypeOK /\ Contained /\ r \notin disturbed
    BY Met DEF IInv, Contained
  <1>2. m \in Requests /\ pc[m] # "done" /\ r \in Meeting(r, t)
    BY <1>1, Met DEF InFlight
  <1>3. answer[m] = "none"
    BY <1>2 DEF IInv, OnceEach
  <1>4. CASE \E q \in Requests : InFlight(q) /\ Route[q] = Route[r]
    <2>1. PICK q \in Requests : InFlight(q) /\ Route[q] = Route[r]
      BY <1>4
    <2>2. q # r /\ {q, r} \subseteq disturbed'
      BY <1>1, <2>1, Met DEF InFlight
    <2>. QED BY <1>3, <2>2
  <1>5. CASE ~\E q \in Requests : InFlight(q) /\ Route[q] = Route[r]
    <2>1. spoilt # {}
      BY <1>2, <1>5 DEF Meeting
    <2>2. PICK d \in disturbed : TRUE
      BY <1>1, <2>1 DEF Contained
    <2>3. d # r /\ {d, r} \subseteq disturbed'
      BY <1>1, <1>2, <2>2, Met
    <2>. QED BY <1>3, <2>3
  <1>. QED BY <1>4, <1>5

(***************************************************************************)
(* The controllers carry out every request as its contract says, however   *)
(* many arrive, overlap, fail or are lost.                                 *)
(***************************************************************************)
THEOREM Refinement == Spec => ImplementsContract
  <1>. DEFINE effects == [r \in Requests |-> Effect(r)]
  <1>1. Init => Contract!ContractInit
    <2>. SUFFICES ASSUME Init PROVE Contract!ContractInit
      OBVIOUS
    <2>1. \A r \in Requests : Effect(r) = "pending"
      BY StatusPairs DEF Init, TM!TMInit, Effect, TM!Durable
    <2>. QED BY <2>1 DEF Init, Contract!ContractInit
  <1>2. IInv /\ [Next]_vars => [Contract!ContractNext]_(Contract!contractVars)
    <2>. SUFFICES ASSUME IInv, [Next]_vars
                  PROVE  \/ Contract!ContractNext
                         \/ effects' = effects /\ answer' = answer /\ disturbed' = disturbed
      BY DEF Contract!contractVars
    <2>1. ASSUME NEW r \in Requests, HandleRequest(r)
          PROVE  Contract!ContractNext
      <3>1. Contract!Settles(r)
        <4>1. effects' \in [Requests -> Contract!Effects]
          BY DEF Effect, Contract!Effects
        <4>. QED BY <2>1, <4>1, EffectsSettleOnce DEF Contract!Settles
      <3>2. answer[r] = "none" /\ disturbed' = disturbed
        BY <2>1, AnsweredOnce, Locality DEF IInv
      <3>3. CASE answer' = answer
        BY <3>1, <3>2, <3>3 DEF Contract!Work, Contract!ContractNext
      <3>4. ASSUME NEW a \in {"view", "form", "panic", "error"},
                   answer' = [answer EXCEPT ![r] = a]
            PROVE  Contract!ContractNext
        <4>1. answer'[r] = a /\ answer'[r] # answer[r]
          BY <3>2, <3>4 DEF IInv, TypeOK
        <4>2. r \notin disturbed =>
                /\ Effect(r)' # "pending"
                /\ a = "view" => Effect(r) = "kept"
                /\ a = "form" => Effect(r) = "undone"
          <5>. SUFFICES ASSUME r \in Undisturbed
                        PROVE  /\ Effect(r)' # "pending"
                               /\ a = "view" => Effect(r) = "kept"
                               /\ a = "form" => Effect(r) = "undone"
            BY DEF Undisturbed
          <5>1. PICK b \in Answers : Replied(r, b)
            BY <2>1, <4>1, EffectStep DEF Settled
          <5>2. a = b
            BY <4>1, <5>1 DEF Replied, IInv, TypeOK
          <5>. QED BY <5>1, <5>2 DEF Replied, Effect
        <4>3. Contract!Reply(r, a)
          BY <3>1, <3>2, <3>4, <4>2 DEF Contract!Reply
        <4>. QED BY <4>3 DEF Contract!ContractNext, Contract!Uninformative
      <3>. QED BY <2>1, <3>3, <3>4, AnsweredOnce
    <2>2. ASSUME NEW r \in Requests, NEW t \in Threads, Arrive(r, t)
          PROVE  Contract!ContractNext
      <3>1. \A q \in Requests : Effect(q)' = Effect(q)
        BY <2>2 DEF Arrive, Goto, noTransactionChange, Effect, TM!Durable, IInv, TypeOK
      <3>2. Contract!Meet(Meeting(r, t))
        BY <2>2, <3>1, MetInCompany DEF Contract!Meet, Arrive
      <3>3. Meeting(r, t) \subseteq Requests
        BY <2>2, Met DEF IInv
      <3>. QED BY <3>2, <3>3 DEF Contract!ContractNext
    <2>3. CASE Restart
      <3>. DEFINE accepted == {r \in Requests : InFlight(r)}
      <3>1. \A r \in accepted : answer[r] = "none"
        BY DEF IInv, OnceEach, InFlight
      <3>2. answer' = [r \in Requests |-> IF r \in accepted THEN "lost" ELSE answer[r]]
        BY <2>3 DEF Restart
      <3>3. \A r \in Requests :
              Effect(r)' = IF r \in accepted \union disturbed /\ Effect(r) = "pending"
                           THEN "undone" ELSE Effect(r)
        <4>. SUFFICES ASSUME NEW r \in Requests
                      PROVE  Effect(r)' = IF /\ InFlight(r) \/ r \in disturbed
                                             /\ Effect(r) = "pending"
                                          THEN "undone" ELSE Effect(r)
          OBVIOUS
        <4>1. /\ pc'[r] = (IF InFlight(r) THEN "done" ELSE pc[r]) /\ joins' = joins
              /\ st'[Main(r)] = IF st[Main(r)] \in {"active", "stranded"}
                                THEN "rolledback" ELSE st[Main(r)]
          BY <2>3, StatusPairs DEF Restart, TM!LoseConnections, Main
        <4>2. st[Main(r)] = "active" => InFlight(r) \/ r \in disturbed
          BY DEF IInv, NoneElsewhere, Main, Phases, Undisturbed
        <4>3. /\ r \in disturbed => pc[r] # "new"
              /\ pc[r] \in {"new", "start"} => st[Main(r)] = "none"
          BY DEF IInv, Contained, OnceEach
        <4>. QED BY <4>1, <4>2, <4>3 DEF Effect, TM!Durable, Main, InFlight
      <3>4. Contract!Drop(accepted)
        BY <2>3, <3>1, <3>2, <3>3 DEF Contract!Drop, Restart
      <3>. QED BY <3>4 DEF Contract!ContractNext
    <2>4. CASE UNCHANGED vars
      BY <2>4 DEF vars, reqVars, Effect, TM!Durable
    <2>. QED BY <2>1, <2>2, <2>3, <2>4 DEF Next
  <1>. QED BY <1>1, <1>2, Invariance, PTL DEF Spec, ImplementsContract, Contract!ContractSpec

=============================================================================
