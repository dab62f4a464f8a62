\* Two of three requests: one after another or overlapping on one controller,
\* or at the same time on two.
SPECIFICATION FairSpec
CONSTANTS
  r1 = r1  r2 = r2  r3 = r3  c1 = c1  c2 = c2  t1 = t1  t2 = t2
  Requests = {r1, r2, r3}
  Controllers = {c1, c2}
  Threads = {t1, t2}
  Route <- TwoControllers
  MaxArrivals = 2
  NoTx = NoTx
  NoThread = NoThread
  PoolSize = 2
INVARIANTS IInv AnswerMatchesData FreshFollowUp AssertionsHold NoTransactionLeak
PROPERTIES ImplementsContract OwnTransactionsOnly EveryRequestIsAnswered
\* The requests of the instance may all have been served.
CHECK_DEADLOCK FALSE
