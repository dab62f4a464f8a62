---------------------------- MODULE MessageThreads ----------------------------
(***************************************************************************)
(* Threads of messages and those who take part in them (features           *)
(* authenticated/message_thread, message_thread_user_account, message).    *)
(*                                                                         *)
(* A participation is a row of its own, linked to a thread and to a user   *)
(* account; nothing stops two rows for the same pair, and adding one does  *)
(* not touch the row of the thread.  Users reach every form through pages  *)
(* that were authorised when they were shown; a POST looks again, in the   *)
(* snapshot that its transaction has taken, and writes when it commits.    *)
(***************************************************************************)
EXTENDS FiniteSets, Naturals

CONSTANTS
  Users, Threads,
  Rows,         \* the identifiers of participations, each given once
  Tabs,         \* the browser tabs
  MaxMessages,  \* the bound on the messages of a thread
  None

ASSUME NoneAssumption == None \notin Users \union Threads \union Rows \union (Threads \X Users)
ASSUME MaxMessagesAssumption == MaxMessages \in Nat

VARIABLES
  threads,   \* the threads that exist
  rows,      \* the participations in the database
  of,        \* of[r]: the thread and the user of every row ever inserted
  knew,      \* knew[r]: the rows of the thread that the form for r was made of
  messages,  \* how many messages each thread has
  user,      \* the user of each tab
  page,      \* what each tab shows
  request    \* the POST that each tab waits for

vars == <<threads, rows, of, knew, messages, user, page, request>>

Forms == {"invite", "row", "post"}

Pages == [at : {"mine", "thread", "users", "messages"} \union Forms,
          thread : Threads \union {None}, row : Rows \union {None},
          seen : SUBSET Rows]
Requests == [sent : BOOLEAN, guest : Users \union {None}]

Home == [at |-> "mine", thread |-> None, row |-> None, seen |-> {}]
NoRequest == [sent |-> FALSE, guest |-> None]

TypeOK ==
  /\ threads \in SUBSET Threads /\ rows \in SUBSET Rows
  /\ of \in [Rows -> (Threads \X Users) \union {None}]
  /\ knew \in [Rows -> SUBSET Rows]
  /\ messages \in [Threads -> 0 .. MaxMessages]
  /\ user \in [Tabs -> Users]
  /\ page \in [Tabs -> Pages]
  /\ request \in [Tabs -> Requests]

-----------------------------------------------------------------------------
\* messageThread.getMessageThreadsOfUserAccount(), of the rows R
RowsOf(R, t) == {r \in R : of[r][1] = t}
Participants(R, t) == {of[r][2] : r \in RowsOf(R, t)}

\* Mutants of Admits: no authorisation; of Founded: the thread alone is saved.
AdmitsAnybody(u, t, R) == TRUE
FoundedAlone(u, t, r) == threads' = threads \union {t} /\ UNCHANGED <<rows, of, knew>>

\* authorise of all that is done inside a thread
Admits(u, t, R) == u \in Participants(R, t)

Insert(r, t, u, seen) ==
  /\ of[r] = None
  /\ rows' = rows \union {r}
  /\ of' = [of EXCEPT ![r] = <<t, u>>]
  /\ knew' = [knew EXCEPT ![r] = seen]

Founded(u, t, r) ==
  /\ threads' = threads \union {t}
  /\ Insert(r, t, u, {})

\* A new thread and the participation of whoever creates it, in one transaction.
CreateThread(b) ==
  \E t \in Threads \ threads, r \in Rows :
    /\ of[r] = None /\ ~request[b].sent
    /\ Founded(user[b], t, r)
    /\ UNCHANGED <<messages, user, page, request>>

-----------------------------------------------------------------------------
(***************************************************************************)
(* The pages.  A tab that waits for an answer is not used meanwhile; one   *)
(* whose page is refused shows a panic page, and its user goes home.       *)
(***************************************************************************)
Show(b, p) ==
  /\ ~request[b].sent
  /\ page' = [page EXCEPT ![b] = p]
  /\ UNCHANGED <<threads, rows, of, knew, messages, user, request>>

ListMine(b) == Show(b, [Home EXCEPT !.seen = {r \in rows : of[r][2] = user[b]}])

\* A page inside thread t, with the rows of the thread that it is made of.
Inside(b, t, at, r) ==
  /\ Admits(user[b], t, rows)
  /\ Show(b, [at |-> at, thread |-> t, row |-> r, seen |-> RowsOf(rows, t)])

ShowThread(b) ==
  \E r \in page[b].seen : page[b].at = "mine" /\ Inside(b, of[r][1], "thread", None)

ListIn(b, at) == page[b].at = "thread" /\ Inside(b, page[b].thread, at, None)

ShowRow(b) ==
  \E r \in page[b].seen \intersect rows :
    page[b].at = "users" /\ Inside(b, page[b].thread, "row", r)

\* A mutant of Offered: every user is offered.
OfferedEverybody(p) == Users

\* usersToAdd: the users that the form offers to add
Offered(p) == Users \ Participants(p.seen, p.thread)

\* The button is there unless all users were participants (allUsersAdded).
InviteForm(b) ==
  /\ page[b].at = "thread" /\ Offered(page[b]) # {}
  /\ Inside(b, page[b].thread, "invite", None)

PostForm(b) == page[b].at = "thread" /\ Inside(b, page[b].thread, "post", None)

-----------------------------------------------------------------------------
\* A POST takes its snapshot and is authorised by it.
Begin(b, guest) ==
  /\ ~request[b].sent
  /\ request' = [request EXCEPT ![b] = [sent |-> TRUE, guest |-> guest]]
  /\ UNCHANGED <<threads, rows, of, knew, messages, user, page>>

BeginInvite(b) ==
  /\ page[b].at = "invite"
  /\ Admits(user[b], page[b].thread, rows)
  /\ \E u \in Offered(page[b]) : Begin(b, u)

BeginPost(b) ==
  /\ page[b].at = "post"
  /\ Admits(user[b], page[b].thread, rows)
  /\ Begin(b, None)

\* Anybody is authorised; the row must be found.
BeginRemove(b) == page[b].at = "row" /\ page[b].row \in rows /\ Begin(b, None)

Answered(b) == request' = [request EXCEPT ![b] = NoRequest] /\ UNCHANGED <<user, page>>

\* The page stays in the history of the tab: it may be sent again.
Invite(b) ==
  /\ request[b].sent /\ page[b].at = "invite"
  /\ \E r \in Rows : Insert(r, page[b].thread, request[b].guest, page[b].seen)
  /\ Answered(b)
  /\ UNCHANGED <<threads, messages>>

\* The deletion is flushed by identifier and version: the row must be there still.
Remove(b) ==
  /\ request[b].sent /\ page[b].at = "row"
  /\ page[b].row \in rows
  /\ rows' = rows \ {page[b].row}
  /\ Answered(b)
  /\ UNCHANGED <<threads, of, knew, messages>>

Post(b) ==
  /\ request[b].sent /\ page[b].at = "post"
  /\ messages[page[b].thread] < MaxMessages
  /\ messages' = [messages EXCEPT ![page[b].thread] = @ + 1]
  /\ Answered(b)
  /\ UNCHANGED <<threads, rows, of, knew>>

\* Not confirmed, spam, a failure: nothing is written and the form may be sent again.
Refused(b) == request[b].sent /\ Answered(b) /\ UNCHANGED <<threads, rows, of, knew, messages>>

Init ==
  /\ threads = {} /\ rows = {}
  /\ of = [r \in Rows |-> None]
  /\ knew = [r \in Rows |-> {}]
  /\ messages = [t \in Threads |-> 0]
  /\ user \in [Tabs -> Users]
  /\ page = [b \in Tabs |-> Home]
  /\ request = [b \in Tabs |-> NoRequest]

Next ==
  \E b \in Tabs :
    \/ CreateThread(b)
    \/ ListMine(b) \/ ShowThread(b) \/ ListIn(b, "users") \/ ListIn(b, "messages")
    \/ ShowRow(b) \/ InviteForm(b) \/ PostForm(b)
    \/ BeginInvite(b) \/ BeginPost(b) \/ BeginRemove(b)
    \/ Invite(b) \/ Remove(b) \/ Post(b) \/ Refused(b)

Spec == Init /\ [][Next]_vars

-----------------------------------------------------------------------------
Spent == {r \in Rows : of[r] # None}

PageMade(b) ==
  /\ page[b].seen \subseteq Spent
  /\ page[b].at = "mine" => \A r \in page[b].seen : of[r][2] = user[b]
  /\ page[b].at # "mine" =>
       /\ page[b].thread \in threads
       /\ \A r \in page[b].seen : of[r][1] = page[b].thread
       /\ Admits(user[b], page[b].thread, page[b].seen)
  /\ page[b].at = "row" => page[b].row \in page[b].seen

RequestMade(b) ==
  request[b].sent =>
    /\ page[b].at \in Forms
    /\ page[b].at = "invite" => request[b].guest \in Offered(page[b])

(***************************************************************************)
(* The inductive invariant: every thread has had a participant, every page *)
(* was made for one, every request is of one, and a participation was      *)
(* added from a form that showed none of the same user.                    *)
(***************************************************************************)
IInv ==
  /\ TypeOK
  /\ rows \subseteq Spent
  /\ \A r \in Spent : of[r][1] \in threads
  /\ \A t \in threads : \E r \in Spent : of[r][1] = t
  /\ \A r \in Rows :
       /\ knew[r] \subseteq Spent
       /\ r \in Spent => \A s \in knew[r] : of[s] # of[r]
  /\ \A b \in Tabs : PageMade(b) /\ RequestMade(b)

(***************************************************************************)
(* Somebody takes part in a thread twice only when neither addition could  *)
(* know of the other: each form was shown before the other was committed.  *)
(***************************************************************************)
DoublesUnknown ==
  \A r, s \in rows : r # s /\ of[r] = of[s] => r \notin knew[s]

Abandoned(t) ==
  /\ t \in threads /\ Participants(rows, t) = {}
  /\ \A b \in Tabs : request[b].sent => page[b].thread # t

(***************************************************************************)
(* A thread that the last participant has left, with no request about it   *)
(* in flight, is closed for good, whatever forms are still open: nobody    *)
(* comes in and no message is added.                                       *)
(***************************************************************************)
StaysAbandoned ==
  [][\A t \in Threads : Abandoned(t) => Abandoned(t)' /\ messages'[t] = messages[t]]_vars

=============================================================================
