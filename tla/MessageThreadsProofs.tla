------------------------- MODULE MessageThreadsProofs -------------------------
(***************************************************************************)
(* Proofs about MessageThreads, for any users, threads, participations and *)
(* tabs: the invariant, and what follows from it about invitations and     *)
(* about threads that everybody has left.                                  *)
(***************************************************************************)
EXTENDS MessageThreads, TLAPS

-----------------------------------------------------------------------------
(***************************************************************************)
(* What the rows tell.                                                     *)
(***************************************************************************)
\* What a spent row tells: a thread and one of its users.
LEMMA RowOf ==
  ASSUME TypeOK, NEW r \in Spent
  PROVE  /\ of[r] \in Threads \X Users
         /\ of[r][1] \in Threads /\ of[r][2] \in Users
         /\ of[r] = <<of[r][1], of[r][2]>>
BY DEF TypeOK, Spent

\* The form of an invitation offers users that it shows no row of.
LEMMA Offers ==
  ASSUME NEW p, NEW u \in Offered(p), NEW r \in p.seen, of[r] = <<p.thread, u>>
  PROVE  FALSE
<1>1. of[r][1] = p.thread /\ of[r][2] = u
  OBVIOUS
<1> QED BY <1>1 DEF Offered, Participants, RowsOf

\* The invariant, in the parts that the steps preserve one by one.
History ==
  /\ rows \subseteq Spent
  /\ \A r \in Spent : of[r][1] \in threads
  /\ \A t \in threads : \E r \in Spent : of[r][1] = t
  /\ \A r \in Rows :
       /\ knew[r] \subseteq Spent
       /\ r \in Spent => \A s \in knew[r] : of[s] # of[r]

\* IInv in three parts: types, the history of rows, pages with requests.
LEMMA Parts == IInv <=> TypeOK /\ History /\ \A b \in Tabs : PageMade(b) /\ RequestMade(b)
BY DEF IInv, History

\* A page that is made for user u of rows there are.
Made(p, u) ==
  /\ p.seen \subseteq Spent
  /\ p.at = "mine" => \A r \in p.seen : of[r][2] = u
  /\ p.at # "mine" =>
       /\ p.thread \in threads
       /\ \A r \in p.seen : of[r][1] = p.thread
       /\ Admits(u, p.thread, p.seen)
  /\ p.at = "row" => p.row \in p.seen

\* PageMade, of a page and a user instead of a tab.
LEMMA MadePage == ASSUME NEW b PROVE PageMade(b) <=> Made(page[b], user[b])
BY DEF PageMade, Made

-----------------------------------------------------------------------------
(***************************************************************************)
(* The steps that show a page.                                             *)
(***************************************************************************)
\* The history of rows is what the rows say, whatever pages are shown.
LEMMA SameHistory ==
  ASSUME History, UNCHANGED <<threads, rows, of, knew>>
  PROVE  History'
BY DEF History, Spent

\* A tab that shows a page made for its user keeps the invariant.
LEMMA ShowStep ==
  ASSUME IInv, NEW b \in Tabs, NEW p \in Pages, Made(p, user[b]), Show(b, p)
  PROVE  IInv'
<1>1. TypeOK'
  BY DEF IInv, TypeOK, Show
<1>2. History'
  BY Parts, SameHistory DEF Show
<1>3. ASSUME NEW d \in Tabs PROVE PageMade(d)' /\ RequestMade(d)'
  <2>1. PageMade(d) /\ RequestMade(d)
    BY Parts
  <2>2. page' = [page EXCEPT ![b] = p] /\ page \in [Tabs -> Pages] /\ ~request[b].sent
    BY DEF IInv, TypeOK, Show
  <2>3. CASE d = b
    <3>1. page'[d] = p /\ ~request'[d].sent
      BY <2>2, <2>3 DEF Show
    <3> QED
      BY <3>1, <2>3 DEF PageMade, RequestMade, Made, Admits, Participants, RowsOf, Spent, Show
  <2>4. CASE d # b
    <3>1. page'[d] = page[d]
      BY <2>2, <2>4
    <3> QED
      BY <2>1, <3>1
      DEF PageMade, RequestMade, Admits, Participants, RowsOf, Offered, Spent, Show
  <2> QED BY <2>3, <2>4
<1> QED BY <1>1, <1>2, <1>3 DEF IInv, History

\* So does a page inside a thread, which only participants are shown.
LEMMA InsideStep ==
  ASSUME IInv, NEW b \in Tabs, NEW t \in threads, NEW at \in {"thread", "users", "messages", "invite", "row", "post"},
         NEW r \in Rows \union {None}, at = "row" => r \in RowsOf(rows, t),
         Inside(b, t, at, r)
  PROVE  IInv'
<1> DEFINE p == [at |-> at, thread |-> t, row |-> r, seen |-> RowsOf(rows, t)]
<1>1. rows \subseteq Spent /\ rows \subseteq Rows /\ t \in Threads
  BY DEF IInv, TypeOK
<1>2. p \in Pages
  BY <1>1 DEF Pages, Forms, RowsOf
<1>3. Made(p, user[b])
  BY <1>1 DEF Made, Inside, Admits, RowsOf, Participants
<1>4. Show(b, p)
  BY DEF Inside
<1> QED BY <1>2, <1>3, <1>4, ShowStep

\* The list of one's threads, field by field.
LEMMA HomeShowing ==
  ASSUME NEW S
  PROVE  [Home EXCEPT !.seen = S] = [at |-> "mine", thread |-> None, row |-> None, seen |-> S]
BY DEF Home

\* Every action that shows a page keeps the invariant.
LEMMA PagesStep ==
  ASSUME IInv, NEW b \in Tabs,
         \/ ListMine(b) \/ ShowThread(b) \/ ListIn(b, "users") \/ ListIn(b, "messages")
         \/ ShowRow(b) \/ InviteForm(b) \/ PostForm(b)
  PROVE  IInv'
<1>1. PageMade(b) /\ rows \subseteq Spent /\ rows \subseteq Rows
  BY DEF IInv, TypeOK
<1>2. CASE ListMine(b)
  <2> DEFINE p == [Home EXCEPT !.seen = {r \in rows : of[r][2] = user[b]}]
  <2>1. p = [at |-> "mine", thread |-> None, row |-> None, seen |-> {r \in rows : of[r][2] = user[b]}]
    BY HomeShowing
  <2>2. p \in Pages /\ Made(p, user[b])
    BY <1>1, <2>1 DEF Pages, Made
  <2>3. Show(b, p)
    BY <1>2 DEF ListMine
  <2> QED BY <2>2, <2>3, ShowStep
<1>3. CASE ShowThread(b)
  <2>1. PICK r \in page[b].seen : page[b].at = "mine" /\ Inside(b, of[r][1], "thread", None)
    BY <1>3 DEF ShowThread
  <2>2. of[r][1] \in threads
    BY <1>1, <2>1 DEF PageMade, IInv
  <2> QED BY <2>1, <2>2, InsideStep
<1>4. CASE \E at \in {"users", "messages"} : ListIn(b, at)
  <2>1. PICK at \in {"users", "messages"} : ListIn(b, at)
    BY <1>4
  <2>2. page[b].thread \in threads
    BY <1>1, <2>1 DEF PageMade, ListIn
  <2> QED BY <2>1, <2>2, InsideStep DEF ListIn
<1>5. CASE ShowRow(b)
  <2>1. PICK r \in page[b].seen \intersect rows :
          page[b].at = "users" /\ Inside(b, page[b].thread, "row", r)
    BY <1>5 DEF ShowRow
  <2>2. page[b].thread \in threads /\ of[r][1] = page[b].thread
    BY <1>1, <2>1 DEF PageMade
  <2>3. r \in RowsOf(rows, page[b].thread) /\ r \in Rows
    BY <1>1, <2>1, <2>2 DEF RowsOf
  <2> QED BY <2>1, <2>2, <2>3, InsideStep
<1>6. CASE InviteForm(b)
  <2>1. page[b].thread \in threads
    BY <1>1, <1>6 DEF PageMade, InviteForm
  <2> QED BY <1>6, <2>1, InsideStep DEF InviteForm
<1>7. CASE PostForm(b)
  <2>1. page[b].thread \in threads
    BY <1>1, <1>7 DEF PageMade, PostForm
  <2> QED BY <1>7, <2>1, InsideStep DEF PostForm
<1> QED BY <1>2, <1>3, <1>4, <1>5, <1>6, <1>7


-----------------------------------------------------------------------------
(***************************************************************************)
(* The steps that begin a request.                                         *)
(***************************************************************************)
\* A request from a form, for somebody whom the form offers, keeps it.
LEMMA BeginStep ==
  ASSUME IInv, NEW b \in Tabs, NEW guest \in Users \union {None}, Begin(b, guest),
         page[b].at \in Forms,
         page[b].at = "invite" => guest \in Offered(page[b])
  PROVE  IInv'
<1>1. request' = [request EXCEPT ![b] = [sent |-> TRUE, guest |-> guest]]
  BY DEF Begin
<1>2. [sent |-> TRUE, guest |-> guest] \in Requests
  BY DEF Requests
<1>3. TypeOK'
  BY <1>1, <1>2 DEF IInv, TypeOK, Begin
<1>4. History'
  BY Parts, SameHistory DEF Begin
<1>5. ASSUME NEW d \in Tabs PROVE PageMade(d)' /\ RequestMade(d)'
  <2>1. PageMade(d) /\ RequestMade(d)
    BY Parts
  <2>2. request'[d] = IF d = b THEN [sent |-> TRUE, guest |-> guest] ELSE request[d]
    BY <1>1 DEF IInv, TypeOK
  <2>3. PageMade(d)'
    BY <2>1 DEF PageMade, Admits, Participants, RowsOf, Spent, Begin
  <2>4. RequestMade(d)'
    BY <2>1, <2>2 DEF RequestMade, Offered, Participants, RowsOf, Begin
  <2> QED BY <2>3, <2>4
<1> QED BY <1>3, <1>4, <1>5 DEF IInv, History

\* Every action that begins a request keeps the invariant.
LEMMA BeginsStep ==
  ASSUME IInv, NEW b \in Tabs, BeginInvite(b) \/ BeginPost(b) \/ BeginRemove(b)
  PROVE  IInv'
<1>1. CASE BeginInvite(b)
  <2>1. PICK u \in Offered(page[b]) : Begin(b, u)
    BY <1>1 DEF BeginInvite
  <2>2. u \in Users
    BY <2>1 DEF Offered
  <2> QED BY <1>1, <2>1, <2>2, BeginStep DEF BeginInvite, Forms
<1>2. CASE BeginPost(b)
  BY <1>2, BeginStep DEF BeginPost, Forms
<1>3. CASE BeginRemove(b)
  BY <1>3, BeginStep DEF BeginRemove, Forms
<1> QED BY <1>1, <1>2, <1>3

-----------------------------------------------------------------------------
(***************************************************************************)
(* The steps that insert a participation.                                  *)
(***************************************************************************)
\* A new row, unknown to its form, keeps the history of rows.
LEMMA Inserted ==
  ASSUME TypeOK, History, NEW r \in Rows, NEW t \in Threads, NEW u \in Users,
         NEW seen \in SUBSET Spent, Insert(r, t, u, seen),
         \A s \in seen : of[s] # <<t, u>>,
         threads' = threads \union {t}
  PROVE  /\ History'
         /\ Spent' = Spent \union {r}
         /\ \A s \in Spent : of'[s] = of[s]
         /\ rows' \in SUBSET Rows /\ of' \in [Rows -> (Threads \X Users) \union {None}]
         /\ knew' \in [Rows -> SUBSET Rows]
<1>1. /\ of[r] = None /\ rows' = rows \union {r}
      /\ of' = [of EXCEPT ![r] = <<t, u>>] /\ knew' = [knew EXCEPT ![r] = seen]
  BY DEF Insert
<1>2. <<t, u>> \in Threads \X Users /\ <<t, u>> # None
  BY NoneAssumption
<1>3. /\ rows' \in SUBSET Rows /\ of' \in [Rows -> (Threads \X Users) \union {None}]
      /\ knew' \in [Rows -> SUBSET Rows]
  BY <1>1, <1>2 DEF TypeOK, Spent
<1>4. r \notin Spent /\ \A s \in Spent : of'[s] = of[s] /\ knew'[s] = knew[s]
  BY <1>1 DEF TypeOK, Spent
<1>5. of'[r] = <<t, u>> /\ knew'[r] = seen
  BY <1>1 DEF TypeOK
<1>6. \A s \in Rows : s # r => of'[s] = of[s] /\ knew'[s] = knew[s]
  BY <1>1 DEF TypeOK
<1>7. Spent' = Spent \union {r}
  BY <1>2, <1>5, <1>6 DEF Spent
<1>8. rows' \subseteq Spent'
  BY <1>1, <1>7 DEF History
<1>9. \A s \in Spent' : of'[s][1] \in threads'
  BY <1>4, <1>5, <1>7 DEF History
<1>10. \A x \in threads' : \E s \in Spent' : of'[s][1] = x
  BY <1>4, <1>5, <1>7 DEF History
<1>11. ASSUME NEW s \in Rows
       PROVE  /\ knew'[s] \subseteq Spent'
              /\ s \in Spent' => \A x \in knew'[s] : of'[x] # of'[s]
  <2>1. CASE s = r
    BY <1>4, <1>5, <1>7, <2>1
  <2>2. CASE s # r
    BY <1>4, <1>6, <1>7, <2>2 DEF History
  <2> QED BY <2>1, <2>2
<1> QED BY <1>3, <1>4, <1>7, <1>8, <1>9, <1>10, <1>11 DEF History

\* Pages and requests do not notice new rows.
LEMMA PagesKept ==
  ASSUME IInv, NEW d \in Tabs, Spent \subseteq Spent', \A s \in Spent : of'[s] = of[s],
         threads \subseteq threads', page'[d] = page[d], user'[d] = user[d],
         request'[d] \in {request[d], NoRequest}
  PROVE  PageMade(d)' /\ RequestMade(d)'
<1>1. PageMade(d) /\ RequestMade(d)
  BY Parts
<1>2. page[d].seen \subseteq Spent
  BY <1>1 DEF PageMade
<1>3. \A t : Participants(page[d].seen, t)' = Participants(page[d].seen, t)
  BY <1>2 DEF Participants, RowsOf
<1>4. PageMade(d)'
  BY <1>1, <1>2, <1>3 DEF PageMade, Admits
<1>5. RequestMade(d)'
  BY <1>1, <1>3 DEF RequestMade, Offered, NoRequest
<1> QED BY <1>4, <1>5

\* A new thread has its creator as participant.
LEMMA CreateThreadStep ==
  ASSUME IInv, NEW b \in Tabs, CreateThread(b)
  PROVE  IInv'
<1>1. PICK t \in Threads \ threads, r \in Rows :
        /\ Founded(user[b], t, r)
        /\ UNCHANGED <<messages, user, page, request>>
  BY DEF CreateThread
<1>2. user[b] \in Users /\ threads' = threads \union {t} /\ Insert(r, t, user[b], {})
  BY <1>1 DEF Founded, IInv, TypeOK
<1>3. /\ History' /\ Spent' = Spent \union {r} /\ \A s \in Spent : of'[s] = of[s]
      /\ rows' \in SUBSET Rows /\ of' \in [Rows -> (Threads \X Users) \union {None}]
      /\ knew' \in [Rows -> SUBSET Rows]
  <2>1. TypeOK /\ History /\ {} \in SUBSET Spent
    BY Parts
  <2> QED BY <1>2, <2>1, Inserted
<1>4. TypeOK'
  BY <1>1, <1>2, <1>3 DEF IInv, TypeOK
<1>5. ASSUME NEW d \in Tabs PROVE PageMade(d)' /\ RequestMade(d)'
  BY <1>1, <1>2, <1>3, PagesKept
<1> QED BY <1>3, <1>4, <1>5 DEF IInv, History

\* The form of an invitation knows no participation of whom it invites.
LEMMA InvitesStranger ==
  ASSUME IInv, NEW b \in Tabs, request[b].sent, page[b].at = "invite"
  PROVE  /\ page[b].thread \in threads /\ page[b].thread \in Threads
         /\ request[b].guest \in Users
         /\ page[b].seen \in SUBSET Spent
         /\ \A s \in page[b].seen : of[s] # <<page[b].thread, request[b].guest>>
<1>1. PageMade(b) /\ RequestMade(b)
  BY Parts
<1>2. page[b].thread \in threads /\ threads \subseteq Threads /\ page[b].seen \in SUBSET Spent
  BY <1>1 DEF PageMade, IInv, TypeOK
<1>3. request[b].guest \in Offered(page[b])
  BY <1>1 DEF RequestMade
<1>4. request[b].guest \in Users
  BY <1>3 DEF Offered
<1>5. ASSUME NEW s \in page[b].seen PROVE of[s] # <<page[b].thread, request[b].guest>>
  BY <1>3, Offers
<1> QED BY <1>2, <1>4, <1>5

\* No request is a request, and is not sent.
LEMMA NoRequestType == NoRequest \in Requests /\ ~NoRequest.sent
BY DEF NoRequest, Requests

\* The commit of an invitation keeps the invariant.
LEMMA InviteStep ==
  ASSUME IInv, NEW b \in Tabs, Invite(b)
  PROVE  IInv'
<1> DEFINE t == page[b].thread
           u == request[b].guest
<1>1. PICK r \in Rows : Insert(r, t, u, page[b].seen)
  BY DEF Invite
<1>2. /\ request[b].sent /\ page[b].at = "invite" /\ threads' = threads /\ UNCHANGED messages
      /\ request' = [request EXCEPT ![b] = NoRequest] /\ UNCHANGED <<user, page>>
  BY DEF Invite, Answered
<1>3. /\ t \in threads /\ t \in Threads /\ u \in Users /\ page[b].seen \in SUBSET Spent
      /\ \A s \in page[b].seen : of[s] # <<t, u>>
  BY <1>2, InvitesStranger
<1>4. /\ History' /\ Spent' = Spent \union {r} /\ \A s \in Spent : of'[s] = of[s]
      /\ rows' \in SUBSET Rows /\ of' \in [Rows -> (Threads \X Users) \union {None}]
      /\ knew' \in [Rows -> SUBSET Rows]
  <2>1. TypeOK /\ History /\ threads' = threads \union {t}
    BY <1>2, <1>3, Parts
  <2> HIDE DEF t, u
  <2> QED BY <1>1, <1>3, <2>1, Inserted
<1>5. TypeOK'
  BY <1>2, <1>4, NoRequestType DEF IInv, TypeOK
<1>6. ASSUME NEW d \in Tabs PROVE PageMade(d)' /\ RequestMade(d)'
  <2>1. request'[d] \in {request[d], NoRequest}
    BY <1>2 DEF IInv, TypeOK
  <2> QED BY <1>2, <1>4, <2>1, PagesKept
<1> QED BY <1>4, <1>5, <1>6 DEF IInv, History

-----------------------------------------------------------------------------
(***************************************************************************)
(* The other steps, and the invariant.                                     *)
(***************************************************************************)
\* So do the other steps that end a request.
LEMMA AnswersStep ==
  ASSUME IInv, NEW b \in Tabs, Remove(b) \/ Post(b) \/ Refused(b)
  PROVE  IInv'
<1>1. /\ request' = [request EXCEPT ![b] = NoRequest]
      /\ UNCHANGED <<threads, of, knew, user, page>>
      /\ rows' \subseteq rows
      /\ \/ UNCHANGED messages
         \/ /\ messages[page[b].thread] < MaxMessages
            /\ messages' = [messages EXCEPT ![page[b].thread] = messages[page[b].thread] + 1]
            /\ page[b].at = "post"
  BY DEF Remove, Post, Refused, Answered
<1>2. messages' \in [Threads -> 0 .. MaxMessages]
  <2>1. CASE UNCHANGED messages
    BY <2>1 DEF IInv, TypeOK
  <2>2. CASE /\ messages[page[b].thread] < MaxMessages
             /\ messages' = [messages EXCEPT ![page[b].thread] = messages[page[b].thread] + 1]
             /\ page[b].at = "post"
    <3>1. page[b].thread \in Threads
      BY <2>2 DEF IInv, TypeOK, PageMade
    <3>2. messages[page[b].thread] + 1 \in 0 .. MaxMessages
      BY <2>2, <3>1, MaxMessagesAssumption DEF IInv, TypeOK
    <3> QED BY <2>2, <3>2 DEF IInv, TypeOK
  <2> QED BY <1>1, <2>1, <2>2
<1>3. TypeOK'
  BY <1>1, <1>2, NoRequestType DEF IInv, TypeOK
<1>4. History'
  BY <1>1, Parts DEF History, Spent
<1>5. ASSUME NEW d \in Tabs PROVE PageMade(d)' /\ RequestMade(d)'
  <2>1. request'[d] \in {request[d], NoRequest}
    BY <1>1 DEF IInv, TypeOK
  <2>2. Spent' = Spent
    BY <1>1 DEF Spent
  <2> QED BY <1>1, <2>1, <2>2, PagesKept
<1> QED BY <1>3, <1>4, <1>5 DEF IInv, History

\* The invariant holds when the program starts.
LEMMA InitStep == Init => IInv
<1> SUFFICES ASSUME Init PROVE IInv
  OBVIOUS
<1>1. Home \in Pages /\ NoRequest \in Requests /\ ~NoRequest.sent
  BY NoRequestType DEF Home, Pages
<1>2. 0 \in 0 .. MaxMessages
  BY MaxMessagesAssumption
<1>3. TypeOK
  BY <1>1, <1>2 DEF Init, TypeOK
<1>4. Spent = {} /\ History
  BY DEF Init, Spent, History
<1>5. ASSUME NEW b \in Tabs PROVE PageMade(b) /\ RequestMade(b)
  BY <1>1 DEF Init, PageMade, RequestMade, Home
<1> QED BY <1>3, <1>4, <1>5, Parts

\* The invariant is about the variables of the module only.
LEMMA UnchangedStep == IInv /\ UNCHANGED vars => IInv'
BY DEF IInv, TypeOK, Spent, PageMade, RequestMade, Admits, Participants, RowsOf, Offered, vars

\* The invariant is inductive.
LEMMA NextStep == IInv /\ [Next]_vars => IInv'
<1> SUFFICES ASSUME IInv, [Next]_vars PROVE IInv'
  OBVIOUS
<1>1. CASE UNCHANGED vars
  BY <1>1, UnchangedStep
<1>2. ASSUME NEW b \in Tabs, CreateThread(b) PROVE IInv'
  BY <1>2, CreateThreadStep
<1>3. ASSUME NEW b \in Tabs,
             \/ ListMine(b) \/ ShowThread(b) \/ ListIn(b, "users") \/ ListIn(b, "messages")
             \/ ShowRow(b) \/ InviteForm(b) \/ PostForm(b)
      PROVE  IInv'
  BY <1>3, PagesStep
<1>4. ASSUME NEW b \in Tabs, BeginInvite(b) \/ BeginPost(b) \/ BeginRemove(b) PROVE IInv'
  BY <1>4, BeginsStep
<1>5. ASSUME NEW b \in Tabs, Invite(b) PROVE IInv'
  BY <1>5, InviteStep
<1>6. ASSUME NEW b \in Tabs, Remove(b) \/ Post(b) \/ Refused(b) PROVE IInv'
  BY <1>6, AnswersStep
<1> QED BY <1>1, <1>2, <1>3, <1>4, <1>5, <1>6 DEF Next

(***************************************************************************)
(* However pages get stale and requests overlap: every thread has had a    *)
(* participant, every page and every request inside a thread is of one,    *)
(* and a participation was added from a form that showed none of its user. *)
(***************************************************************************)
THEOREM Invariance == Spec => []IInv
<1>1. Init => IInv
  BY InitStep
<1>2. IInv /\ [Next]_vars => IInv'
  BY NextStep
<1> QED BY <1>1, <1>2, PTL DEF Spec

-----------------------------------------------------------------------------
(***************************************************************************)
(* Two participations of one user in one thread come from forms that did   *)
(* not know of each other's row.                                           *)
(***************************************************************************)
THEOREM DoublesAreUnknown == Spec => []DoublesUnknown
<1>1. IInv => DoublesUnknown
  BY DEF IInv, TypeOK, DoublesUnknown
<1> QED BY <1>1, Invariance, PTL

-----------------------------------------------------------------------------
(***************************************************************************)
(* A thread without participants and without requests stays so.            *)
(***************************************************************************)
\* An abandoned thread has no row.
LEMMA NobodyIn ==
  ASSUME NEW t, Abandoned(t), NEW r \in rows
  PROVE  of[r][1] # t
BY DEF Abandoned, Participants, RowsOf

\* Nobody is authorised for an abandoned thread.
LEMMA NobodyAdmitted ==
  ASSUME NEW t, Abandoned(t), NEW u
  PROVE  ~Admits(u, t, rows)
BY DEF Abandoned, Admits

\* A step that inserts no row for the thread and begins no request about it.
LEMMA StillAbandoned ==
  ASSUME IInv, NEW t \in Threads, Abandoned(t), threads \subseteq threads',
         \A r \in rows' : of'[r][1] # t,
         \A b \in Tabs : request'[b].sent => request[b].sent /\ page'[b] = page[b]
  PROVE  Abandoned(t)'
BY DEF Abandoned, Participants, RowsOf

\* A row for another thread leaves an abandoned one alone.
LEMMA AbandonedInsert ==
  ASSUME IInv, NEW t \in Threads, Abandoned(t), NEW r \in Rows, NEW x, NEW u, NEW seen,
         x # t, Insert(r, x, u, seen)
  PROVE  \A s \in rows' : of'[s][1] # t
<1>1. rows' = rows \union {r} /\ of' = [of EXCEPT ![r] = <<x, u>>] /\ of[r] = None
  BY DEF Insert
<1>2. of'[r][1] = x
  BY <1>1 DEF IInv, TypeOK
<1>3. \A s \in rows : s # r => of'[s] = of[s]
  BY <1>1 DEF IInv, TypeOK
<1> QED BY <1>1, <1>2, <1>3, NobodyIn

\* No step brings an abandoned thread back, or writes to it.
LEMMA AbandonedStep ==
  ASSUME IInv, [Next]_vars, NEW t \in Threads, Abandoned(t)
  PROVE  Abandoned(t)' /\ messages'[t] = messages[t]
<1>1. CASE UNCHANGED vars
  BY <1>1 DEF vars, Abandoned, Participants, RowsOf
<1>2. ASSUME NEW b \in Tabs, CreateThread(b)
      PROVE  Abandoned(t)' /\ messages'[t] = messages[t]
  <2>1. PICK x \in Threads \ threads, r \in Rows :
          /\ Founded(user[b], x, r)
          /\ UNCHANGED <<messages, user, page, request>>
    BY <1>2 DEF CreateThread
  <2>2. x # t /\ threads' = threads \union {x} /\ Insert(r, x, user[b], {})
    BY <2>1 DEF Founded, Abandoned
  <2>3. \A s \in rows' : of'[s][1] # t
    BY <2>2, AbandonedInsert
  <2> QED BY <2>1, <2>2, <2>3, StillAbandoned
<1>3. ASSUME NEW b \in Tabs, NEW p, Show(b, p)
      PROVE  Abandoned(t)' /\ messages'[t] = messages[t]
  <2>1. \A d \in Tabs : request'[d].sent => request[d].sent /\ page'[d] = page[d]
    BY <1>3 DEF Show, IInv, TypeOK
  <2>2. \A r \in rows' : of'[r][1] # t
    BY <1>3, NobodyIn DEF Show
  <2>3. threads' = threads /\ messages' = messages
    BY <1>3 DEF Show
  <2> QED BY <2>1, <2>2, <2>3, StillAbandoned
<1>4. ASSUME NEW b \in Tabs,
             \/ ListMine(b) \/ ShowThread(b) \/ ListIn(b, "users") \/ ListIn(b, "messages")
             \/ ShowRow(b) \/ InviteForm(b) \/ PostForm(b)
      PROVE  \E p : Show(b, p)
  BY <1>4 DEF ListMine, ShowThread, ListIn, ShowRow, InviteForm, PostForm, Inside
<1>5. ASSUME NEW b \in Tabs, BeginInvite(b) \/ BeginPost(b) \/ BeginRemove(b)
      PROVE  Abandoned(t)' /\ messages'[t] = messages[t]
  <2>1. page[b].thread # t
    <3>1. CASE BeginRemove(b)
      <4>1. page[b].at = "row" /\ page[b].row \in rows
        BY <3>1 DEF BeginRemove
      <4>2. of[page[b].row][1] = page[b].thread
        BY <4>1 DEF IInv, PageMade
      <4> QED BY <4>1, <4>2, NobodyIn
    <3> QED BY <1>5, <3>1, NobodyAdmitted DEF BeginInvite, BeginPost
  <2>2. PICK guest : Begin(b, guest)
    BY <1>5 DEF BeginInvite, BeginPost, BeginRemove
  <2>3. \A d \in Tabs : d # b => request'[d] = request[d]
    BY <2>2 DEF Begin, IInv, TypeOK
  <2>4. UNCHANGED <<threads, rows, of, messages, page>>
    BY <2>2 DEF Begin
  <2> QED BY <2>1, <2>3, <2>4 DEF Abandoned, Participants, RowsOf
<1>6. ASSUME NEW b \in Tabs, Invite(b)
      PROVE  Abandoned(t)' /\ messages'[t] = messages[t]
  <2>1. PICK r \in Rows : Insert(r, page[b].thread, request[b].guest, page[b].seen)
    BY <1>6 DEF Invite
  <2>2. page[b].thread # t
    BY <1>6 DEF Invite, Abandoned
  <2>3. \A s \in rows' : of'[s][1] # t
    BY <2>1, <2>2, AbandonedInsert
  <2>4. \A d \in Tabs : request'[d].sent => request[d].sent /\ page'[d] = page[d]
    BY <1>6, NoRequestType DEF Invite, Answered, IInv, TypeOK
  <2>5. threads' = threads /\ messages' = messages
    BY <1>6 DEF Invite
  <2> QED BY <2>3, <2>4, <2>5, StillAbandoned
<1>7. ASSUME NEW b \in Tabs, Remove(b) \/ Post(b) \/ Refused(b)
      PROVE  Abandoned(t)' /\ messages'[t] = messages[t]
  <2>1. page[b].thread # t
    BY <1>7 DEF Remove, Post, Refused, Abandoned
  <2>2. messages'[t] = messages[t]
    BY <1>7, <2>1 DEF Remove, Post, Refused, IInv, TypeOK
  <2>3. rows' \subseteq rows /\ UNCHANGED <<threads, of>>
    BY <1>7 DEF Remove, Post, Refused
  <2>4. \A d \in Tabs : request'[d].sent => request[d].sent /\ page'[d] = page[d]
    BY <1>7, NoRequestType DEF Remove, Post, Refused, Answered, IInv, TypeOK
  <2>5. \A r \in rows' : of'[r][1] # t
    BY <2>3, NobodyIn
  <2> QED BY <2>2, <2>3, <2>4, <2>5, StillAbandoned
<1> QED BY <1>1, <1>2, <1>3, <1>4, <1>5, <1>6, <1>7 DEF Next

(***************************************************************************)
(* Once the last participant has left and no request about the thread is   *)
(* in flight, no stale form or link brings anybody back or adds a message. *)
(***************************************************************************)
THEOREM AbandonedForGood == Spec => StaysAbandoned
<1>1. IInv /\ [Next]_vars =>
        [\A t \in Threads : Abandoned(t) => Abandoned(t)' /\ messages'[t] = messages[t]]_vars
  BY AbandonedStep
<1> QED BY <1>1, Invariance, PTL DEF Spec, StaysAbandoned

=============================================================================
