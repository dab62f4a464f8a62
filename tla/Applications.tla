----------------------------- MODULE Applications -----------------------------
(***************************************************************************)
(* Applications for jobs: workers make them, the employers of the jobs     *)
(* decide them, and the administrator's dashboard draws how many of each   *)
(* status were made on each day of the last four weeks.                    *)
(*                                                                         *)
(* A POST is authorised, bound and validated in the snapshot of its        *)
(* transaction (an action named for the service) and written at its end    *)
(* (Created, Updated).  The dashboard takes several steps: it reads the    *)
(* clock four times, on both sides of its queries.                         *)
(***************************************************************************)
EXTENDS FiniteSets, Naturals, Sequences

CONSTANTS
  Employers, Workers, Administrator,
  Jobs, Employer,    \* the jobs, and the employer of each
  Ids,               \* identifiers of applications
  Times, Midnight,   \* the times of a day, and the first of them
  Minute,            \* Minute[t]: the time that t is printed as
  Window,            \* how many days the chart goes back
  ShortDays,         \* the days that are an hour short
  Tabs,
  MaxDay, MaxVersion,   \* bounds on the clock and on the editions of a row
  None

Statuses == {"PENDING", "ACCEPTED", "REJECTED"}
Users == Employers \union Workers \union {Administrator}

ASSUME UsersAssumption ==
  Employers \intersect Workers = {} /\ Administrator \notin Employers \union Workers
ASSUME JobsAssumption == Employer \in [Jobs -> Employers]
ASSUME TimesAssumption ==
  /\ Midnight \in Times
  /\ Minute \in [Times -> Times]
  /\ Minute[Midnight] = Midnight
ASSUME IdsAssumption == IsFiniteSet(Ids)
ASSUME BoundsAssumption ==
  Window \in Nat /\ MaxDay \in Nat /\ Window <= MaxDay /\ MaxVersion \in Nat /\ ShortDays \subseteq Nat

VARIABLES
  today,     \* the day on the server's clock
  row,       \* the applications in the database
  made,      \* history: the day on which each was made
  user,      \* the user of each tab
  page,      \* the form that each tab shows, if any
  request,   \* the POST that each tab waits for
  chart      \* how far the dashboard that each tab waits for has come

vars == <<today, row, made, user, page, request, chart>>

Days == 0 .. MaxDay
Moments == [day : Days, time : Times]
Versions == 0 .. MaxVersion
Applications == [job : Jobs, worker : Workers, status : Statuses, moment : Moments]
Rows == [version : Versions, application : Applications]

NoRequest == [command |-> "none", id |-> None, version |-> None, application |-> None]
ASSUME NoneAssumption == None \notin Rows \union Applications \union Ids \union Nat

\* A page from which no application can be sent back.
NoForm == [id |-> None, version |-> None]
Forms == [id : Ids \union {None}, version : Versions \union {None}]

\* Rows of the query of one status: a moment and how often it occurs.
Groups == [moment : Moments, count : Nat]

\* A number for each day of the chart, for each status.
Numbers == [Statuses -> Seq(Nat)]
Tallies == [Statuses -> [Days -> Nat]]

NoChart == [phase |-> "none"]
Charts ==
  {NoChart}
  \union [phase : {"queried"}, limit : Days, groups : [Statuses -> SUBSET Groups], seen : Tallies]
  \union [phase : {"counted"}, limit : Days, data : Numbers, seen : Tallies]
  \union [phase : {"labelled"}, limit : Days, data : Numbers, seen : Tallies, from : Days]

TypeOK ==
  /\ today \in Window .. MaxDay
  /\ row \in [Ids -> Rows \union {None}]
  /\ made \in [Ids -> Days \union {None}]
  /\ user \in [Tabs -> Users]
  /\ page \in [Tabs -> Forms]
  /\ request \in [Tabs -> [command : {"none", "create", "update"}, id : Ids \union {None},
                           version : Versions \union {None},
                           application : Applications \union {None}]]
  /\ chart \in [Tabs -> Charts]

-----------------------------------------------------------------------------
All == {e \in Ids : row[e] # None}
ManyByJob(j) == {e \in All : row[e].application.job = j}
ManyByEmployer(u) == {e \in All : Employer[row[e].application.job] = u}
ManyByWorker(u) == {e \in All : row[e].application.worker = u}

Idle(b) == request[b] = NoRequest /\ chart[b] = NoChart

Displays(b, p) ==
  /\ Idle(b)
  /\ page' = [page EXCEPT ![b] = p]
  /\ UNCHANGED <<today, row, made, user, request, chart>>

(***************************************************************************)
(* A list has no form, and workers update nothing by theirs.  Neither      *)
(* restricts which applications are asked for next, so what they show is   *)
(* left out.                                                               *)
(***************************************************************************)
Lists(b) == Displays(b, NoForm)
Shows(b, e) == Displays(b, [id |-> e, version |-> row[e].version])

EmployerApplicationListMine(b) == user[b] \in Employers /\ Lists(b)

EmployerApplicationShow(b) ==
  user[b] \in Employers /\ \E e \in ManyByEmployer(user[b]) : Shows(b, e)

\* The form of the update: its authorise asks for no more than an employer.
EmployerApplicationUpdateForm(b) == user[b] \in Employers /\ \E e \in All : Shows(b, e)

WorkerApplicationListMine(b) == user[b] \in Workers /\ Lists(b)

WorkerApplicationShow(b) ==
  user[b] \in Workers /\ ManyByWorker(user[b]) # {} /\ Displays(b, NoForm)

-----------------------------------------------------------------------------
(***************************************************************************)
(* Somebody else sits down at the tab.                                     *)
(***************************************************************************)
SignIn(b) ==
  /\ Idle(b)
  /\ \E u \in Users : user' = [user EXCEPT ![b] = u]
  /\ page' = [page EXCEPT ![b] = NoForm]
  /\ UNCHANGED <<today, row, made, request, chart>>

Sends(b, command, e, version, application) ==
  /\ Idle(b)
  /\ request' = [request EXCEPT ![b] =
                   [command |-> command, id |-> e, version |-> version,
                    application |-> application]]
  /\ UNCHANGED <<today, row, made, user, page, chart>>

(***************************************************************************)
(* An application is made today, whenever its transaction ends; the worker *)
(* has none for this job that can be seen.  Its reference is left to       *)
(* UniqueReferences.                                                       *)
(***************************************************************************)
WorkerApplicationCreate(b) ==
  /\ user[b] \in Workers
  /\ \E j \in Jobs, t \in Times :
       /\ ManyByJob(j) \intersect ManyByWorker(user[b]) = {}
       /\ Sends(b, "create", None, None,
            [job |-> j, worker |-> user[b], status |-> "PENDING",
             moment |-> [day |-> today, time |-> t]])

\* A mutant of Bound: deciding sets the moment, as for announcements.
BoundNow(m) == [day |-> today, time |-> Minute[m.time]]

(***************************************************************************)
(* The moment of the form, printed to the minute and parsed again.         *)
(***************************************************************************)
Bound(m) == [day |-> m.day, time |-> Minute[m.time]]

(***************************************************************************)
(* Whoever has the form decides, and again from it once it is shown anew:  *)
(* all of the form but the job is bound.  Nothing is written unless        *)
(* something changes.                                                      *)
(***************************************************************************)
EmployerApplicationUpdate(b) ==
  /\ user[b] \in Employers /\ page[b].id \in All
  /\ \E s \in Statuses :
       LET e == page[b].id
           a == row[e].application
           new == [a EXCEPT !.status = s, !.moment = Bound(a.moment)]
       IN  /\ page[b].version = row[e].version /\ row[e].version < MaxVersion
           /\ new # a
           /\ Sends(b, "update", e, row[e].version, new)

Answered(b) ==
  /\ request' = [request EXCEPT ![b] = NoRequest]
  /\ UNCHANGED <<today, user, page, chart>>

Created(b) ==
  /\ request[b].command = "create"
  /\ \E e \in Ids :
       /\ made[e] = None
       /\ made' = [made EXCEPT ![e] = request[b].application.moment.day]
       /\ row' = [row EXCEPT ![e] = [version |-> 0, application |-> request[b].application]]
  /\ Answered(b)

\* "where id = ? and version = ?" finds the row that the request has read.
Updated(b) ==
  /\ request[b].command = "update"
  /\ row[request[b].id].version = request[b].version
  /\ row' = [row EXCEPT ![request[b].id] =
               [version |-> request[b].version + 1, application |-> request[b].application]]
  /\ Answered(b) /\ UNCHANGED made

\* The commit fails: a row that has changed, a reference, the connection.
Failed(b) == request[b] # NoRequest /\ Answered(b) /\ UNCHANGED <<row, made>>

-----------------------------------------------------------------------------
(***************************************************************************)
(* The chart.  getDates: as many days as there are whole 24 hours between  *)
(* two midnights, from the limit on; an hour less makes it a day less.     *)
(***************************************************************************)
Limit(day) == day - Window

NumberOfDaysBetween(limit, now) ==
  IF \E d \in ShortDays : limit <= d /\ d < now THEN now - limit - 1 ELSE now - limit

GetDates(limit, now) == [i \in 1 .. NumberOfDaysBetween(limit, now) |-> limit + i - 1]

\* A mutant of Since: later than the limit.
Later(m, limit) == m.day > limit \/ (m.day = limit /\ m.time # Midnight)

\* "a.moment >= ?1", the midnight that the limit begins with.
Since(m, limit) == m.day >= limit

Selected(s, limit) ==
  {e \in All : row[e].application.status = s /\ Since(row[e].application.moment, limit)}

\* "select a.moment, count(a) ... group by a.moment", in whatever order.
PerDay(s, limit) ==
  {[moment |-> m,
    count |-> Cardinality({e \in Selected(s, limit) : row[e].application.moment = m})] :
     m \in {row[e].application.moment : e \in Selected(s, limit)}}

(***************************************************************************)
(* getDataByDate: replace(day, 0, n) puts the group of a day that comes    *)
(* first, and leaves it there for the others.                              *)
(***************************************************************************)
FirstOfDay(G, day) ==
  LET H == {g \in G : g.moment.day = day}
  IN  IF H = {} THEN {0} ELSE {g.count : g \in H}

IsDataByDate(data, G, dates) ==
  /\ DOMAIN data = DOMAIN dates
  /\ \A i \in DOMAIN dates : data[i] \in FirstOfDay(G, dates[i])

DataByDate(G, dates) ==
  {data \in [DOMAIN dates -> 0 .. Cardinality(Ids)] : IsDataByDate(data, G, dates)}

\* History: the applications of a status that were made on a day.
MadeOn(s, day) == {e \in All : row[e].application.status = s /\ made[e] = day}
Seen == [s \in Statuses |-> [d \in Days |-> Cardinality(MadeOn(s, d))]]

(***************************************************************************)
(* AdministratorDashboardShow: findOne takes the limit and makes its       *)
(* queries, and then counts the days from that limit to the day it is by   *)
(* then; unbind does the same again for the labels.  The queries read what *)
(* its transaction sees, since the totals that precede the limit.  A       *)
(* midnight between the two has the effect of one before both, on a tab    *)
(* that has not seen the rows that came last: the two are one step.        *)
(***************************************************************************)
Dashboard(b, c) ==
  /\ chart' = [chart EXCEPT ![b] = c]
  /\ UNCHANGED <<today, row, made, user, request>>

Queried(b) ==
  /\ user[b] = Administrator /\ Idle(b)
  /\ Dashboard(b, [phase |-> "queried", limit |-> Limit(today),
                   groups |-> [s \in Statuses |-> PerDay(s, Limit(today))], seen |-> Seen])
  /\ UNCHANGED page

Counted(b) ==
  /\ chart[b].phase = "queried"
  /\ LET dates == GetDates(chart[b].limit, today)
     IN  \E p \in DataByDate(chart[b].groups["PENDING"], dates),
            a \in DataByDate(chart[b].groups["ACCEPTED"], dates),
            r \in DataByDate(chart[b].groups["REJECTED"], dates) :
           Dashboard(b, [phase |-> "counted", limit |-> chart[b].limit, seen |-> chart[b].seen,
                         data |-> [s \in Statuses |-> IF s = "PENDING" THEN p
                                                      ELSE IF s = "ACCEPTED" THEN a ELSE r]])
  /\ UNCHANGED page

Labelled(b) ==
  /\ chart[b].phase = "counted"
  /\ Dashboard(b, [phase |-> "labelled", limit |-> chart[b].limit, data |-> chart[b].data,
                   seen |-> chart[b].seen, from |-> Limit(today)])
  /\ UNCHANGED page

Drawn(b) ==
  /\ chart[b].phase = "labelled"
  /\ Dashboard(b, NoChart)
  /\ page' = [page EXCEPT ![b] = NoForm]

-----------------------------------------------------------------------------
NextDay == today < MaxDay /\ today' = today + 1 /\ UNCHANGED <<row, made, user, page, request, chart>>

Init ==
  /\ today = Window
  /\ row = [e \in Ids |-> None]
  /\ made = [e \in Ids |-> None]
  /\ user \in [Tabs -> Users]
  /\ page = [b \in Tabs |-> NoForm]
  /\ request = [b \in Tabs |-> NoRequest]
  /\ chart = [b \in Tabs |-> NoChart]

Next ==
  \/ NextDay
  \/ \E b \in Tabs :
       \/ SignIn(b)
       \/ EmployerApplicationListMine(b) \/ EmployerApplicationShow(b)
       \/ EmployerApplicationUpdateForm(b) \/ EmployerApplicationUpdate(b)
       \/ WorkerApplicationListMine(b) \/ WorkerApplicationShow(b) \/ WorkerApplicationCreate(b)
       \/ Created(b) \/ Updated(b) \/ Failed(b)
       \/ Queried(b) \/ Counted(b) \/ Labelled(b) \/ Drawn(b)

Spec == Init /\ [][Next]_vars

-----------------------------------------------------------------------------
(***************************************************************************)
(* However often an application is decided, from whatever old forms, it    *)
(* stays with its job and worker on the day on which it was made.          *)
(***************************************************************************)
Kept(e, a) == a.moment.day = made[e] /\ a.job = row[e].application.job /\ a.worker = row[e].application.worker

RequestMade(b) ==
  LET q == request[b] IN
    /\ q.command # "none" => q.application # None
    /\ q.command = "update" => q.id \in All /\ q.version \in Versions /\ q.version < MaxVersion
                                 /\ Kept(q.id, q.application)

(***************************************************************************)
(* What a dashboard in the making holds: a status has a group on a day if  *)
(* and only if an application was made on it, and no group of a day, so    *)
(* none of the numbers, exceeds those that were.                           *)
(***************************************************************************)
Truthful(n, seen) == n <= seen /\ (n = 0 <=> seen = 0)

ChartMade(b) ==
  LET c == chart[b] IN
    /\ c.phase # "none" => c.limit + Window <= today
    /\ c.phase = "queried" =>
         \A s \in Statuses, d \in Days : d >= c.limit =>
           \A n \in FirstOfDay(c.groups[s], d) : Truthful(n, c.seen[s][d])
    /\ c.phase \in {"counted", "labelled"} =>
         /\ \E now \in c.limit + Window .. today : \A s \in Statuses :
              DOMAIN c.data[s] = 1 .. NumberOfDaysBetween(c.limit, now)
         /\ \A s \in Statuses : \A i \in DOMAIN c.data[s] :
              c.limit + i - 1 \in Days /\ Truthful(c.data[s][i], c.seen[s][c.limit + i - 1])
    /\ c.phase = "labelled" => c.limit <= c.from /\ c.from + Window <= today

(***************************************************************************)
(* The invariant of the applications and of the dashboards in the making.  *)
(***************************************************************************)
IInv ==
  /\ TypeOK
  /\ \A e \in Ids : row[e] = None <=> made[e] = None
  /\ \A e \in All : Kept(e, row[e].application)
  /\ \A b \in Tabs : RequestMade(b) /\ ChartMade(b)

(***************************************************************************)
(* The number over a label of the chart is about the day of the label, or, *)
(* if midnights passed between the two readings of the limit, as many days *)
(* earlier.  It is nought if and only if no application that was of its    *)
(* status was made on that day, and never more than there were.  Unless    *)
(* midnight passed, each number has a label; numbers and labels are as     *)
(* many, unless it passed while the page was made.                         *)
(***************************************************************************)
DrawsTheDays(b) ==
  LET c == chart[b]
      labels == GetDates(c.from, today)
      late == c.from - c.limit
  IN  \A s \in Statuses :
        /\ late = 0 => DOMAIN c.data[s] \subseteq DOMAIN labels
        /\ today = c.limit + Window => DOMAIN c.data[s] = DOMAIN labels
        /\ \A i \in DOMAIN c.data[s] \intersect DOMAIN labels :
             Truthful(c.data[s][i], c.seen[s][labels[i] - late])

LabelsTellTheDays == [][\A b \in Tabs : Drawn(b) => DrawsTheDays(b)]_vars

=============================================================================
