-------------------------- MODULE ApplicationsProofs --------------------------
(***************************************************************************)
(* The invariant of Applications, and what the chart of the dashboard      *)
(* says, for any number of users, jobs, applications, tabs and days.       *)
(***************************************************************************)
EXTENDS Applications, FiniteSetTheorems, SequenceTheorems, TLAPS

-----------------------------------------------------------------------------
(***************************************************************************)
(* Days: getDates gives at most as many as there are between the limit and *)
(* today, never fewer later on.                                            *)
(***************************************************************************)
LEMMA DaysBetween ==
  ASSUME NEW limit \in Days, NEW now \in Days, limit <= now
  PROVE  /\ NumberOfDaysBetween(limit, now) \in Nat
         /\ NumberOfDaysBetween(limit, now) <= now - limit
         /\ \A later \in Days : now < later =>
              NumberOfDaysBetween(limit, now) <= NumberOfDaysBetween(limit, later)
<1>1. ShortDays \subseteq Nat /\ MaxDay \in Nat
  BY BoundsAssumption
<1>2. \A n \in Days : limit <= n =>
        /\ NumberOfDaysBetween(limit, n) \in Nat
        /\ NumberOfDaysBetween(limit, n) <= n - limit
        /\ n - limit - 1 <= NumberOfDaysBetween(limit, n)
  BY <1>1 DEF NumberOfDaysBetween, Days
<1> QED BY <1>1, <1>2 DEF Days

LEMMA LimitIsADay ==
  ASSUME TypeOK
  PROVE  Limit(today) \in Days /\ Limit(today) + Window = today
BY BoundsAssumption DEF TypeOK, Limit, Days

(***************************************************************************)
(* Counting: subsets of the identifiers.                                   *)
(***************************************************************************)
LEMMA Counts ==
  ASSUME NEW S \in SUBSET Ids, NEW T \in SUBSET S
  PROVE  /\ Cardinality(T) \in Nat
         /\ Cardinality(T) <= Cardinality(S)
         /\ Cardinality(S) <= Cardinality(Ids)
         /\ Cardinality(T) = 0 <=> T = {}
<1>1. IsFiniteSet(S) /\ Cardinality(S) <= Cardinality(Ids)
  BY IdsAssumption, FS_Subset
<1>2. IsFiniteSet(T) /\ Cardinality(T) <= Cardinality(S)
  BY <1>1, FS_Subset
<1> QED BY <1>1, <1>2, FS_EmptySet, FS_CardinalityType

-----------------------------------------------------------------------------
(***************************************************************************)
(* What is on a row, and on the rows of a query.                           *)
(***************************************************************************)
LEMMA RowFacts ==
  ASSUME TypeOK, NEW e \in All
  PROVE  /\ e \in Ids
         /\ row[e] \in Rows
         /\ row[e].application \in Applications
         /\ row[e].application.moment \in Moments
         /\ row[e].application.moment.day \in Days
BY DEF TypeOK, All, Rows, Applications, Moments

(***************************************************************************)
(* The groups of a status tell on which days its applications were made.   *)
(***************************************************************************)
LEMMA GroupsTell ==
  ASSUME IInv, NEW s \in Statuses, NEW limit \in Days, NEW d \in Days, d >= limit,
         NEW n \in FirstOfDay(PerDay(s, limit), d)
  PROVE  Truthful(n, Seen[s][d])
<1> DEFINE H == {g \in PerDay(s, limit) : g.moment.day = d}
           Of(m) == {e \in Selected(s, limit) : row[e].application.moment = m}
<1>1. TypeOK /\ \A e \in All : row[e].application.moment.day = made[e]
  BY DEF IInv, Kept
<1>2. Seen[s][d] = Cardinality(MadeOn(s, d)) /\ MadeOn(s, d) \in SUBSET Ids
  BY DEF Seen, MadeOn, All
<1>3. \A m : m.day = d => Of(m) \in SUBSET MadeOn(s, d)
  BY <1>1 DEF Selected, MadeOn
<1>4. CASE H = {}
  <2>1. n = 0
    BY <1>4 DEF FirstOfDay
  <2>2. ASSUME NEW e \in MadeOn(s, d) PROVE FALSE
    <3> DEFINE m == row[e].application.moment
    <3>1. e \in All /\ m.day = d
      BY <1>1 DEF MadeOn
    <3>2. e \in Selected(s, limit)
      BY <3>1 DEF Selected, MadeOn, Since
    <3>3. [moment |-> m, count |-> Cardinality(Of(m))] \in PerDay(s, limit)
      BY <3>2 DEF PerDay
    <3>4. [moment |-> m, count |-> Cardinality(Of(m))] \in H
      BY <3>1, <3>3
    <3> QED BY <3>4, <1>4
  <2>3. Cardinality(MadeOn(s, d)) = 0
    BY <2>2, FS_EmptySet
  <2> QED BY <1>2, <2>1, <2>3 DEF Truthful
<1>5. CASE H # {}
  <2>1. PICK g \in H : n = g.count
    BY <1>5 DEF FirstOfDay
  <2>2. PICK e \in Selected(s, limit) :
          g = [moment |-> row[e].application.moment,
               count |-> Cardinality(Of(row[e].application.moment))]
    BY <2>1 DEF PerDay
  <2> DEFINE m == row[e].application.moment
  <2>3. n = Cardinality(Of(m)) /\ m.day = d /\ e \in Of(m)
    BY <2>1, <2>2
  <2>4. Of(m) \in SUBSET MadeOn(s, d)
    BY <1>3, <2>3
  <2>5. Of(m) # {} /\ MadeOn(s, d) # {}
    BY <2>3, <2>4
  <2> HIDE DEF Of, m
  <2>6. /\ Cardinality(Of(m)) \in Nat /\ Cardinality(Of(m)) <= Cardinality(MadeOn(s, d))
        /\ Cardinality(Of(m)) # 0
    BY <1>2, <2>4, <2>5, Counts
  <2>7. Cardinality(MadeOn(s, d)) \in Nat
    BY <1>2, Counts
  <2> QED BY <1>2, <2>3, <2>6, <2>7 DEF Truthful
<1> QED BY <1>4, <1>5

(***************************************************************************)
(* What the queries return is of the right type.                           *)
(***************************************************************************)
LEMMA QueriesTyped ==
  ASSUME TypeOK, NEW limit \in Days
  PROVE  /\ [s \in Statuses |-> PerDay(s, limit)] \in [Statuses -> SUBSET Groups]
         /\ Seen \in Tallies
<1>1. ASSUME NEW s \in Statuses, NEW g \in PerDay(s, limit) PROVE g \in Groups
  <2>1. PICK e \in Selected(s, limit) :
          g = [moment |-> row[e].application.moment,
               count |-> Cardinality({u \in Selected(s, limit) :
                                        row[u].application.moment = row[e].application.moment})]
    BY DEF PerDay
  <2>2. e \in All /\ row[e].application.moment \in Moments
    BY RowFacts DEF Selected
  <2>3. {u \in Selected(s, limit) : row[u].application.moment = row[e].application.moment} \in SUBSET Ids
    BY DEF Selected, All
  <2>4. g.count \in Nat
    BY <2>1, <2>3, Counts
  <2> QED BY <2>1, <2>2, <2>4 DEF Groups
<1>2. ASSUME NEW s \in Statuses, NEW d \in Days PROVE Cardinality(MadeOn(s, d)) \in Nat
  <2>1. MadeOn(s, d) \in SUBSET Ids
    BY DEF MadeOn, All
  <2> QED BY <2>1, Counts
<1> QED BY <1>1, <1>2 DEF Seen, Tallies

(***************************************************************************)
(* What a dashboard in the making is made of.                              *)
(***************************************************************************)
LEMMA ChartFacts ==
  ASSUME TypeOK, NEW b \in Tabs
  PROVE  /\ chart[b].phase # "none" => chart[b].limit \in Days /\ chart[b].seen \in Tallies
         /\ chart[b].phase = "queried" => chart[b].groups \in [Statuses -> SUBSET Groups]
         /\ chart[b].phase \in {"counted", "labelled"} => chart[b].data \in Numbers
         /\ chart[b].phase = "labelled" => chart[b].from \in Days
         /\ chart[b].phase \in {"none", "queried", "counted", "labelled"}
BY DEF TypeOK, Charts, NoChart

-----------------------------------------------------------------------------
(***************************************************************************)
(* The parts of the invariant, and the steps that leave them alone.        *)
(***************************************************************************)
RowsMade ==
  /\ \A e \in Ids : row[e] = None <=> made[e] = None
  /\ \A e \in All : Kept(e, row[e].application)

LEMMA Parts ==
  IInv <=> /\ TypeOK /\ RowsMade
           /\ \A b \in Tabs : RequestMade(b)
           /\ \A b \in Tabs : ChartMade(b)
BY DEF IInv, RowsMade

LEMMA RowsStay ==
  ASSUME RowsMade, UNCHANGED <<row, made>>
  PROVE  RowsMade'
BY DEF RowsMade, All, Kept

LEMMA RequestsStay ==
  ASSUME UNCHANGED <<row, made>>, NEW b \in Tabs, request'[b] = request[b], RequestMade(b)
  PROVE  RequestMade(b)'
BY DEF RequestMade, All, Kept

LEMMA ChartsStay ==
  ASSUME TypeOK, TypeOK', NEW b \in Tabs, ChartMade(b), chart'[b] = chart[b], today <= today'
  PROVE  ChartMade(b)'
<1>1. today \in Nat /\ today' \in Nat /\ Window \in Nat
  BY BoundsAssumption DEF TypeOK
<1>2. chart[b].phase # "none" => chart[b].limit \in Nat
  BY ChartFacts DEF Days
<1>3. chart[b].phase = "labelled" => chart[b].from \in Nat
  BY ChartFacts DEF Days
<1>4. ASSUME chart[b].phase # "none"
      PROVE  chart[b].limit + Window .. today \subseteq chart[b].limit + Window .. today'
  BY <1>1, <1>2, <1>4
<1>5. chart[b].phase # "none" => chart[b].limit + Window <= today'
  BY <1>1, <1>2 DEF ChartMade
<1>6. chart[b].phase = "labelled" => chart[b].from + Window <= today'
  BY <1>1, <1>3 DEF ChartMade
<1> QED BY <1>4, <1>5, <1>6 DEF ChartMade, FirstOfDay

(***************************************************************************)
(* Pages and users say nothing of applications.                            *)
(***************************************************************************)
LEMMA PagesStep ==
  ASSUME IInv, UNCHANGED <<today, row, made, request, chart>>,
         user' \in [Tabs -> Users],
         page' \in [Tabs -> Forms]
  PROVE  IInv'
<1>1. TypeOK'
  BY DEF IInv, TypeOK, Charts, Tallies, Numbers, Groups, Moments, Days, Rows, Applications, Versions
<1>2. RowsMade' /\ \A b \in Tabs : RequestMade(b)'
  BY Parts, RowsStay, RequestsStay
<1>3. today <= today'
  BY BoundsAssumption DEF IInv, TypeOK
<1>4. \A b \in Tabs : ChartMade(b)'
  BY <1>1, <1>3, Parts, ChartsStay
<1> QED BY <1>1, <1>2, <1>4 DEF IInv, RowsMade

LEMMA DisplayStep ==
  ASSUME IInv, NEW b \in Tabs, NEW p \in Forms,
         Displays(b, p)
  PROVE  IInv'
<1>1. page' \in [Tabs -> Forms]
  BY DEF IInv, TypeOK, Displays
<1>2. user' \in [Tabs -> Users]
  BY DEF IInv, TypeOK, Displays
<1> QED BY <1>1, <1>2, PagesStep DEF Displays

LEMMA ListStep ==
  ASSUME IInv, NEW b \in Tabs, Lists(b)
  PROVE  IInv'
BY DisplayStep DEF Lists, NoForm, Forms

LEMMA ShowStep ==
  ASSUME IInv, NEW b \in Tabs, NEW e \in All, Shows(b, e)
  PROVE  IInv'
<1>1. row[e].version \in Versions /\ e \in Ids
  BY RowFacts DEF IInv, Rows
<1> QED BY <1>1, DisplayStep DEF Shows, Forms

LEMMA SignInStep ==
  ASSUME IInv, NEW b \in Tabs, SignIn(b)
  PROVE  IInv'
<1>1. user' \in [Tabs -> Users]
  BY DEF IInv, TypeOK, SignIn
<1>2. page' \in [Tabs -> Forms]
  BY DEF IInv, TypeOK, SignIn, NoForm, Forms
<1> QED BY <1>1, <1>2, PagesStep DEF SignIn

LEMMA NextDayStep ==
  ASSUME IInv, NextDay
  PROVE  IInv'
<1>1. TypeOK'
  BY BoundsAssumption DEF IInv, TypeOK, NextDay, Charts, Tallies, Numbers, Groups, Moments, Days,
     Rows, Applications, Versions
<1>2. RowsMade' /\ \A b \in Tabs : RequestMade(b)'
  BY Parts, RowsStay, RequestsStay DEF NextDay
<1>3. today <= today'
  BY BoundsAssumption DEF IInv, TypeOK, NextDay
<1>4. \A b \in Tabs : ChartMade(b)'
  BY <1>1, <1>3, Parts, ChartsStay DEF NextDay
<1> QED BY <1>1, <1>2, <1>4 DEF IInv, RowsMade

-----------------------------------------------------------------------------
(***************************************************************************)
(* A request changes neither rows nor charts; it must be well made itself. *)
(***************************************************************************)
Requests ==
  [command : {"none", "create", "update"}, id : Ids \union {None},
   version : Versions \union {None}, application : Applications \union {None}]

LEMMA SendsStep ==
  ASSUME IInv, NEW b \in Tabs, NEW q \in Requests,
         request' = [request EXCEPT ![b] = q], RequestMade(b)',
         UNCHANGED <<today, row, made, user, page, chart>>
  PROVE  IInv'
<1>1. TypeOK'
  BY DEF IInv, TypeOK, Requests, Charts, Tallies, Numbers, Groups, Moments, Days, Rows,
     Applications, Versions
<1>2. RowsMade'
  BY Parts, RowsStay
<1>3. \A c \in Tabs : c # b => RequestMade(c)'
  BY Parts, RequestsStay DEF IInv, TypeOK
<1>4. \A c \in Tabs : ChartMade(c)'
  BY <1>1, Parts, ChartsStay, BoundsAssumption DEF IInv, TypeOK
<1> QED BY <1>1, <1>2, <1>3, <1>4 DEF IInv, RowsMade

LEMMA CreateStep ==
  ASSUME IInv, NEW b \in Tabs, WorkerApplicationCreate(b)
  PROVE  IInv'
<1>1. PICK j \in Jobs, t \in Times :
        Sends(b, "create", None, None,
          [job |-> j, worker |-> user[b], status |-> "PENDING",
           moment |-> [day |-> today, time |-> t]])
  BY DEF WorkerApplicationCreate
<1> DEFINE a == [job |-> j, worker |-> user[b], status |-> "PENDING",
                 moment |-> [day |-> today, time |-> t]]
           q == [command |-> "create", id |-> None, version |-> None, application |-> a]
<1>2. a \in Applications
  BY BoundsAssumption DEF IInv, TypeOK, WorkerApplicationCreate, Applications, Moments, Days, Statuses
<1> HIDE DEF a
<1>3. q \in Requests
  BY <1>2 DEF Requests
<1>4. request' = [request EXCEPT ![b] = q] /\ UNCHANGED <<today, row, made, user, page, chart>>
  BY <1>1 DEF Sends, a
<1>5. a # None
  BY <1>2, NoneAssumption
<1>6. request'[b] = q
  BY <1>4 DEF IInv, TypeOK
<1>7. RequestMade(b)'
  BY <1>5, <1>6 DEF RequestMade
<1> QED BY <1>3, <1>4, <1>7, SendsStep

LEMMA UpdateStep ==
  ASSUME IInv, NEW b \in Tabs, EmployerApplicationUpdate(b)
  PROVE  IInv'
<1> DEFINE e == page[b].id
<1>0. e \in All
  BY DEF EmployerApplicationUpdate
<1>1. PICK s \in Statuses :
        /\ row[e].version < MaxVersion
        /\ Sends(b, "update", e, row[e].version,
             [row[e].application EXCEPT !.status = s,
                                        !.moment = Bound(row[e].application.moment)])
  BY DEF EmployerApplicationUpdate
<1> DEFINE a == [row[e].application EXCEPT !.status = s,
                                           !.moment = Bound(row[e].application.moment)]
           q == [command |-> "update", id |-> e, version |-> row[e].version, application |-> a]
<1> HIDE DEF e
<1>2. /\ e \in Ids /\ row[e].version \in Versions
      /\ row[e].application \in Applications /\ row[e].application.moment \in Moments
  BY <1>0, RowFacts DEF IInv, Rows
<1>3. Bound(row[e].application.moment) \in Moments
  BY <1>2, TimesAssumption DEF Bound, Moments
<1>4. /\ a \in Applications
      /\ a.moment.day = row[e].application.moment.day
      /\ a.job = row[e].application.job /\ a.worker = row[e].application.worker
  BY <1>2, <1>3 DEF Applications, Bound
<1>5. Kept(e, a)
  BY <1>0, <1>4, Parts DEF RowsMade, Kept
<1> HIDE DEF a
<1>6. q \in Requests
  BY <1>2, <1>4 DEF Requests
<1>7. request' = [request EXCEPT ![b] = q] /\ UNCHANGED <<today, row, made, user, page, chart>>
  BY <1>1 DEF Sends, a
<1>8. a # None
  BY <1>4, NoneAssumption
<1>9. request'[b] = q /\ All' = All
  BY <1>7 DEF IInv, TypeOK, All
<1>10. RequestMade(b)'
  BY <1>0, <1>1, <1>2, <1>5, <1>7, <1>8, <1>9 DEF RequestMade, Kept
<1> QED BY <1>6, <1>7, <1>10, SendsStep

LEMMA FailedStep ==
  ASSUME IInv, NEW b \in Tabs, Failed(b)
  PROVE  IInv'
<1>1. NoRequest \in Requests
  BY DEF NoRequest, Requests
<1>2. /\ request' = [request EXCEPT ![b] = NoRequest]
      /\ UNCHANGED <<today, row, made, user, page, chart>>
  BY DEF Failed, Answered
<1>3. request'[b] = NoRequest
  BY <1>2 DEF IInv, TypeOK
<1>4. RequestMade(b)'
  BY <1>3 DEF RequestMade, NoRequest
<1> QED BY <1>1, <1>2, <1>4, SendsStep

-----------------------------------------------------------------------------
(***************************************************************************)
(* Rows are written: the requests in flight are about other new rows, or   *)
(* about this one with its day, job and worker.                            *)
(***************************************************************************)
LEMMA AnsweredTyped ==
  ASSUME TypeOK, NEW b \in Tabs, Answered(b),
         row' \in [Ids -> Rows \union {None}], made' \in [Ids -> Days \union {None}]
  PROVE  /\ TypeOK'
         /\ request'[b].command = "none"
         /\ \A c \in Tabs : c # b => request'[c] = request[c]
BY DEF TypeOK, Answered, NoRequest, Charts, Tallies, Numbers, Groups, Moments, Days, Rows,
   Applications, Versions

LEMMA CreatedStep ==
  ASSUME IInv, NEW b \in Tabs, Created(b)
  PROVE  IInv'
<1> DEFINE a == request[b].application
<1>1. TypeOK /\ RowsMade /\ Answered(b)
  BY Parts DEF Created
<1>2. PICK e \in Ids :
        /\ made[e] = None
        /\ made' = [made EXCEPT ![e] = a.moment.day]
        /\ row' = [row EXCEPT ![e] = [version |-> 0, application |-> a]]
  BY DEF Created
<1>3. a \in Applications
  BY Parts DEF RequestMade, Created, TypeOK
<1>4. a.moment.day \in Days /\ a.moment.day # None
  BY <1>3, NoneAssumption DEF Applications, Moments, Days
<1> DEFINE new == [version |-> 0, application |-> a]
<1>5. new \in Rows
  BY <1>3, BoundsAssumption DEF Rows, Versions
<1>6. new # None
  BY <1>5, NoneAssumption
<1>7. row[e] = None
  BY <1>1, <1>2 DEF RowsMade
<1>8. /\ row'[e] = new /\ made'[e] = a.moment.day
      /\ \A u \in Ids : u # e => row'[u] = row[u] /\ made'[u] = made[u]
  BY <1>1, <1>2 DEF TypeOK
<1>9. row' \in [Ids -> Rows \union {None}] /\ made' \in [Ids -> Days \union {None}]
  BY <1>1, <1>2, <1>4, <1>5 DEF TypeOK
<1>10. TypeOK' /\ request'[b].command = "none" /\ \A c \in Tabs : c # b => request'[c] = request[c]
  BY <1>1, <1>9, AnsweredTyped
<1>11. All' = All \union {e} /\ e \notin All
  BY <1>6, <1>7, <1>8 DEF All
<1>12. new.application = a
  OBVIOUS
<1> HIDE DEF new, a
<1>13. RowsMade'
  BY <1>1, <1>4, <1>6, <1>8, <1>11, <1>12 DEF RowsMade, Kept, All
<1>14. \A c \in Tabs : RequestMade(c)'
  <2> SUFFICES ASSUME NEW c \in Tabs, c # b PROVE RequestMade(c)'
    BY <1>10 DEF RequestMade
  <2>1. RequestMade(c) /\ request'[c] = request[c]
    BY <1>10, Parts
  <2>2. ASSUME request[c].command = "update"
        PROVE  /\ request[c].id \in All' /\ row'[request[c].id] = row[request[c].id]
               /\ made'[request[c].id] = made[request[c].id]
    <3>1. request[c].id \in All
      BY <2>1, <2>2 DEF RequestMade
    <3> QED BY <3>1, <1>8, <1>11 DEF All
  <2> QED BY <2>1, <2>2 DEF RequestMade, Kept
<1>15. \A c \in Tabs : ChartMade(c)'
  BY <1>1, <1>10, Parts, ChartsStay, BoundsAssumption DEF Answered, TypeOK
<1> QED BY <1>10, <1>13, <1>14, <1>15 DEF IInv, RowsMade

LEMMA UpdatedStep ==
  ASSUME IInv, NEW b \in Tabs, Updated(b)
  PROVE  IInv'
<1> DEFINE q == request[b]  a == q.application  e == q.id
           new == [version |-> q.version + 1, application |-> a]
<1>1. TypeOK /\ RowsMade /\ Answered(b) /\ UNCHANGED made
  BY Parts DEF Updated
<1>2. row' = [row EXCEPT ![e] = new]
  BY DEF Updated
<1>3. q.command = "update" /\ RequestMade(b)
  BY Parts DEF Updated
<1>4. e \in All /\ e \in Ids /\ q.version \in Versions /\ q.version < MaxVersion /\ Kept(e, a) /\ a # None
  BY <1>3 DEF RequestMade, All
<1>5. a \in Applications
  BY <1>1, <1>4 DEF TypeOK
<1>6. new \in Rows
  BY <1>4, <1>5, BoundsAssumption DEF Rows, Versions
<1>7. new # None /\ new.application = a
  BY <1>6, NoneAssumption
<1>8. row' \in [Ids -> Rows \union {None}] /\ made' \in [Ids -> Days \union {None}]
  BY <1>1, <1>2, <1>4, <1>6 DEF TypeOK
<1>9. TypeOK' /\ request'[b].command = "none" /\ \A c \in Tabs : c # b => request'[c] = request[c]
  BY <1>1, <1>8, AnsweredTyped
<1>10. row'[e] = new /\ \A u \in Ids : u # e => row'[u] = row[u]
  BY <1>1, <1>2, <1>4 DEF TypeOK
<1> HIDE DEF new, a, e, q
<1>11. All' = All
  BY <1>4, <1>7, <1>10 DEF All
<1>12. \A u \in All : /\ row'[u].application.job = row[u].application.job
                      /\ row'[u].application.worker = row[u].application.worker
  BY <1>4, <1>7, <1>10 DEF All, Kept
<1>13. RowsMade'
  <2>1. ASSUME NEW u \in All PROVE row'[u].application.moment.day = made[u]
    BY <1>1, <1>4, <1>7, <1>10, <2>1 DEF RowsMade, Kept, All
  <2>2. \A u \in All : Kept(u, row[u].application)'
    BY <1>1, <2>1 DEF Kept
  <2>3. \A u \in Ids : row'[u] = None <=> made'[u] = None
    BY <1>1, <1>4, <1>7, <1>10 DEF RowsMade, All
  <2> QED BY <1>11, <2>2, <2>3 DEF RowsMade
<1>14. \A c \in Tabs : RequestMade(c)'
  <2> SUFFICES ASSUME NEW c \in Tabs, c # b PROVE RequestMade(c)'
    BY <1>9 DEF RequestMade
  <2>1. RequestMade(c) /\ request'[c] = request[c]
    BY <1>9, Parts
  <2> QED BY <1>1, <1>11, <1>12, <2>1 DEF RequestMade, Kept
<1>15. \A c \in Tabs : ChartMade(c)'
  BY <1>1, <1>9, Parts, ChartsStay, BoundsAssumption DEF Answered, TypeOK
<1> QED BY <1>9, <1>13, <1>14, <1>15 DEF IInv, RowsMade

-----------------------------------------------------------------------------
(***************************************************************************)
(* A dashboard comes a step further; nothing else changes but its page.    *)
(***************************************************************************)
LEMMA DashboardStep ==
  ASSUME IInv, NEW b \in Tabs, NEW c \in Charts, Dashboard(b, c), ChartMade(b)',
         page' \in [Tabs -> Forms]
  PROVE  IInv'
<1>1. TypeOK'
  <2>1. chart' \in [Tabs -> Charts]
    BY DEF IInv, TypeOK, Dashboard
  <2>2. Charts' = Charts
    BY DEF Charts, Tallies, Numbers, Groups, Moments, Days, NoChart
  <2> QED BY <2>1, <2>2 DEF IInv, TypeOK, Dashboard, Moments, Days, Rows, Applications, Versions
<1>2. RowsMade' /\ \A u \in Tabs : RequestMade(u)'
  BY Parts, RowsStay, RequestsStay DEF Dashboard
<1>3. \A u \in Tabs : u # b => ChartMade(u)'
  BY <1>1, Parts, ChartsStay, BoundsAssumption DEF Dashboard, IInv, TypeOK
<1> QED BY <1>1, <1>2, <1>3 DEF IInv, RowsMade

LEMMA QueriedStep ==
  ASSUME IInv, NEW b \in Tabs, Queried(b)
  PROVE  IInv'
<1> DEFINE c == [phase |-> "queried", limit |-> Limit(today),
                 groups |-> [s \in Statuses |-> PerDay(s, Limit(today))], seen |-> Seen]
<1>1. TypeOK /\ Dashboard(b, c) /\ UNCHANGED <<page, today>>
  BY DEF IInv, Queried, Dashboard
<1>2. Limit(today) \in Days /\ Limit(today) + Window = today
  BY <1>1, LimitIsADay
<1>3. c \in Charts
  BY <1>1, <1>2, QueriesTyped DEF Charts
<1>4. \A s \in Statuses, d \in Days : d >= Limit(today) =>
        \A n \in FirstOfDay(PerDay(s, Limit(today)), d) : Truthful(n, Seen[s][d])
  BY <1>2, GroupsTell
<1>5. chart'[b] = c
  BY <1>1 DEF TypeOK, Dashboard
<1>6. /\ c.phase = "queried" /\ c.limit = Limit(today) /\ c.seen = Seen
      /\ \A s \in Statuses : c.groups[s] = PerDay(s, Limit(today))
  OBVIOUS
<1> HIDE DEF c
<1>7. c.limit + Window <= today'
  BY <1>1, <1>2, <1>6, BoundsAssumption DEF TypeOK
<1>8. \A s \in Statuses, d \in Days : d >= c.limit =>
        \A n \in FirstOfDay(c.groups[s], d) : Truthful(n, c.seen[s][d])
  BY <1>4, <1>6
<1>9. ChartMade(b)'
  BY <1>5, <1>6, <1>7, <1>8 DEF ChartMade, Truthful, FirstOfDay, Days
<1>10. page' \in [Tabs -> Forms]
  BY <1>1 DEF TypeOK
<1> QED BY <1>1, <1>3, <1>9, <1>10, DashboardStep

LEMMA CountedStep ==
  ASSUME IInv, NEW b \in Tabs, Counted(b)
  PROVE  IInv'
<1> DEFINE old == chart[b]
           n == NumberOfDaysBetween(old.limit, today)
           dates == GetDates(old.limit, today)
<1>1. TypeOK /\ ChartMade(b) /\ old.phase = "queried" /\ UNCHANGED page
  BY Parts DEF Counted
<1>2. /\ old.limit \in Days /\ old.seen \in Tallies /\ old.limit + Window <= today
      /\ today \in Days /\ Window \in Nat
  BY <1>1, ChartFacts, BoundsAssumption DEF ChartMade, TypeOK, Days
<1>3. old.limit <= today /\ old.limit + Window \in Nat
  BY <1>2 DEF Days
<1>4. n \in Nat /\ n <= today - old.limit
  BY <1>2, <1>3, DaysBetween
<1>5. DOMAIN dates = 1 .. n /\ \A i \in 1 .. n :
        dates[i] = old.limit + i - 1 /\ dates[i] \in Days /\ dates[i] >= old.limit
  <2>1. DOMAIN dates = 1 .. n /\ \A i \in 1 .. n : dates[i] = old.limit + i - 1
    BY DEF GetDates
  <2> HIDE DEF dates, n, old
  <2>2. \A i \in 1 .. n : old.limit + i - 1 \in Days /\ old.limit + i - 1 >= old.limit
    BY <1>2, <1>4, BoundsAssumption DEF Days
  <2> QED BY <2>1, <2>2
<1>6. \A s \in Statuses : \A data \in DataByDate(old.groups[s], dates) :
        /\ data \in Seq(Nat) /\ DOMAIN data = 1 .. n
        /\ \A i \in 1 .. n : Truthful(data[i], old.seen[s][dates[i]])
  <2> SUFFICES ASSUME NEW s \in Statuses, NEW data \in DataByDate(old.groups[s], dates)
               PROVE  /\ data \in Seq(Nat) /\ DOMAIN data = 1 .. n
                      /\ \A i \in 1 .. n : Truthful(data[i], old.seen[s][dates[i]])
    OBVIOUS
  <2>1. data \in [1 .. n -> 0 .. Cardinality(Ids)] /\ \A i \in 1 .. n : data[i] \in FirstOfDay(old.groups[s], dates[i])
    BY <1>5 DEF DataByDate, IsDataByDate
  <2>2. data \in [1 .. n -> Nat]
    BY <2>1
  <2>3. data \in Seq(Nat)
    BY <1>4, <2>2, SeqDef
  <2>4. \A i \in 1 .. n : Truthful(data[i], old.seen[s][dates[i]])
    BY <1>1, <1>5, <2>1 DEF ChartMade
  <2> QED BY <2>2, <2>3, <2>4
<1>7. PICK p \in DataByDate(old.groups["PENDING"], dates),
           a \in DataByDate(old.groups["ACCEPTED"], dates),
           r \in DataByDate(old.groups["REJECTED"], dates) :
        Dashboard(b, [phase |-> "counted", limit |-> old.limit, seen |-> old.seen,
                      data |-> [s \in Statuses |-> IF s = "PENDING" THEN p
                                                   ELSE IF s = "ACCEPTED" THEN a ELSE r]])
  BY DEF Counted
<1> DEFINE data == [s \in Statuses |-> IF s = "PENDING" THEN p
                                       ELSE IF s = "ACCEPTED" THEN a ELSE r]
           c == [phase |-> "counted", limit |-> old.limit, seen |-> old.seen, data |-> data]
<1>8. \A s \in Statuses : data[s] \in DataByDate(old.groups[s], dates)
  BY <1>7 DEF Statuses
<1> HIDE DEF n, dates
<1>9. \A s \in Statuses :
        /\ data[s] \in Seq(Nat) /\ DOMAIN data[s] = 1 .. n
        /\ \A i \in 1 .. n : Truthful(data[s][i], old.seen[s][dates[i]])
  BY <1>6, <1>8
<1>10. data \in Numbers
  BY <1>9 DEF Numbers
<1> HIDE DEF data, old
<1>11. c \in Charts
  BY <1>2, <1>10 DEF Charts
<1>12. Dashboard(b, c)
  BY <1>7 DEF old, data
<1>13. chart'[b] = c /\ today' = today
  BY <1>1, <1>12 DEF TypeOK, Dashboard
<1>14. c.phase = "counted" /\ c.limit = old.limit /\ c.seen = old.seen /\ c.data = data
  OBVIOUS
<1> HIDE DEF c
<1>15. c.limit + Window <= today' /\ today \in c.limit + Window .. today'
  BY <1>2, <1>3, <1>13, <1>14 DEF Days
<1>16. \A s \in Statuses : DOMAIN c.data[s] = 1 .. NumberOfDaysBetween(c.limit, today)
  BY <1>9, <1>14 DEF n, old
<1>17. \A s \in Statuses : \A i \in DOMAIN c.data[s] :
         c.limit + i - 1 \in Days /\ Truthful(c.data[s][i], c.seen[s][c.limit + i - 1])
  BY <1>5, <1>9, <1>14 DEF n, old
<1>18. ChartMade(b)'
  BY <1>13, <1>14, <1>15, <1>16, <1>17 DEF ChartMade, Truthful, Days, NumberOfDaysBetween
<1>19. page' \in [Tabs -> Forms]
  BY <1>1 DEF TypeOK
<1> QED BY <1>11, <1>12, <1>18, <1>19, DashboardStep

LEMMA LabelledStep ==
  ASSUME IInv, NEW b \in Tabs, Labelled(b)
  PROVE  IInv'
<1> DEFINE old == chart[b]
           c == [phase |-> "labelled", limit |-> old.limit, data |-> old.data,
                 seen |-> old.seen, from |-> Limit(today)]
<1>1. TypeOK /\ ChartMade(b) /\ old.phase = "counted" /\ Dashboard(b, c) /\ UNCHANGED <<page, today>>
  BY Parts DEF Labelled, Dashboard
<1>2. Limit(today) \in Days /\ Limit(today) + Window = today
  BY <1>1, LimitIsADay
<1>3. c \in Charts
  BY <1>1, <1>2, ChartFacts DEF Charts
<1>4. chart'[b] = c
  BY <1>1 DEF TypeOK, Dashboard
<1>5. /\ c.phase = "labelled" /\ c.limit = old.limit /\ c.data = old.data /\ c.seen = old.seen
      /\ c.from = Limit(today)
  OBVIOUS
<1> HIDE DEF c
<1>6. c.limit <= c.from /\ c.from + Window <= today'
  <2>1. old.limit \in Days /\ old.limit + Window <= today
    BY <1>1, ChartFacts DEF ChartMade
  <2> QED BY <1>1, <1>2, <1>5, <2>1, BoundsAssumption DEF TypeOK, Days
<1>7. ChartMade(b)'
  BY <1>1, <1>4, <1>5, <1>6 DEF ChartMade, Truthful, Days, NumberOfDaysBetween
<1>8. page' \in [Tabs -> Forms]
  BY <1>1 DEF TypeOK
<1> QED BY <1>1, <1>3, <1>7, <1>8, DashboardStep

LEMMA DrawnStep ==
  ASSUME IInv, NEW b \in Tabs, Drawn(b)
  PROVE  IInv'
<1>1. NoChart \in Charts /\ Dashboard(b, NoChart)
  BY DEF Charts, Drawn
<1>2. chart'[b] = NoChart
  BY <1>1 DEF IInv, TypeOK, Dashboard
<1>3. ChartMade(b)'
  BY <1>2 DEF ChartMade, NoChart
<1>4. page' \in [Tabs -> Forms]
  BY DEF IInv, TypeOK, Drawn, NoForm, Forms
<1> QED BY <1>1, <1>3, <1>4, DashboardStep

-----------------------------------------------------------------------------
LEMMA InitStep == Init => IInv
<1> SUFFICES ASSUME Init PROVE IInv
  OBVIOUS
<1>1. TypeOK
  BY BoundsAssumption DEF Init, TypeOK, NoRequest, NoForm, Forms, Charts
<1>2. RowsMade
  BY DEF Init, RowsMade, All
<1>3. \A b \in Tabs : RequestMade(b)
  BY DEF Init, RequestMade, NoRequest
<1>4. \A b \in Tabs : ChartMade(b)
  BY DEF Init, ChartMade, NoChart
<1> QED BY <1>1, <1>2, <1>3, <1>4, Parts

LEMMA NextStep == IInv /\ [Next]_vars => IInv'
<1> SUFFICES ASSUME IInv, [Next]_vars PROVE IInv'
  OBVIOUS
<1>1. CASE UNCHANGED vars
  BY <1>1, PagesStep DEF vars, IInv, TypeOK
<1>2. CASE NextDay
  BY <1>2, NextDayStep
<1>3. ASSUME NEW b \in Tabs, SignIn(b) PROVE IInv'
  BY <1>3, SignInStep
<1>4. ASSUME NEW b \in Tabs, EmployerApplicationListMine(b) PROVE IInv'
  BY <1>4, ListStep DEF EmployerApplicationListMine
<1>5. ASSUME NEW b \in Tabs, EmployerApplicationShow(b) PROVE IInv'
  BY <1>5, ShowStep DEF EmployerApplicationShow, ManyByEmployer
<1>6. ASSUME NEW b \in Tabs, EmployerApplicationUpdate(b) PROVE IInv'
  BY <1>6, UpdateStep
<1>7. ASSUME NEW b \in Tabs, WorkerApplicationListMine(b) PROVE IInv'
  BY <1>7, ListStep DEF WorkerApplicationListMine
<1>8. ASSUME NEW b \in Tabs, WorkerApplicationShow(b) PROVE IInv'
  BY <1>8, ListStep DEF WorkerApplicationShow, Lists
<1>9. ASSUME NEW b \in Tabs, WorkerApplicationCreate(b) PROVE IInv'
  BY <1>9, CreateStep
<1>10. ASSUME NEW b \in Tabs, Created(b) PROVE IInv'
  BY <1>10, CreatedStep
<1>11. ASSUME NEW b \in Tabs, Updated(b) PROVE IInv'
  BY <1>11, UpdatedStep
<1>12. ASSUME NEW b \in Tabs, Failed(b) PROVE IInv'
  BY <1>12, FailedStep
<1>13. ASSUME NEW b \in Tabs, Queried(b) PROVE IInv'
  BY <1>13, QueriedStep
<1>14. ASSUME NEW b \in Tabs, Counted(b) PROVE IInv'
  BY <1>14, CountedStep
<1>15. ASSUME NEW b \in Tabs, Labelled(b) PROVE IInv'
  BY <1>15, LabelledStep
<1>16. ASSUME NEW b \in Tabs, Drawn(b) PROVE IInv'
  BY <1>16, DrawnStep
<1>17. ASSUME NEW b \in Tabs, EmployerApplicationUpdateForm(b) PROVE IInv'
  BY <1>17, ShowStep DEF EmployerApplicationUpdateForm
<1> QED BY <1>1, <1>2, <1>3, <1>4, <1>5, <1>6, <1>7, <1>8, <1>9, <1>10, <1>11, <1>12, <1>13,
           <1>14, <1>15, <1>16, <1>17 DEF Next

(***************************************************************************)
(* Applications keep their day, job and worker through every decision, and *)
(* the dashboards in the making tell the days on which they were made.     *)
(***************************************************************************)
THEOREM Invariance == Spec => []IInv
<1>1. Init => IInv
  BY InitStep
<1>2. IInv /\ [Next]_vars => IInv'
  BY NextStep
<1> QED BY <1>1, <1>2, PTL DEF Spec

-----------------------------------------------------------------------------
(***************************************************************************)
(* A dashboard is drawn: its numbers are about the days from the first     *)
(* limit on, its labels those from the second.  If these are the same, the *)
(* numbers were counted up to a day that is not later than today, so that  *)
(* there is a label for each.                                              *)
(***************************************************************************)
LEMMA DrawnTellsTheDays ==
  ASSUME IInv, NEW b \in Tabs, Drawn(b)
  PROVE  DrawsTheDays(b)
<1> DEFINE c == chart[b]
           N(day) == NumberOfDaysBetween(c.from, day)
           labels == GetDates(c.from, today)
           late == c.from - c.limit
<1>1. TypeOK /\ ChartMade(b) /\ c.phase = "labelled"
  BY Parts DEF Drawn
<1>2. c.limit \in Days /\ c.from \in Days /\ today \in Days /\ Window \in Nat /\ MaxDay \in Nat
  BY <1>1, ChartFacts, BoundsAssumption DEF TypeOK, Days
<1>3. PICK now \in c.limit + Window .. today :
        \A s \in Statuses : DOMAIN c.data[s] = 1 .. NumberOfDaysBetween(c.limit, now)
  BY <1>1 DEF ChartMade
<1>4. /\ now \in Days /\ c.limit <= now /\ now <= today
      /\ c.limit <= c.from /\ c.from + Window <= today /\ c.from <= today
  BY <1>1, <1>2, <1>3 DEF ChartMade, Days
<1>5. DOMAIN labels = 1 .. N(today) /\ \A i \in 1 .. N(today) : labels[i] = c.from + i - 1
  BY DEF GetDates
<1>6. N(today) \in Nat
  BY <1>2, <1>4, DaysBetween
<1>7. ASSUME late = 0
      PROVE  \A s \in Statuses : DOMAIN c.data[s] \subseteq DOMAIN labels
  <2>1. c.from = c.limit
    BY <1>2, <1>7 DEF Days
  <2>2. \A s \in Statuses : DOMAIN c.data[s] = 1 .. N(now)
    BY <1>3, <2>1
  <2>3. N(now) \in Nat
    BY <1>2, <1>4, <2>1, DaysBetween
  <2>4. now < today => N(now) <= N(today)
    BY <1>2, <1>4, <2>1, DaysBetween
  <2> HIDE DEF N
  <2>5. now < today \/ now = today
    BY <1>2, <1>4 DEF Days
  <2>6. N(now) <= N(today)
    BY <1>6, <2>3, <2>4, <2>5
  <2>7. 1 .. N(now) \subseteq 1 .. N(today)
    BY <1>6, <2>3, <2>6
  <2> QED BY <1>5, <2>2, <2>7
<1>8. ASSUME today = c.limit + Window
      PROVE  \A s \in Statuses : DOMAIN c.data[s] = DOMAIN labels
  <2>1. now = today /\ c.from = c.limit
    BY <1>2, <1>3, <1>4, <1>8 DEF Days
  <2> QED BY <1>3, <1>5, <2>1
<1>9. ASSUME NEW s \in Statuses, NEW i \in DOMAIN c.data[s] \intersect DOMAIN labels
      PROVE  Truthful(c.data[s][i], c.seen[s][labels[i] - late])
  <2>1. i \in Nat /\ labels[i] = c.from + i - 1
    BY <1>5, <1>6, <1>9
  <2> HIDE DEF labels
  <2>2. labels[i] - late = c.limit + i - 1
    BY <1>2, <2>1 DEF Days
  <2>3. Truthful(c.data[s][i], c.seen[s][c.limit + i - 1])
    BY <1>1, <1>9 DEF ChartMade
  <2> QED BY <2>2, <2>3
<1> QED BY <1>7, <1>8, <1>9 DEF DrawsTheDays

(***************************************************************************)
(* The chart of the dashboard says nought for exactly the days without     *)
(* applications of a status and never too many, over the label of the day, *)
(* or as many days after it as midnights passed between the two readings   *)
(* of its limit.                                                           *)
(***************************************************************************)
THEOREM ChartTellsTheDays == Spec => LabelsTellTheDays
<1>1. IInv => \A b \in Tabs : Drawn(b) => DrawsTheDays(b)
  BY DrawnTellsTheDays
<1> QED BY <1>1, Invariance, PTL DEF LabelsTellTheDays, Spec

=============================================================================
