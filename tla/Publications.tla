----------------------------- MODULE Publications -----------------------------
(***************************************************************************)
(* What administrators and sponsors publish and visitors read:             *)
(* announcements, challenges, company and investor records, offers and     *)
(* requests, commercial and non-commercial banners, the credit cards that  *)
(* commercial banners ask for, the spam words that slogans are checked     *)
(* against and the accounts that administrators enable and disable.        *)
(*                                                                         *)
(* Every POST is authorised, bound and validated in the snapshot that its  *)
(* transaction takes (an action named for the service), and saved when the *)
(* transaction commits (Created, Updated, Deleted), where only the version *)
(* of its own row and the unique keys are looked at again.                 *)
(***************************************************************************)
EXTENDS FiniteSets, Naturals

CONSTANTS
  Sponsors, Administrator,
  Visitor,     \* anybody else, registered or not
  Identifiers,         \* identifiers, given once; SpamWord is the one that is there first
  SpamWord,
  Texts,       \* what slogans, records and spam words say
  FiveStars,   \* those of Texts with which a record has five stars
  Together,    \* bound: the sets of tables that are used in one behaviour
  Tabs,        \* the browser tabs
  Month,       \* how long announcements are shown
  UtcOffset,   \* how far the server's clock is ahead of UTC
  MaxNow, MaxEditions,   \* bounds on the clock and on the editions of a row
  None

AccountStatuses == {"ENABLED", "DISABLED"}

ASSUME SpamWordAssumption == SpamWord \in Identifiers
ASSUME UsersAssumption == {Administrator, Visitor} \intersect Sponsors = {}
ASSUME BoundsAssumption == Month \in Nat /\ UtcOffset \in Nat /\ MaxNow \in Nat /\ MaxEditions \in Nat
ASSUME NoneAssumption == None \notin Identifiers \union Texts \union AccountStatuses \union Sponsors \union Nat

VARIABLES
  now,      \* the clock
  tables,   \* the tables in use
  row,      \* the rows of the database
  taken,    \* the identifiers that hibernate_sequence has given out
  user,     \* the user of each tab
  page,     \* what each tab shows: a list, or the form of one row
  request   \* the POST that each tab waits for

publicationsVars == <<now, tables, row, taken, user, page, request>>

Banners == {"commercial", "noncommercial"}
Records == {"company", "investor"}
Kinds == Banners \union Records \union
  {"announcement", "challenge", "offer", "request", "card", "spamword", "account"}

\* The moment of an announcement, a deadline, the last month of a card.
Moments == 0 .. MaxNow + 1
Versions == 0 .. MaxEditions

Entity(kind, owner, text, moment) ==
  [kind |-> kind, owner |-> owner, text |-> text, moment |-> moment]
Entities ==
  [kind : Kinds, owner : Sponsors \union {None}, text : Texts \union AccountStatuses \union {None},
   moment : Moments \union {None}]

NoRequest ==
  [command |-> "none", id |-> None, version |-> None, entity |-> None, spam |-> {}]
Home == [kind |-> "none", ids |-> {}, version |-> None]

Rows == [version : Versions, entity : Entities]
Pages ==
  [kind : Kinds \union {"none"}, ids : SUBSET Identifiers, version : Versions \union {None}]
Posts ==
  [command : {"none", "create", "update", "delete"}, id : Identifiers \union {None},
   version : Versions \union {None}, entity : Entities \union {None}, spam : SUBSET Texts]

ASSUME RowsAssumption == None \notin Rows /\ None \notin Entities

PublicationsTypeOK ==
  /\ now \in 0 .. MaxNow
  /\ tables \in Together
  /\ row \in [Identifiers -> Rows \union {None}]
  /\ taken \in SUBSET Identifiers
  /\ user \in [Tabs -> Sponsors \union {Administrator, Visitor}]
  /\ page \in [Tabs -> Pages]
  /\ request \in [Tabs -> Posts]

-----------------------------------------------------------------------------
Table(kind) == {e \in Identifiers : row[e] # None /\ row[e].entity.kind = kind}

(***************************************************************************)
(* The services look at sponsor.getCreditCard(), which is set in the       *)
(* transaction that saves the card.  That this gives the sponsor's row     *)
(* another version can make the commit fail, and is left to Failed.        *)
(***************************************************************************)
CardsOf(s) == {e \in Table("card") : row[e].entity.owner = s}

\* What is_spam finds: the threshold decides which texts a word condemns.
Spam == {row[e].entity.text : e \in Table("spamword")}

\* A mutant of Clean: the slogan is not looked at.
CleanAnyway(text) == TRUE

Clean(text) == text \notin Spam

Owns(s, e) == s \in Sponsors /\ row[e].entity.owner = s

Idle(b) == request[b] = NoRequest

-----------------------------------------------------------------------------
(***************************************************************************)
(* The pages.  A form holds the version of the row it was made of; it is   *)
(* reached from a list, perhaps an old one, a bookmark or a typed address. *)
(***************************************************************************)
Displays(b, p) ==
  /\ Idle(b)
  /\ page' = [page EXCEPT ![b] = p]
  /\ UNCHANGED <<now, tables, row, taken, user, request>>

Lists(b, u, kind, E) ==
  /\ user[b] = u /\ kind \in tables
  /\ Displays(b, [kind |-> kind, ids |-> E, version |-> None])

Shows(b, u, kind, E) ==
  /\ user[b] = u /\ kind \in tables
  /\ \E e \in E \intersect Table(kind) :
       Displays(b, [kind |-> kind, ids |-> {e}, version |-> row[e].version])

AdministratorAnnouncementList(b) == Lists(b, Administrator, "announcement", Table("announcement"))
AdministratorAnnouncementShow(b) == Shows(b, Administrator, "announcement", Identifiers)

AdministratorChallengeList(b) ==
  Lists(b, Administrator, "challenge", {e \in Table("challenge") : row[e].entity.moment >= now})
AdministratorChallengeShow(b) == Shows(b, Administrator, "challenge", Identifiers)

AdministratorCompanyRecordList(b) == Lists(b, Administrator, "company", Table("company"))
AdministratorCompanyRecordShow(b) == Shows(b, Administrator, "company", Identifiers)

AdministratorInvestorRecordList(b) == Lists(b, Administrator, "investor", Table("investor"))
AdministratorInvestorRecordShow(b) == Shows(b, Administrator, "investor", Identifiers)

AdministratorCommercialBannerList(b) == Lists(b, Administrator, "commercial", Table("commercial"))
AdministratorCommercialBannerShow(b) == Shows(b, Administrator, "commercial", Identifiers)

AdministratorNonCommercialBannerList(b) ==
  Lists(b, Administrator, "noncommercial", Table("noncommercial"))
AdministratorNonCommercialBannerShow(b) == Shows(b, Administrator, "noncommercial", Identifiers)

AdministratorUserAccountList(b) == Lists(b, Administrator, "account", Table("account"))
AdministratorUserAccountShow(b) == Shows(b, Administrator, "account", Identifiers)

AdministratorSpamWordList(b) == Lists(b, Administrator, "spamword", Table("spamword"))
AdministratorSpamWordShow(b) == Shows(b, Administrator, "spamword", Identifiers)

Own(s, kind) == {e \in Table(kind) : row[e].entity.owner = s}

\* Without a credit card the page cannot be shown: its getter returns null.
SponsorCommercialBannerListMine(b, s) ==
  CardsOf(s) # {} /\ Lists(b, s, "commercial", Own(s, "commercial"))
SponsorCommercialBannerShow(b, s) ==
  \E e \in Table("commercial") : Owns(s, e) /\ Shows(b, s, "commercial", {e})

SponsorNonCommercialBannerListMine(b, s) == Lists(b, s, "noncommercial", Own(s, "noncommercial"))
SponsorNonCommercialBannerShow(b, s) ==
  \E e \in Table("noncommercial") : Owns(s, e) /\ Shows(b, s, "noncommercial", {e})

\* The menu leads to the form of the sponsor's own card.
SponsorCreditCardForm(b, s) == Shows(b, s, "card", CardsOf(s))

-----------------------------------------------------------------------------
(***************************************************************************)
(* What anybody, registered or not, may read.                              *)
(***************************************************************************)
Recent == {e \in Table("announcement") : row[e].entity.moment + Month > now}
Top(kind) == {e \in Table(kind) : row[e].entity.text \in FiveStars}

AuthenticatedAnnouncementList(b) == Lists(b, Visitor, "announcement", Recent)
AuthenticatedAnnouncementShow(b) == Shows(b, Visitor, "announcement", Identifiers)
AnonymousAnnouncementList(b) == Lists(b, Visitor, "announcement", Recent)
AnonymousAnnouncementShow(b) == Shows(b, Visitor, "announcement", Identifiers)

AuthenticatedChallengeList(b) ==
  Lists(b, Visitor, "challenge", {e \in Table("challenge") : row[e].entity.moment > now})
AuthenticatedChallengeShow(b) == Shows(b, Visitor, "challenge", Identifiers)

AuthenticatedOfferList(b) ==
  Lists(b, Visitor, "offer", {e \in Table("offer") : row[e].entity.moment >= now})
AuthenticatedOfferShow(b) == Shows(b, Visitor, "offer", Identifiers)

\* Deadlines are compared with the time in UTC, offers' ones with that of the server.
AuthenticatedRequestList(b) ==
  Lists(b, Visitor, "request",
        {e \in Table("request") : row[e].entity.moment + UtcOffset >= now})
AuthenticatedRequestShow(b) == Shows(b, Visitor, "request", Identifiers)

AuthenticatedCompanyRecordList(b) == Lists(b, Visitor, "company", Table("company"))
AuthenticatedCompanyRecordShow(b) == Shows(b, Visitor, "company", Identifiers)
AnonymousCompanyRecordList(b) == Lists(b, Visitor, "company", Table("company"))
AnonymousTopCompanyRecordList(b) == Lists(b, Visitor, "company", Top("company"))
AnonymousCompanyRecordShow(b) == Shows(b, Visitor, "company", Identifiers)

AuthenticatedInvestorRecordList(b) == Lists(b, Visitor, "investor", Table("investor"))
AuthenticatedInvestorRecordShow(b) == Shows(b, Visitor, "investor", Identifiers)
AnonymousInvestorRecordList(b) == Lists(b, Visitor, "investor", Table("investor"))
AnonymousTopInvestorRecordList(b) == Lists(b, Visitor, "investor", Top("investor"))
AnonymousInvestorRecordShow(b) == Shows(b, Visitor, "investor", Identifiers)

-----------------------------------------------------------------------------
(***************************************************************************)
(* The POSTs, up to the end of validate.  One that is refused, or that     *)
(* leaves the row as it was, changes nothing and is left out.              *)
(***************************************************************************)
Sends(b, u, command, e, version, entity) ==
  /\ Idle(b) /\ user[b] = u
  /\ request' = [request EXCEPT ![b] =
                   [command |-> command, id |-> e, version |-> version,
                    entity |-> entity, spam |-> Spam]]
  /\ UNCHANGED <<now, tables, row, taken, user, page>>

Create(b, u, entity) ==
  entity.kind \in tables /\ Sends(b, u, "create", None, None, entity)

\* The row that the form on the screen is of, if it is there still.
Opened(b, kind) ==
  {e \in page[b].ids \intersect Table(kind) : page[b].version # None}

\* The version of the form is bound to the entity, and merge compares it.
Update(b, u, e, entity) ==
  /\ page[b].version = row[e].version /\ row[e].version < MaxEditions
  /\ Sends(b, u, "update", e, row[e].version, entity)

\* A deletion binds nothing.
Delete(b, u, e) == Sends(b, u, "delete", e, row[e].version, None)

AdministratorAnnouncementCreate(b) == Create(b, Administrator, Entity("announcement", None, None, now))
AdministratorAnnouncementUpdate(b) ==
  \E e \in Opened(b, "announcement") :
    Update(b, Administrator, e, Entity("announcement", None, None, now))
AdministratorAnnouncementDelete(b) ==
  \E e \in Opened(b, "announcement") : Delete(b, Administrator, e)

AdministratorChallengeCreate(b) ==
  \E m \in Moments : m > now /\ Create(b, Administrator, Entity("challenge", None, None, m))
AdministratorChallengeUpdate(b) ==
  \E e \in Opened(b, "challenge"), m \in Moments :
    m # row[e].entity.moment /\ Update(b, Administrator, e, Entity("challenge", None, None, m))
AdministratorChallengeDelete(b) == \E e \in Opened(b, "challenge") : Delete(b, Administrator, e)

CreateRecord(b, kind) == \E t \in Texts : Create(b, Administrator, Entity(kind, None, t, None))
UpdateText(b, u, e, t) ==
  t # row[e].entity.text /\ Update(b, u, e, [row[e].entity EXCEPT !.text = t])
UpdateRecord(b, kind) ==
  \E e \in Opened(b, kind), t \in Texts : UpdateText(b, Administrator, e, t)
DeleteRecord(b, kind) == \E e \in Opened(b, kind) : Delete(b, Administrator, e)

AdministratorCompanyRecordCreate(b) == CreateRecord(b, "company")
AdministratorCompanyRecordUpdate(b) == UpdateRecord(b, "company")
AdministratorCompanyRecordDelete(b) == DeleteRecord(b, "company")

AdministratorInvestorRecordCreate(b) == CreateRecord(b, "investor")
AdministratorInvestorRecordUpdate(b) == UpdateRecord(b, "investor")
AdministratorInvestorRecordDelete(b) == DeleteRecord(b, "investor")

\* Administrators edit every banner; their slogans are not checked for spam.
AdministratorCommercialBannerCreate(b) == CreateRecord(b, "commercial")
AdministratorCommercialBannerUpdate(b) == UpdateRecord(b, "commercial")
AdministratorCommercialBannerDelete(b) == DeleteRecord(b, "commercial")

AdministratorNonCommercialBannerCreate(b) == CreateRecord(b, "noncommercial")
AdministratorNonCommercialBannerUpdate(b) == UpdateRecord(b, "noncommercial")
AdministratorNonCommercialBannerDelete(b) == DeleteRecord(b, "noncommercial")

\* Accounts are born enabled; the rest of an account is not edited here.
AnonymousUserAccountCreate(b) ==
  Create(b, Visitor, Entity("account", None, "ENABLED", None))
AdministratorUserAccountUpdate(b) ==
  \E e \in Opened(b, "account"), t \in AccountStatuses : UpdateText(b, Administrator, e, t)

\* Offers and requests are made once (their keys are in UniqueReferences);
\* validate asks for a deadline to come, for requests the entity does.
CreateDated(b, kind) ==
  \E m \in Moments : m > now /\ Create(b, Visitor, Entity(kind, None, None, m))
ConsumerOfferCreate(b) == CreateDated(b, "offer")
ProviderRequestCreate(b) == CreateDated(b, "request")

AdministratorSpamWordUpdate(b) == UpdateRecord(b, "spamword")

CreateBanner(b, s, kind) ==
  \E t \in Texts : Clean(t) /\ Create(b, s, Entity(kind, s, t, None))
UpdateBanner(b, s, kind) ==
  \E e \in Opened(b, kind), t \in Texts : Owns(s, e) /\ Clean(t) /\ UpdateText(b, s, e, t)
DeleteBanner(b, s, kind) == \E e \in Opened(b, kind) : Owns(s, e) /\ Delete(b, s, e)

\* A mutant of SponsorCommercialBannerCreate: without a card too.
SponsorCommercialBannerCreateAnyway(b, s) == CreateBanner(b, s, "commercial")

\* A sponsor without a card is not authorised: the null card raises an exception.
SponsorCommercialBannerCreate(b, s) == CardsOf(s) # {} /\ CreateBanner(b, s, "commercial")
SponsorCommercialBannerUpdate(b, s) == UpdateBanner(b, s, "commercial")
SponsorCommercialBannerDelete(b, s) == DeleteBanner(b, s, "commercial")

SponsorNonCommercialBannerCreate(b, s) == CreateBanner(b, s, "noncommercial")
SponsorNonCommercialBannerUpdate(b, s) == UpdateBanner(b, s, "noncommercial")
SponsorNonCommercialBannerDelete(b, s) == DeleteBanner(b, s, "noncommercial")

\* Cards must be good for a later month than this one.
SponsorCreditCardCreate(b, s) ==
  \E m \in Moments :
    m > now /\ CardsOf(s) = {} /\ Create(b, s, Entity("card", s, None, m))
SponsorCreditCardUpdate(b, s) ==
  \E e \in Opened(b, "card"), m \in Moments :
    m > now /\ m # row[e].entity.moment /\ Owns(s, e) /\ Update(b, s, e, Entity("card", s, None, m))

-----------------------------------------------------------------------------
(***************************************************************************)
(* The transaction of a POST ends.                                         *)
(***************************************************************************)
Answered(b) ==
  /\ request' = [request EXCEPT ![b] = NoRequest]
  /\ UNCHANGED <<now, tables, user, page>>

\* A mutant of OwnCard: the table of cards has no unique key.
AnyCard(entity) == TRUE

\* The unique key on the sponsor of a card.
OwnCard(entity) == entity.kind = "card" => CardsOf(entity.owner) = {}

Created(b) ==
  /\ request[b].command = "create" /\ OwnCard(request[b].entity)
  /\ \E e \in Identifiers \ taken :
       /\ taken' = taken \union {e}
       /\ row' = [row EXCEPT ![e] = [version |-> 0, entity |-> request[b].entity]]
  /\ Answered(b)

\* A mutant of Unchanged: the statement is restricted by id only.
StillThere(b) == row[request[b].id] # None

\* "where id = ? and version = ?" finds the row that the request has read.
Unchanged(b) ==
  /\ row[request[b].id] # None
  /\ row[request[b].id].version = request[b].version

Updated(b) ==
  /\ request[b].command = "update" /\ Unchanged(b)
  /\ row' = [row EXCEPT ![request[b].id] =
               [version |-> request[b].version + 1, entity |-> request[b].entity]]
  /\ Answered(b) /\ UNCHANGED taken

Deleted(b) ==
  /\ request[b].command = "delete" /\ Unchanged(b)
  /\ row' = [row EXCEPT ![request[b].id] = None]
  /\ Answered(b) /\ UNCHANGED taken

\* The commit fails: a row that has changed, a key, the connection.
Failed(b) == ~Idle(b) /\ Answered(b) /\ UNCHANGED <<row, taken>>

Tick == now < MaxNow /\ now' = now + 1 /\ UNCHANGED <<tables, row, taken, user, page, request>>

-----------------------------------------------------------------------------
PublicationsInit ==
  /\ now = 0
  /\ tables \in Together
  /\ \E t \in Texts :
       row = [e \in Identifiers |-> IF e # SpamWord THEN None
                            ELSE [version |-> 0, entity |-> Entity("spamword", None, t, None)]]
  /\ taken = {SpamWord}
  /\ user \in [Tabs -> Sponsors \union {Administrator, Visitor}]
  /\ page = [b \in Tabs |-> Home]
  /\ request = [b \in Tabs |-> NoRequest]

AdministratorPages(b) ==
  \/ AdministratorAnnouncementList(b) \/ AdministratorAnnouncementShow(b)
  \/ AdministratorChallengeList(b) \/ AdministratorChallengeShow(b)
  \/ AdministratorCompanyRecordList(b) \/ AdministratorCompanyRecordShow(b)
  \/ AdministratorInvestorRecordList(b) \/ AdministratorInvestorRecordShow(b)
  \/ AdministratorCommercialBannerList(b) \/ AdministratorCommercialBannerShow(b)
  \/ AdministratorNonCommercialBannerList(b) \/ AdministratorNonCommercialBannerShow(b)
  \/ AdministratorUserAccountList(b) \/ AdministratorUserAccountShow(b)
  \/ AdministratorSpamWordList(b) \/ AdministratorSpamWordShow(b)

VisitorPages(b) ==
  \/ AuthenticatedAnnouncementList(b) \/ AuthenticatedAnnouncementShow(b)
  \/ AnonymousAnnouncementList(b) \/ AnonymousAnnouncementShow(b)
  \/ AuthenticatedChallengeList(b) \/ AuthenticatedChallengeShow(b)
  \/ AuthenticatedOfferList(b) \/ AuthenticatedOfferShow(b)
  \/ AuthenticatedRequestList(b) \/ AuthenticatedRequestShow(b)
  \/ AuthenticatedCompanyRecordList(b) \/ AuthenticatedCompanyRecordShow(b)
  \/ AnonymousCompanyRecordList(b) \/ AnonymousTopCompanyRecordList(b)
  \/ AnonymousCompanyRecordShow(b)
  \/ AuthenticatedInvestorRecordList(b) \/ AuthenticatedInvestorRecordShow(b)
  \/ AnonymousInvestorRecordList(b) \/ AnonymousTopInvestorRecordList(b)
  \/ AnonymousInvestorRecordShow(b)

AdministratorPosts(b) ==
  \/ AdministratorAnnouncementCreate(b) \/ AdministratorAnnouncementUpdate(b)
  \/ AdministratorAnnouncementDelete(b)
  \/ AdministratorChallengeCreate(b) \/ AdministratorChallengeUpdate(b)
  \/ AdministratorChallengeDelete(b)
  \/ AdministratorCompanyRecordCreate(b) \/ AdministratorCompanyRecordUpdate(b)
  \/ AdministratorCompanyRecordDelete(b)
  \/ AdministratorInvestorRecordCreate(b) \/ AdministratorInvestorRecordUpdate(b)
  \/ AdministratorInvestorRecordDelete(b)
  \/ AdministratorCommercialBannerCreate(b) \/ AdministratorCommercialBannerUpdate(b)
  \/ AdministratorCommercialBannerDelete(b)
  \/ AdministratorNonCommercialBannerCreate(b) \/ AdministratorNonCommercialBannerUpdate(b)
  \/ AdministratorNonCommercialBannerDelete(b)
  \/ AdministratorUserAccountUpdate(b)
  \/ AdministratorSpamWordUpdate(b)

VisitorPosts(b) ==
  AnonymousUserAccountCreate(b) \/ ConsumerOfferCreate(b) \/ ProviderRequestCreate(b)

SponsorStep(b, s) ==
  \/ SponsorCommercialBannerListMine(b, s) \/ SponsorCommercialBannerShow(b, s)
  \/ SponsorCommercialBannerCreate(b, s) \/ SponsorCommercialBannerUpdate(b, s)
  \/ SponsorCommercialBannerDelete(b, s)
  \/ SponsorNonCommercialBannerListMine(b, s) \/ SponsorNonCommercialBannerShow(b, s)
  \/ SponsorNonCommercialBannerCreate(b, s) \/ SponsorNonCommercialBannerUpdate(b, s)
  \/ SponsorNonCommercialBannerDelete(b, s)
  \/ SponsorCreditCardForm(b, s) \/ SponsorCreditCardCreate(b, s)
  \/ SponsorCreditCardUpdate(b, s)

PublicationsNext ==
  \/ Tick
  \/ \E b \in Tabs : AdministratorPages(b) \/ AdministratorPosts(b)
  \/ \E b \in Tabs : VisitorPages(b) \/ VisitorPosts(b)
  \/ \E b \in Tabs, s \in Sponsors : SponsorStep(b, s)
  \/ \E b \in Tabs : Created(b) \/ Updated(b) \/ Deleted(b) \/ Failed(b)

PublicationsSpec == PublicationsInit /\ [][PublicationsNext]_publicationsVars

-----------------------------------------------------------------------------
\* The table of credit cards has a unique key on the sponsor.
OneCardEach == \A s \in Sponsors : \A e, f \in CardsOf(s) : e = f

BannersBacked ==
  \A e \in Table("commercial") :
    row[e].entity.owner # None => CardsOf(row[e].entity.owner) # {}

\* Announcements are dated when they are written, spam words have a text,
\* and nothing but banners and cards has an owner.
Proper(entity) ==
  /\ entity.owner # None => entity.kind \in Banners \union {"card"}
  /\ entity.kind = "announcement" => entity.moment \in 0 .. now
  /\ entity.kind = "spamword" => entity.text \in Texts

\* What is about to be written was proper, and clean by the words of its snapshot.
WriteMade(q, u) ==
  q.command \in {"create", "update"} =>
    /\ q.entity # None /\ Proper(q.entity)
    /\ u \in Sponsors => q.entity.text \notin q.spam

CreateMade(q) ==
  q.command = "create" /\ q.entity.kind = "commercial" /\ q.entity.owner # None =>
    CardsOf(q.entity.owner) # {}

\* It is about a row of the same table and owner, if that is there still.
UpdateMade(q) ==
  q.command = "update" =>
    /\ q.version < MaxEditions
    /\ row[q.id] # None =>
         /\ row[q.id].entity.kind = q.entity.kind
         /\ row[q.id].entity.owner = q.entity.owner
         /\ q.entity.kind = "announcement" /\ row[q.id].version = q.version =>
              row[q.id].entity.moment <= q.entity.moment

\* There is no form that deletes a credit card.
DeleteMade(q) ==
  q.command = "delete" /\ row[q.id] # None => row[q.id].entity.kind # "card"

SnapshotTaken(q) ==
  q.command \in {"update", "delete"} =>
    /\ q.id \in taken /\ q.version # None
    /\ row[q.id] # None => q.version <= row[q.id].version

Made(q, u) ==
  /\ WriteMade(q, u) /\ SnapshotTaken(q)
  /\ CreateMade(q) /\ UpdateMade(q) /\ DeleteMade(q)

RequestMade(b) == Made(request[b], user[b])

(***************************************************************************)
(* The inductive invariant: however forms and requests overlap, a sponsor  *)
(* has one credit card at most (two forms for the first one may be open at *)
(* once), the owner of a commercial banner has one, and a request in       *)
(* flight is about a row of the table and owner that it was read with,     *)
(* which it can neither delete if it is a card nor move back in time.      *)
(***************************************************************************)
PublicationsInv ==
  /\ PublicationsTypeOK
  /\ \A e \in Identifiers : row[e] # None => e \in taken /\ Proper(row[e].entity)
  /\ OneCardEach /\ BannersBacked
  /\ \A b \in Tabs : RequestMade(b)

(***************************************************************************)
(* A sponsor gets a slogan published that is spam by today's words only if *)
(* the words were edited between its validation and its commit.            *)
(***************************************************************************)
Saved(b, e) == request[b] # NoRequest /\ request'[b] = NoRequest /\ row'[e] # row[e] /\ row'[e] # None

SpamNeedsNewWords ==
  [][\A b \in Tabs, e \in Identifiers :
       Saved(b, e) /\ user[b] \in Sponsors /\ row'[e].entity.text \in Spam'
         => request[b].spam # Spam']_publicationsVars

(***************************************************************************)
(* An announcement is never moved back in time, although its new moment is *)
(* taken when the request is served and written when it commits.           *)
(***************************************************************************)
AnnouncementsMoveForward ==
  [][\A e \in Table("announcement") : row'[e] # None => row'[e].entity.moment >= row[e].entity.moment]_publicationsVars

=============================================================================
