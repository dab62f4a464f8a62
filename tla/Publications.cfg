\* Two tabs, one or two sponsors, one or two rows beside the spam word.
SPECIFICATION PublicationsSpec
CONSTANTS
  Sponsors = {s1, s2}
  Administrator = administrator
  Visitor = visitor
  Identifiers = {w, e1, e2}
  SpamWord = w
  Texts = {t1, t2}
  FiveStars = {t1}
  Together <- TablesUsed
  Tabs = {a, b}
  Month = 1
  UtcOffset = 1
  MaxNow = 1
  MaxEditions = 1
  None = None
SYMMETRY Interchangeable
INVARIANTS PublicationsInv
PROPERTIES SpamNeedsNewWords AnnouncementsMoveForward
\* With none of the tables in use of theirs, the users of both tabs have nothing to do.
CHECK_DEADLOCK FALSE
