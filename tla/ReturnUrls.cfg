\* Two tabs, three levels of listings and one page to go back to.
SPECIFICATION Spec
CONSTANTS
  mine = mine  duties = duties
  show_job = show_job  show_duty = show_duty
  create_duty = create_duty  create_job = create_job
  Tabs = {tab1, tab2}
  Listings = {mine, duties}
  Forms = {show_job, show_duty, create_duty, create_job}
  Welcome = welcome  Footer = footer  Panic = panic
  Referrer = referrer  Closed = closed
  RowOf <- RowForms
  Buttons <- FormButtons
  Menu <- MenuPages
  returnStackSeparator = separator
  Null = null
  MaxDepth = 3
  MaxBack = 1
SYMMETRY TabSymmetry
INVARIANTS IInv
PROPERTIES ReturnsToOpener ImplementsStack
