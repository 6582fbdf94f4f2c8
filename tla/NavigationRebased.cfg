CONSTANTS
  Parts = {"navigation"}
  Calls = {c1, c2}
  \* InteropRuntime
  Dispatches = {c1, c2}
  Selections = {i1, i2}
  RouteProviders = {"icloud-drive", "pcloud"}
  LocalProvider = "icloud-drive"
  MaxJournals = 1
  \* KeySession
  KeyCalls = {c1, c2}
  Keys = {k1}
  Timeouts = {1, 2}
  MaxTime = 1
  MaxOps = 2
  MaxFailures = 1
  \* RecentHistory
  HistoryCalls = {c1, c2}
  Pages = {"page1", "page2"}
  Sites = {"site1", "site2"}
  SiteOf <- SiteOfPage
  Items = {i1, i2}
  Policies <- TwoPolicies
  Scopes = {"all"}
  MaxViews = 2
  MaxWrites = 1
  MaxWriteFaults = 1
  \* ImageRequests
  ImageCalls = {c1, c2}
  ImageKeys <- OneUrl
  Contexts = {"tab"}
  BudgetOf <- HalfAndWhole
  Sizes = {1, 2}
  MaxImages = 2
  MaxImageBytes = 3
  MaxSkips = 1
  MaxProbes = 1
  Ttl = 0
  LastTime = 1
  \* BufferedNavigation
  Urls = {0}
  Radii = {1}
  Trails <- TwoTrails
  MinSkips = 2
  HeadLimit = 1
  GetLimit = 1
  MaxRuns = 1
  MaxInputs = 3
  MaxBlobs = 2
SPECIFICATION Spec
INVARIANT
  StepsFromShown
CHECK_DEADLOCK FALSE
