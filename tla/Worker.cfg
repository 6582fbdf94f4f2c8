\* Two overlapping calls in every part; one journal beside a route kept from an
\* earlier version; one key; two recents at two sites, with one failing operation;
\* three image keys of one url; two windows of one neighbour each side, on either of
\* two trails.
CONSTANTS
  Parts = {"runtime", "keys", "history", "images", "navigation"}
  Calls = {c1, c2}
  \* InteropRuntime
  Dispatches = {c1, c2}
  Selections = {i1, i2}
  RouteProviders = {"icloud-drive", "pcloud"}
  LocalProvider = "icloud-drive"
  MaxJournals = 1
  \* KeySession
  KeyCalls = {c1, c2}
  Keys = {k1}
  Timeouts = {1, 2}
  MaxTime = 1
  MaxOps = 1
  MaxFailures = 1
  \* RecentHistory
  HistoryCalls = {c1, c2}
  Pages = {"page1", "page2"}
  Sites = {"site1", "site2"}
  SiteOf <- SiteOfPage
  Items = {i1, i2}
  Policies <- TwoPolicies
  Scopes = {"all"}
  MaxViews = 2
  MaxWrites = 1
  MaxWriteFaults = 1
  \* ImageRequests
  ImageCalls = {c1, c2}
  ImageKeys <- OneUrl
  Contexts = {"tab"}
  BudgetOf <- HalfAndWhole
  Sizes = {1, 2}
  MaxImages = 2
  MaxImageBytes = 3
  MaxSkips = 1
  MaxProbes = 1
  Ttl = 0
  LastTime = 1
  \* BufferedNavigation
  Urls = {0, 1}
  Radii = {0, 1}
  Trails <- TwoTrails
  MinSkips = 2
  HeadLimit = 1
  GetLimit = 1
  MaxRuns = 2
  MaxInputs = 2
  MaxBlobs = 2
SPECIFICATION Spec
SYMMETRY Symmetry
INVARIANTS
  TypeOK
  RoutesAreTrue
  WorkKeepsProvider
  LockSurvivesRestart
  ActivityIsRecorded
  StoredIsLatest
  ViewsAreOrdered
  CacheAddsUp
  AwaitedIsFetched
  WindowIsOfBase
  ParkedIsInFlight
CHECK_DEADLOCK FALSE
