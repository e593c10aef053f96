\* Realtime channels, object store, deploys and renders: every property.
\* The system may stop once its calls are used up.
SPECIFICATION ServicesSpec
CHECK_DEADLOCK FALSE
CONSTANTS
  p1 = p1  p2 = p2  s1 = s1  s2 = s2  s3 = s3  c1 = c1  c2 = c2  u1 = u1  u2 = u2
  Publications = {p1, p2}
  PublishRequests <- MCPublishRequests
  Subscriptions = {s1, s2, s3}
  SubscribeRequests <- MCSubscribeRequests
  Callbacks = {"f", "g"}
  Tokens = {"token"}
  TokenBody <- MCTokenBody
  ProductContexts = {"issue", "project"}
  TokenLife = 1
  MaxTime = 1
  Slots = {"default:a"}
  Contents <- MCContents
  UrlCalls = {c1, c2}
  UrlRequests <- MCUrlRequests
  Uploads = {u1, u2}
  UrlTtl = 1
  MaxObjectTtl = 1
  MaxObjectSize = 2
  MaxStoreTime = 1
  MaxVersion = 2
  Managers = {"simulator", "other"}
  Simulator = "simulator"
  Keys = {"KEY"}
  Values = {"v"}
  HostEnv <- MCHostEnv
  HostUserVars <- MCHostUserVars
  MaxInjects = 2
  Deploys = {d1, d2}
  d1 = d1  d2 = d2
  MaxEdits = 1
  Kinds <- MCKinds
  SourceOf <- MCSourceOf
  SourceFiles <- MCSourceFiles
  Modules = {"panel", "page"}
  FirstModule = "panel"
  Renders = {1, 2}
  Waits = {"wait"}
  LoaderCaches = TRUE
  MaxExtras = 1
INVARIANTS
  OwnContent
  CleanDeployRuns
  EnvIsRestored
PROPERTIES
  DeliveryIsExact
  SignedUrlsHold
