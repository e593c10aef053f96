\* OAuth flows, daemon, credentials, MCP server, hot redeploy and pages: every
\* property.
\* The system may stop once its calls are used up.
SPECIFICATION WorkbenchSpec
CHECK_DEADLOCK FALSE
CONSTANTS
  f1 = f1  f2 = f2  f3 = f3  k1 = k1  k2 = k2  r1 = r1
  d1 = d1  d2 = d2  c1 = c1  c2 = c2
  Flows = {f1, f2, f3}
  Providers = {"google", "other"}
  ProviderOf <- MCProviderOf
  FromTools = {f2}
  WithSecret = {"google", "other"}
  Buildable = {"google"}
  Returns = {k1, k2}
  Refreshes = {r1}
  t1 = t1  t2 = t2  t3 = t3
  ToolCalls = {t1, t2, t3}
  MaxBuilds = 2
  Daemons = {d1, d2}
  Clients = {c1, c2}
  Reused = {d1}
  p1 = p1  p2 = p2
  Processes = {p1, p2}
  Commands <- MCCommands
  InitialStore <- MCInitialStore
  v1 = v1  s1 = s1  s2 = s2
  Functions <- MCFunctions
  FileOf <- MCFileOf
  ConsumerKey = "consumer"
  Viewers = {v1}
  MaxSaves = 2
  MaxDrops = 1
  Saves = {s1, s2}
  MaxLost = 1
INVARIANTS
  ReturnsItsOwnToken
  FoundAgain
  CredentialsSurvive
  ServerIsCandid
  RedeploySettles
  ViewShowsSavedConfig
PROPERTIES
  EverythingSettles
