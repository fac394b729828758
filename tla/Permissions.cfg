SPECIFICATION Spec
CONSTANTS
  w1 = w1
  w2 = w2
  nothing = nothing
  a_py = a_py
  out_py = out_py
  out_dir = out_dir
  pem = pem
  pytest = pytest
  pytestQ = pytestQ
  piped = piped
  rm = rm
  status = status
  statusS = statusS
  commit = commit
  commitM = commitM
  url = url
  urlDot = urlDot
  api = api
  apiDot = apiDot
  TOKEN = TOKEN
  HOME = HOME
  blank = blank
  Missing = nothing
  Blank = blank
  Windows <- TheWindows
  Requests <- TheRequests
  Targets <- TheTargets
  Outside <- TheOutside
  Sensitive <- TheSensitive
  Control <- TheControl
  Dangerous <- TheDangerous
  Verification <- TheVerification
  ReadonlyGit <- TheReadonlyGit
  Begins <- TheBegins
  Under <- TheUnder
  Word <- TheWord
  GrantHost <- TheGrantHost
  RequestHost <- TheRequestHost
  Scenes <- AllScenes
INVARIANTS
  RulesAreTheUsers
  RefusalsHold
PROPERTIES
  OutsideNeedsBypass
  NothingIsForgotten
