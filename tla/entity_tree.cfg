CONSTANTS
  portainer = portainer
  npm = npm
  endpoint = endpoint
  container = container
  proxy = proxy
  None = None
  Providers = {portainer, npm}
  Things = {endpoint, container, proxy}
  Entities = {e1, e2, e3}
  Requests = {r1, r2}
  MaxBusy = 2
  MaxEdits = 2
  ReportedBy <- MCReportedBy
  Polls <- MCPolls
  HostOf <- MCHostOf
  Answers <- MCAnswers
  Alike <- MCAlike
SPECIFICATION Spec
SYMMETRY Symmetric
INVARIANTS
  TypeOK
  AdaptersAloneBuildATree
PROPERTIES
  OnlyAnOverlapOrASyncClosesACircle
  RecordsStay
