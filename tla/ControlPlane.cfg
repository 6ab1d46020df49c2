CONSTANTS
  Users = {"ann", "bob", "cy"}
  Slots = {s1, s2}
  Rows = {1, 2, 3, 4, 5, 6, 7, 8}
  Prefixes = {"p", "q"}
  MaxTime = 4
  Mixes <- MCMixes
  SlugBase <- MCSlugBase
  Suffixes = {1}
  Founders <- MCFounders
  GuestRole = {"none", "member", "viewer"}
  Stock <- MCStock
  KpiTtl = 1
  ReportTtl = 2
  QuerySpan = 1
  FunnelSteps = 3
  Results <- MCResults
SYMMETRY SlotSymmetry
SPECIFICATION Spec
INVARIANTS IInv AnswersStayInside AnswersAreRecent ServedLinkWasLive  ReadoutsMatch
PROPERTIES ChangesAreAuthorised
\* A behaviour ends when its requests are answered and its time is up.
CHECK_DEADLOCK FALSE
