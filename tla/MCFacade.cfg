CONSTANTS
  c1 = c1
  c2 = c2
  c3 = c3
  c4 = c4
  s1 = s1
  s2 = s2
  s3 = s3
  s4 = s4
  r1 = r1
  r2 = r2
  r0 = r0
  p1 = p1
  p2 = p2
  Clients = {c1, c2, c3, c4}
  Stores = {s1, s2, s3, s4}
  ProcessOf <- MCProcessOf
  Home <- MCHome
  Connections = {"w"}
  Datasets = {"d", "e"}
  ColumnNames = {"a"}
  Suites = {"q"}
  CheckNames = {"x", "y"}
  Earlier = {r0}
  Runs = {r0, r1, r2}
  Profiles = {p1, p2}
  Size <- MCSize
  Strict = {s3}
  Misaddressed = {s4}
  Faults = {"version", "record", "details", "delete", "open", "list", "execute"}
  Requests <- MCRequests
  Jobs <- MCJobs
  Schema = "s"
  Listing <- MCListing
  ColumnsOf <- MCColumns
  Declares <- MCDeclares
  RunIds <- MCRunIds
  ProfileIds <- MCProfiles
  MaxTables = 1
  AutoDiscover = {s3}
  NotifyOn = "failure"
  MaxRequests = 2
SYMMETRY Twins
SPECIFICATION FacadeSpec
INVARIANTS FacadeTypeOK OneBuilder RegistrySettles ReadsWhole RunAccounted CacheUsable PoolsDisposed CatalogueCounted
PROPERTIES ImplementsHistory
