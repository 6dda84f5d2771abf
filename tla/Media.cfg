\* Two uploads of one video by two companies, two workers, one fault.
CONSTANTS
  a1 = a1
  a2 = a2
  c1 = c1
  c2 = c2
  d1 = d1
  Asset = {a1, a2}
  Digest = {d1}
  Company = {c1, c2}
  DigestOf <- SameVideo
  CompanyOf <- OneEach
  Worker = {w1, w2}
  Nobody = Nobody
  MaxActive = 1
  MaxFaults = 1
  Scopes = {{a1, "abort", "attach", "archive", "purge", "creator"},
            {a1, "attach", "actor", "workspace"},
            {a1, a2, "workspace"}}
SPECIFICATION LiveSpec
CHECK_DEADLOCK FALSE
INVARIANTS
  TypeOK
  QuotaIsKept
  StorageIsTracked
  ReferencedAreKept
PROPERTIES
  UploadsAreDecided
