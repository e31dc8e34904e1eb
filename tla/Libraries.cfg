SPECIFICATION LibSpec
CONSTANTS
  NSEC_PER_SEC = 6
  NSEC_PER_MSEC = 2
  Secs <- DrawnSecs
  Nsecs <- DrawnNsecs
  Objects = {o1, o2, o3}
  FdTable = {d1, d2, d3}
  NotOpen = NotOpen
  NoObject = NoObject
  INT_BITS = 4
  MASK_BITS = 8
  TEXT_LENGTH = 5
  MAX_REPLACED = 2
  MHZ_PER_KHZ = 60
  NSEC_MHZ = 1000
  UINT_RANGE = 100
  NoSubject = NoSubject
  Default = 9
  PropSubjects <- DrawnProps
  FormatSubjects <- DrawnFormats
  EdidSubjects <- DrawnEdid
  QuadSubjects <- DrawnQuads
  RequestSubjects <- DrawnRequests
  ModeSubjects <- DrawnModes
INVARIANTS
  AddExact
  SubExact
  MsecFloor
  ValueFound
  FormatsExact
  EdidExact
  QuadsTile
  RequestShowsFrame
  DescriptorsOwned
  RefreshNearest
CHECK_DEADLOCK FALSE
