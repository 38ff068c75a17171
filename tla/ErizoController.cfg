SPECIFICATION Spec
CONSTANTS
  c1 = c1
  c2 = c2
  s1 = s1
  s2 = s2
  s3 = s3
  e1 = e1
  e2 = e2
  rec = rec
  TIMEOUT_LIMIT = 1
  Clients = {c1, c2}
  Streams = {s1, s2}
  Kind <- TwoErizo
  HasData = {s1, s2}
  Truncated = {}
  Erizos = {e1, e2}
  Recordings = {}
  Events = {"agent timeout", "erizo timeout", "connection failed", "erizo dies", "keepalive lost", "leaves early"}
INVARIANTS MapsAgree ReadyIsShown OwnerListsStream 
PROPERTIES PublisherGoesWithStream
SYMMETRY Symmetric
CHECK_DEADLOCK FALSE
