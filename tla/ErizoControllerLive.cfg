SPECIFICATION FairSpec
CONSTANTS
  c1 = c1
  c2 = c2
  s1 = s1
  s2 = s2
  s3 = s3
  e1 = e1
  e2 = e2
  rec = rec
  TIMEOUT_LIMIT = 1
  Clients = {c1}
  Streams = {s1, s2, s3}
  Kind <- OneOfEach
  HasData = {s3}
  Truncated = {s1}
  Erizos = {e1}
  Recordings = {rec}
  Events = {"agent timeout", "erizo timeout", "erizo dies", "keepalive lost", "room deletion"}
PROPERTIES DeadIsForgotten PublishIsAnswered
CHECK_DEADLOCK FALSE
