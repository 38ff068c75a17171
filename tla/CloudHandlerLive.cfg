SPECIFICATION FairSpec
CONSTANTS
  ec1 = ec1
  ec2 = ec2
  room1 = room1
  room2 = room2
  Controllers = {ec1, ec2}
  Rooms = {room1, room2}
  MAX_KA_COUNT = 1
  WARNING_N_ROOMS = 1
  LIMIT_N_ROOMS = 1
  Attempts = 1
  Events = {"controller dies"}
  MaxIds = 2
  MaxWaiting = 1
  MaxInfos = 1
 
PROPERTIES RequestIsAnswered EndedIsRemoved
CHECK_DEADLOCK FALSE
