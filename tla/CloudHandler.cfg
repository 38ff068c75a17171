SPECIFICATION Spec
CONSTANTS
  ec1 = ec1
  ec2 = ec2
  room1 = room1
  room2 = room2
  Controllers = {ec1}
  Rooms = {room1, room2}
  MAX_KA_COUNT = 1
  WARNING_N_ROOMS = 1
  LIMIT_N_ROOMS = 1
  Attempts = 2
  Events = {"rpc timeout", "controller dies", "controller stalls", "nuve restarts"}
  MaxIds = 3
  MaxWaiting = 1
  MaxInfos = 1
INVARIANT RegistryIsSound
SYMMETRY RoomSymmetry
CHECK_DEADLOCK FALSE
