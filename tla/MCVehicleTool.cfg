SPECIFICATION Spec
CONSTANTS
  car1 = car1
  car2 = car2
  Dev <- MCDev
  Profile <- MCProfile
  MtuArgs = {10, 517, 66053}
  PeerMtus = {185, 600}
  Commands = {"change_lane", "send_data", "read_data"}
  MaxLinks = 2
  MaxQueue = 2
CHECK_DEADLOCK FALSE
INVARIANTS TypeOK PointersAgree OneChannel MtuAgreed HandlesAreCurrent
