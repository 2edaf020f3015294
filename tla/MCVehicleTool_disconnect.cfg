SPECIFICATION Spec
CONSTANTS
  car1 = car1
  car2 = car2
  Dev <- MCDev
  Profile <- MCProfile
  MtuArgs = {517}
  PeerMtus = {185, 600}
  Commands = {"single"}
  MaxLinks = 2
  MaxQueue = 2
CHECK_DEADLOCK FALSE
INVARIANT NoUseAfterDisconnect
