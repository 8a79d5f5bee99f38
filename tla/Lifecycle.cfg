SPECIFICATION Spec
CONSTANTS
  Main = Main
  Others = {o1, o2}
  Plain = {public}
  Peer = peer
  Nobody = Nobody
INVARIANTS NoOrphan NothingOpenAtExit
PROPERTIES PeerReachable CloseCompletes ProcessEnds
CHECK_DEADLOCK FALSE
