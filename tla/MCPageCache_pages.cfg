SPECIFICATION FairSpec
CONSTANTS
  Ids = {"a", "b", "v", "w", "server", "made"}
  Site <- MCSite
  Slots = {1}
INVARIANTS Covered OwnWritesShown
PROPERTY ComesToShow
