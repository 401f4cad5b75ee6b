SPECIFICATION FairSpec
CONSTANTS
  Cases = {c1, c2}
  Disturbances = 2
  Sources = {"live", "saved"}
  Null = Null
INVARIANTS CursorCovers CompleteHasAll SessionsApart
PROPERTIES MirrorKeeps FeedArrives
CHECK_DEADLOCK FALSE
