SPECIFICATION SvSpec
CONSTANTS
  PostList <- MCPostList
  Arcs = {"TaalArcBeef"}
  PostTxs <- MCPostTxs
  Posts = {p1}
  Lookups = {l1}
  MaxPosts = 1
  MaxLookups = 1
CHECK_DEADLOCK FALSE
INVARIANTS SuccessWasTaken
