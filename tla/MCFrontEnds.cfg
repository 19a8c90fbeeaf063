SPECIFICATION Spec
CONSTANTS
  ticker = ticker
  h1 = h1
  noOffer = noOffer
  Ticker = ticker
  NoOffer = noOffer
  Handler = {h1}
  Item = {1}
  Start <- InReview
  Sends = {"request_changes", "approve_pr", "other"}
  Posts = {"begin_implementation"}
  Own = {"submit_review"}
  Ahead = 1
  MaxAge = 1
  ChallengeTTL = 1
  MaxTime = 2
  MaxMessages = 2
  MaxPosts = 1
  MaxMoves = 1
  MaxFaults = 1
INVARIANTS
  TypeOK
  MessageActsOnce
  NoneDropped
PROPERTIES
  MessagesSettle
  RowsCatchUp
