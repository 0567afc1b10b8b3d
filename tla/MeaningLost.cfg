SPECIFICATION ClaimSpec
CONSTANTS
  Meanings = {"is", "is not"}
  Negates = {}
  Passes = {"build", "job"}
  MaxClaims = 2
  MaxAnswer = 2
  MaxTime = 1
  MaxOpenReviews = 1
  MaxCorrelateClaims = 3
CHECK_DEADLOCK FALSE
INVARIANTS
  NoMeaningLost
