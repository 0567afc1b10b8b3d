SPECIFICATION CardsSpec
CONSTANTS
  Cards = {"card"}
  Learners = {"learner"}
  Reviews = {"review"}
  MaxReviews = 3
CHECK_DEADLOCK FALSE
PROPERTIES
  IntervalsGrow
