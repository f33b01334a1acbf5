SPECIFICATION ProgressSpec
CONSTANTS
  Editor = {e1}
  PlayId = {p1, p2}
  Ratings = {1}
  LastDay = 2
PROPERTIES
  PlaysStayMarked
CHECK_DEADLOCK FALSE
