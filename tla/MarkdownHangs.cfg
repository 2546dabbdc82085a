CONSTANTS
  None = None
  Base <- MCBase
  Pages <- MCPages
  MaxVisits = 3
  MaxUpsets = 3
  Hits <- MCHits
  FirstTab = "datasource"
  MaxMoves = 5
  Lines <- MCLines
  MaxLines = 4
  Tabs = {t1, t2}
  Messages = {m1, m2}
  MaxRating = 2
  MaxActs = 7
  Chats = {c1, c2}
  Answers = {a1}
  MaxClicks = 5
SPECIFICATION Spec
INVARIANT RendersIncrementally
CHECK_DEADLOCK FALSE
