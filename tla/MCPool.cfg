SPECIFICATION RodentsSpec
CONSTANTS
  p1 = p1
  p2 = p2
  p3 = p3
  cat = cat
  b1 = b1
  b2 = b2
  NoOne = NoOne
  Process <- Everybody
  Pool = {b1, b2}
  Capacity <- ThreeAndOne
  Sizes = {1, 2}
  Handle <- Handles
  Priority = {0, 1}
  Urgency = {0}
  Ranks <- FirstRises
  InitPrio <- LastHigh
  Repertoire <- Share
  Duration = {1}
  MaxAgenda = 1
  Mice = {p1, p2}
  Rats = {p3}
  Cats = {cat}
  Cheese = b1
  Bites <- Bite
  Moods <- Mood
INVARIANTS
  HoldersTrue
PROPERTIES
  OutcomesTrue
  StrandedOnlyByRollback
\* Processes may wait for each other's units forever.
CHECK_DEADLOCK FALSE
