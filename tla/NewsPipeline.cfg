SPECIFICATION Spec
CONSTANTS
  a1 = a1
  a2 = a2
  b1 = b1
  None = None
  Articles = {a1, a2, b1}
  Named = {b1}
  SeenLimit = 1
  Recent = {a1, a2, b1}
  Doubled = {a2}
  Story <- MCStory
  Time <- MCTime
  Domain <- MCDomain
  Feed <- MCFeed
  Official <- MCOfficial
  Topics <- MCTopics
  MaxFaults = 1
  MaxCrashes = 1
CHECK_DEADLOCK FALSE
INVARIANTS
  TypeOK
  OneEventPerStory
  AnnouncedIsStored
  EarliestIsOriginal
PROPERTIES
  StoryDetected
