CONSTANTS
  n1 = n1
  n2 = n2
  n3 = n3
  n4 = n4
  readyList = readyList
  sleepingList = sleepingList
  Null = Null
  Node = {n1, n2, n3, n4}
  List = {readyList, sleepingList}
  Letter = {"a", "b"}
  Number <- Numbers
  MaxFormat = 5
  Path <- Paths
  NameSize = 4
SPECIFICATION ToolsSpec
CHECK_DEADLOCK FALSE
INVARIANTS
  WellLinked
  TextsTellArguments
  NamedAfterProgram
PROPERTIES
  ImplementsSequences
