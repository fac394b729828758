SPECIFICATION FairSpec
CONSTANTS
  Scenes <- SomeScenes
  MaxRequests = 6
  MaxQueue = 2
  MaxText = 3
CHECK_DEADLOCK FALSE
INVARIANTS
  EventsAreTheAnswer
PROPERTIES
  ImplementsProviderCall
  CallEnds
