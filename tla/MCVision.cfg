CONSTANTS
  InputWidth = 24
  InputHeight = 24
  MinSide = 6
  MinSlack = 1
  Frames <- MCFrames
  Candidates <- MCCandidates
  MaxCandidates = 3
  People = {"ann", "bob"}
  Lengths = {1, 2}
  Directions = {1, 2, 3}
  Cosine <- MCCosine
  FirstFiles <- MCFiles
  MaxRows = 2
  KnownAt = 40
SPECIFICATION VisionSpec
INVARIANTS
  VisionInv SuppressionIsSound FacesInFrame ChoiceIsBest MemoryMatchesFile
  AnswersBest
