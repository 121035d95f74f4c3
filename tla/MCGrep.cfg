SPECIFICATION FairSpec
CONSTANTS
  BUF = 5
  Cases <- Short
PROPERTY GrepEnds
