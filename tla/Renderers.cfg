SPECIFICATION RenderersSpec
CONSTANTS
  Timeout = 2
  StartupLimit = 1
  r1 = r1
  Resources = {r1}
  ConnectHangs = FALSE
  Written <- MCWritten
  LeftModes <- MCLeftModes
  BandRows = 2
  Labels <- MCLabels
  Hints <- MCHints
  U32 = 65536
INVARIANT HtmlIsContained
INVARIANT PaperIsAsWritten
INVARIANT LabelIsAsDrawn
PROPERTY RetryIsSafe
 
CHECK_DEADLOCK FALSE
