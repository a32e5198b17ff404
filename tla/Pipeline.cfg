SPECIFICATION PipelineFairSpec
CONSTANTS
  social = social
  page = page
  post = post
  ideas = ideas
  i1 = i1
  i2 = i2
  outline = outline
  Runs <- MCRuns
  TwoStage <- MCTwoStage
  ContentRuns <- MCContentRuns
  IdeasOnly <- MCIdeasOnly
  Ideas <- MCIdeas
  Selection <- MCSelection
  Cancellable = {social}
  Resumers = {h1}
  MaxConcurrent = 1
  RecoveryCap = 1
  MaxCrashes = 1
  MaxFaults = 1
  MaxRefine = 2
  MaxGatewayAttempts = 3
  MaxStarted = 1
  None = None
INVARIANTS
  StoredIsVerified
  CompletedHoldsTheChoice
  RefineBudget
  StopsAfterOneResult
  BadPromptNotRepeated
PROPERTIES
  ImplementsEngine
CHECK_DEADLOCK FALSE
