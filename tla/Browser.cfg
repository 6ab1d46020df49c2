CONSTANTS
  Workspaces = {"v", "w"}
  MaxItems = 2
  Answers <- MCAnswers
  Slots = {1, 2}
  Mixes <- MCMixes
SPECIFICATION FairSpec
INVARIANTS IInv ShowsOwnWrites DrawnAsAnswered
PROPERTIES EveryWaitEnds
\* A behaviour ends when the user has done what the mix allows.
CHECK_DEADLOCK FALSE
