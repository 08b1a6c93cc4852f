\* Up to four requests, with at most one power cut among them.
CONSTANTS
  Modes = {"sidereal", "lunar"}
  Rates = {1}
  QueueLength = 2
  Budgets <- MCBudgets
  Omitted = Omitted
  Invalid = Invalid
  Sites = {"here", "there"}
  Default = "here"
  SiteKeys <- MCSiteKeys
  LimitKeys <- MCLimitKeys
  Places = {"p"}
  Factory = "factory"
  Unset = Unset
  MaxBoots = 2
SPECIFICATION Spec
INVARIANTS TypeOK OrderAsAsked StopForgets RevTellsChange
PROPERTIES ManualStopResumes AnsweredSurvives
CHECK_DEADLOCK FALSE
