SPECIFICATION FairMonitor
CONSTANTS
  N = 1
  Scenario <- PowerUp
PROPERTIES Resumes
