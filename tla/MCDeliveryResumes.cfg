\* GitHub does not answer once while a publication is verified.
SPECIFICATION FairSpec
CONSTANTS
  MaxAttempts = 1
  MaxGrants = 2
  Call = {one, two}
  None = None
  MaxFaults = 1
CHECK_DEADLOCK FALSE
PROPERTIES
  PublicationResumes
