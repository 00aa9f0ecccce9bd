SPECIFICATION ImportFairSpec
CONSTANTS
  u1 = u1
  u2 = u2
  u3 = u3
  Uploads <- MCUploads
  Bodies <- MCBodies
  Jobs <- MCJobs
  Keys = {k1}
  None = None
  MaxAttempts = 2
  MaxFaults = 2
INVARIANTS
  ImportIndInv
  UploadsAgree
  FilesMatchImports
PROPERTIES
  ReadableImportsComplete
CHECK_DEADLOCK FALSE
