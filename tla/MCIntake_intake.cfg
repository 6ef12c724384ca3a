SPECIFICATION INSpec
CONSTANTS
  u1 = u1  u2 = u2  b1 = b1  b2 = b2
  profanity = profanity  politics = politics
  Upload <- MCUpload
  Requests <- MCRequests
  Field <- MCField
  DefaultOn <- MCDefaultOn
  MaxFaults = 1
  MaxCrashes = 1
INVARIANTS
  INTypeOK
  StoredWhole
  FileAccounting
  
CHECK_DEADLOCK FALSE
