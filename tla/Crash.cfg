CONSTANTS
  MaxWrites = 2
  MaxFile = 10
  Scenarios <- Kept
SPECIFICATION Spec
CHECK_DEADLOCK FALSE
INVARIANTS FilesInvariant OpenSucceeds OpenServesAcked LiveFilesExist SequencesAreFresh
PROPERTIES StoreSpec
