SPECIFICATION FairSpec
CONSTANT MaxEntries = 4
INVARIANTS TypeOK LockHeldBriefly GivesUpLate SuccessIsComplete
PROPERTIES IsTransferOfCluster TransferEnds
CHECK_DEADLOCK FALSE
