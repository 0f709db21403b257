SPECIFICATION FairSpec
CONSTANTS RequestTries = 2 StopTries = 3
INVARIANTS TypeOK CheckedCyclesOwnBus HeldBusIsRequested StoppedOnlyAfterFailure
           RecordMatchesLine NmiRearmed
PROPERTIES LeaseRefinement NmiServiced HandlersReturn
