SPECIFICATION Spec
VIEW View
CONSTANTS
    MaxGSN = 7
    Room = 1
    Instances <- MCInstances
INVARIANT LinksEnd
INVARIANT SubscribersAreServed
INVARIANT NoncesAreFresh
INVARIANT ChangesAreNoticed
INVARIANT AssertionsHold
PROPERTY AnswersMatchRequests
