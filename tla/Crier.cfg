\* One or two workers, a failing reporter, failing API calls, a restart and a deletion.
SPECIFICATION FairSpec
CONSTANTS
    PJ = {"p1", "p2"}
    Worker = {"w1", "w2"}
    Revision <- MCRevision
    JobOf <- MCJobOf
    Created <- MCCreated
    NumRetries = 5
    Setting <- MCSetting
INVARIANT CIInv
INVARIANT ReportsInOrder
 
PROPERTY RecordNeverRegresses
