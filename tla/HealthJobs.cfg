SPECIFICATION JobsFairSpec
CONSTANTS
    None = None
    Client = {c1}
    MaxJobs = 2
    MaxRestarts = 1
    Scheduled = TRUE
    Cancels = TRUE
    Http = TRUE
 
PROPERTY QueueAnswered
PROPERTY HttpJobEnds
PROPERTY ProgressRecovers
