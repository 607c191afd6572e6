CONSTANTS
    Videos = {v1, v2}
    Cooldown = 1
    Slack = 1
    MaxTime = 2
    MaxPatches = 2
    MaxKills = 1
    NoVideo = NoVideo
SPECIFICATION FairSpec
INVARIANTS TypeOK PendingNotStranded DeathToldOnce DeferredIsNewest
PROPERTIES KillsOnlyAsked StopStops
