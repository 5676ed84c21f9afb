SPECIFICATION FairSpec
CONSTANTS
    host = host  speaker = speaker  viewer = viewer
    MediaRoles = {host, speaker, viewer}
    Publishers = {host, speaker}
    NoRole = NoRole
    MaxRevision = 5
    ProviderMayFail = TRUE
INVARIANTS
    PublishesAsAllowed
    NoChangeIgnored
    RestsInLine
PROPERTIES
    JoinsUnderCurrentAuthority
    ComesToRest
    AuthorityLossLeaves
CHECK_DEADLOCK FALSE
