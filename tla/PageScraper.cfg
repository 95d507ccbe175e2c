SPECIFICATION PageSpec
CONSTANTS
    URLs <- MCURLs
    Undotted <- MCUndotted
    Pages <- MCPages
    LowerCase <- MCLowerCase
    TokensIn <- MCTokensIn
    Noise <- MCNoise
    Mailbox <- MCMailbox
    SystemBoxes <- MCSystemBoxes
    CISHosts <- MCCISHosts
    SlavicNames <- MCSlavicNames
CHECK_DEADLOCK FALSE
INVARIANTS
    PageTypeOK
    ProfileMatchesPage
    FlagFollowsPage
