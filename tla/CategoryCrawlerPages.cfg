SPECIFICATION CrawlSpec
CONSTANTS
    Categories <- MCCategories
    Reserved <- MCReserved
    LowerCase <- MCLowerCase
    Listings <- RepeatedMidway
    Networks <- MCNetworks
    Stores <- MCStores
CHECK_DEADLOCK FALSE
INVARIANT AllPagesCompleted
