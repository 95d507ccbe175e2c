SPECIFICATION CrawlFairSpec
CONSTANTS
    Categories <- MCCategories
    Reserved <- MCReserved
    LowerCase <- MCLowerCase
    Listings <- MCListings
    Networks <- MCNetworks
    Stores <- MCStores
CHECK_DEADLOCK FALSE
INVARIANTS
    CrawlTypeOK
    CrawlComplete
    CardsInOrder
PROPERTY CrawlEnds
