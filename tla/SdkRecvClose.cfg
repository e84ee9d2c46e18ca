SPECIFICATION FairSpec
CONSTANTS
 Senders={u1}
 Readers={v1}
 Room=1
 MostSends=2
 MostArrivals=2
CHECK_DEADLOCK FALSE

PROPERTIES RecvEndsOnClose
