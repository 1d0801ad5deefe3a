\* Both apps; three chunks, two replacements, three links.
\* The chunks and links of the bound get used up, and the user may rest.
SPECIFICATION FairSpec
CONSTANTS
    Apps = {"phone", "web"}
    MaxChunks = 3
    MaxSenders = 3
    MaxLinks = 3
CHECK_DEADLOCK FALSE
INVARIANTS
    TypeOK
    OneLateChunk
    OldLinkEnded
    SenderInOrder
PROPERTIES
    WaitingIsHeard
