SPECIFICATION CarefulSpec
CONSTANTS
    Uploads <- MCUploads
    Queries <- MCQueries
    Batches <- MCBatches
    Order <- MCOrder
    Units <- MCUnits
    MaxLines = 4
    MaxData = 4
    MaxFaults = 2
PROPERTIES
    RepliesMatch
    LateRepliesAreOlder
    UploadIsMeant
    CallsReturn
    LeftIsReplaced
CHECK_DEADLOCK FALSE
