SPECIFICATION FairSpec
CONSTANTS
    Port = {1, 2, 3}
    UhciPort = {2, 3}
    Attached <- MCAttached
    USB_MAX_DEVICES = 2
    MSC_MAX = 1
    Retries = 2
    Lba = {0, 1}
    Block = {0, 1}
    SectorSize = 128
    MaxCalls = 2
    MaxFaults = 2
    NULL = NULL
INVARIANTS SectorsTrue AddressesUnique FaultFree
PROPERTIES BootEnds
