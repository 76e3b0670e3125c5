SPECIFICATION Spec
CONSTANTS
    BootDisk <- MCBootDisk
    UsbDisk <- MCUsbDisk
    Table <- MCTable
    Tree <- MCTree
    Volume <- MCVolume
    InitrdFile = {"a"}
    Path <- MCPath
    OpenPath <- MCOpenPath
    MountPoint <- MCMountPoint
    MAX_BLOCK_DEVICES = 7
    FAT32_MAX_MOUNTS = 3
    MAX_MOUNTS = 4
    MAX_COMPONENTS = 3
    Fd = {3}
    MaxChanges = 1
    MaxLost = 1
    NULL = NULL
INVARIANTS
    
    NodesOwned
