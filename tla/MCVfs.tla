-------------------------------- MODULE MCVfs --------------------------------
(* A disk with two FAT32 partitions of which one holds no volume, a blank RAM disk, and either of
   two pairs of USB disks: usb0, with a volume in a partition of another type, and usb3, which
   looks like a volume and is not; or usb1, a volume without a partition table, and usb2,
   for whose partition there is no room, so that it is found on the disk.  The
   volumes have a directory with a file, or an empty file of the directory's name, or nothing. *)
EXTENDS Vfs

MCBootDisk == <<"ide", "ram">>
MCUsbDisk == {<<"usb0", "usb3">>, <<"usb1", "usb2">>}

Part(index, fat, start) == [index |-> index, fat |-> fat, start_lba |-> start]

MCTable(disk) ==
    CASE disk = "ide"  -> [kind |-> "mbr", parts |-> <<Part(1, TRUE, 1), Part(2, TRUE, 2)>>]
      [] disk = "ram"  -> [kind |-> "blank"]
      [] disk = "usb0" -> [kind |-> "mbr", parts |-> <<Part(1, FALSE, 1)>>]
      [] disk = "usb2" -> [kind |-> "mbr", parts |-> <<Part(1, TRUE, 1)>>]
      [] disk \in {"usb1", "usb3"} -> [kind |-> "bpb"]

MCVolume == {<<"ide", 2>>, <<"usb0", 1>>, <<"usb1", 0>>, <<"usb2", 1>>}

MCTree(v) ==
    CASE v = <<"ide", 2>> -> (<<"a">> :> "dir") @@ (<<"a", "b">> :> "file")
      [] v = <<"usb1", 0>> -> <<>>
      [] v \in {<<"usb0", 1>>, <<"usb2", 1>>} -> (<<"a">> :> "empty")

Abs(parts) == [abs |-> TRUE, parts |-> parts]
Rel(parts) == [abs |-> FALSE, parts |-> parts]

MCMountPoint == {Abs(<<>>), Abs(<<"mnt">>), Abs(<<"mnt", "a">>), Abs(<<"mnt", "">>)}
MCPath == {Abs(<<"mnt", "..", "mnt", "a", "b">>), Rel(<<".", "a">>)}
MCOpenPath == MCPath \cup {Abs(<<"mnt">>)}
=============================================================================
