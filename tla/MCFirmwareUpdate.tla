--------------------------- MODULE MCFirmwareUpdate ---------------------------
(* Instance of FirmwareUpdate for TLC.  The boot loader of card B spills over *)
(* the kernel with the padding of its last cylinder, its kernel is missing    *)
(* and its root file system is larger than the partition.                     *)
EXTENDS FirmwareUpdate

CONSTANTS CardA, CardB

MCCards == {CardA, CardB}
MCFileSize ==
  [c \in MCCards |-> IF c = CardA THEN [uboot |-> 2, uimage |-> 1, rootfs |-> 3]
                                  ELSE [uboot |-> 3, uimage |-> 0, rootfs |-> 4]]
MCOffset == [uboot |-> 1, uimage |-> 4, rootfs |-> 7]
MCLimit == [uboot |-> 10, uimage |-> 10, rootfs |-> 10]
=============================================================================
