------------------------------ MODULE MCVolume ------------------------------
(* Volume for TLC: drive sizes at which the choice of a layout changes, and  *)
(* parameters of f_mkfs that reach every branch of it.                       *)
EXTENDS Volume

Parm(fmt, sfd, n_fat, n_root, au, align) ==
  [fmt |-> fmt, sfd |-> sfd, n_fat |-> n_fat, n_root |-> n_root,
   au_size |-> au, align |-> align]

\* 128 is the RAM disk of the host build; 191 leaves 128 sectors for a
\* partition; the others are just inside or outside a FAT type, a cluster size
\* or a field of the boot sector.
MCDriveSize == {127, 128, 191, 4095, 65536, 131135, 4200000}

\* The first of the three is refused in every parameter and gives the defaults;
\* the last parameters of all leave a drive of 128 sectors without a cluster.
MCOpt ==
  {Parm(fmt, sfd, t[1], t[2], t[3], t[4]) :
     fmt \in {{"FAT"}, {"FAT32"}}, sfd \in BOOLEAN,
     t \in {<<3, 17, 1000, 3>>, <<2, 16, 512, 8>>, <<1, 32768, 131072, 4096>>}}
  \cup {Parm({"FAT", "FAT32"}, FALSE, 2, 0, 0, 0),
        Parm({}, TRUE, 1, 0, 0, 0), Parm({"FAT"}, TRUE, 1, 0, 0, 128)}
=============================================================================
