----------------------------- MODULE MCVolumeRead -----------------------------
(***************************************************************************)
(* Instances of VolumeRead for TLC: a directory and a file that ends in    *)
(* the first sector of its second cluster.                                 *)
(***************************************************************************)
EXTENDS VolumeRead

MCEntries == {"root", "file"}
MCIsDir   == [e \in MCEntries |-> e = "root"]
MCSize    == [e \in MCEntries |->
                IF e = "root" THEN 0 ELSE SectorsPerCluster * SectorSize + 1]

===============================================================================
