------------------------- MODULE MCSnapshotPackage -------------------------
(***************************************************************************)
(* A small repository: a file the walk passes over, a directory with a     *)
(* file, a link to that, and a file; and configurations whose limit is     *)
(* left to the default, which the archive just meets, too small, just      *)
(* missed by the archive, or so large that sums overflow.                  *)
(***************************************************************************)
EXTENDS SnapshotPackage

Tree == [p \in Path |-> IF p = 3 THEN 2 ELSE 0]
Links == 4 :> 3
Candidates == <<5, 4>>
Configs == [max : {0, 3, 7, 24}, ttl : {"", "garbage"},
            mode : {"", "cloud-oss", "other"}, base : BOOLEAN,
            cloud : {TRUE}, known : {TRUE}]
Uploads == Permutations(Upload)
=============================================================================
