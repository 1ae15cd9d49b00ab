-------------------------------- MODULE MCFiles --------------------------------
(***************************************************************************)
(* Two services, and one path of each kind that the code tells apart: a    *)
(* directory, two texts of different services, an image, a zip, and a file *)
(* still to be made in the directory, which is also what the zip holds.    *)
(***************************************************************************)
EXTENDS Files

MCServiceOf == [f \in Files |-> IF f = "b" THEN "s2" ELSE "s1"]
MCKind == [f \in Files |-> CASE f = "dir" -> "dir" [] f = "zip" -> "zip"
                             [] f = "img" -> "image" [] OTHER -> "text"]
MCAbove == [f \in Files |-> IF f = "new" THEN {"dir"} ELSE {}]
MCPacked == [f \in Files |-> IF f = "zip" THEN {"new"} ELSE {}]
===============================================================================
