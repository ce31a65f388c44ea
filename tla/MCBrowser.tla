------------------------------ MODULE MCBrowser -----------------------------
(***************************************************************************)
(* Two files of one folder can change rows when they are sorted, and the   *)
(* file of the other folder can take the row of one of them.               *)
(***************************************************************************)
EXTENDS Browser

TwoAndOne == "a" :> {"f", "g"} @@ "b" :> {"h"}
OneEach == "a" :> {"f"} @@ "b" :> {"h"}
OneFile == "a" :> {"f"}

=============================================================================
