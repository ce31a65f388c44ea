----------------------------- MODULE MCMountCycle ---------------------------
(***************************************************************************)
(* Mount tables for TLC: none, one, two side by side, one inside the other,*)
(* and two on one mount point, with and without options of their own.      *)
(***************************************************************************)
EXTENDS MountCycle

M(d, p, r) == [dev |-> d, at |-> p, ro |-> r, bare |-> TRUE]
WithOptions(m) == [m EXCEPT !.bare = FALSE]

Parts == {"sdx", "sdx1", "sdx2"}
PathLength == [p \in {"/a", "/b", "/a/x", "/tmp/reflash", "/media", "/media/x"} |->
    CASE p \in {"/a", "/b"} -> 2 [] p = "/a/x" -> 4 [] p = "/media" -> 6 [] p = "/media/x" -> 8 [] OTHER -> 12]
Nested == {<<"/a/x", "/a">>, <<"/media/x", "/media">>}

Temp == M("sdx", "/tmp/reflash", TRUE)
Desktop == {WithOptions(M("sdx1", "/media", FALSE)), WithOptions(M("sdx2", "/media/x", FALSE))}

SideBySide == {<<>>, <<WithOptions(M("sdx1", "/a", FALSE))>>, <<M("sdx1", "/a", FALSE), M("sdx2", "/b", TRUE)>>}
Stacked ==
    {<<M("sdx1", "/a", FALSE), M("sdx2", "/a/x", FALSE)>>,
     <<M("sdx1", "/a", TRUE), M("sdx2", "/a", FALSE)>>}
AllTables == SideBySide \cup Stacked

=============================================================================
