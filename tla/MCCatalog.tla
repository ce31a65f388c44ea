------------------------------ MODULE MCCatalog -----------------------------
(***************************************************************************)
(* A file two folders deep, so that delete_folder recurses and upsert_file *)
(* has several folders to make, and a special path.                        *)
(***************************************************************************)
EXTENDS Catalog

Photo == <<"d", "e", "f">>
Boot == <<"::boot">>

OneFile == {Photo}
OneSpecial == {Boot}
BootAndFile == <<Boot, Photo>>
TwoExtents == <<Photo, Photo>>

=============================================================================
