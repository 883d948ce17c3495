---------------------------- MODULE MCDatasets -----------------------------
(* The data domain on small instances.                                     *)
EXTENDS Datasets

(* One table, two in either order, and one table asked for twice.          *)
Lists == {<<"x">>, <<"x", "y">>, <<"y", "x">>, <<"x", "x">>}
=============================================================================
