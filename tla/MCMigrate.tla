----------------------------- MODULE MCMigrate ------------------------------
(* Small instances of Migrate for TLC.                                     *)
EXTENDS Migrate

\* A release, one that adds two migrations, one more, and one whose second
\* migration was edited.
Releases ==
    {<<"a">>, <<"a", "b", "c">>, <<"a", "b", "c", "d">>, <<"a", "x">>}
=============================================================================
