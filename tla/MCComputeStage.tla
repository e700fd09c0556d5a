--------------------------- MODULE MCComputeStage ---------------------------
(***************************************************************************)
(* Command lines as the harness writes them and as a reader of --help      *)
(* would; three plaintexts, one of them in two vectors; five operations,   *)
(* two of them iterations of a loop.                                       *)
(***************************************************************************)
EXTENDS ComputeStage, TLC

MCTargetIs == "--target=FOG" :> "FOG" @@ "--target=local" :> "local"
MCLevelIs == "--opt-level=O0" :> "O0" @@ "--opt-level=O3" :> "O3" @@ "-O1" :> "O1"
MCBareLevel == {"-O1"}

Harness(row, target, level) ==
  <<"--io-dir", "io", "--row", row, target, "--opt-level", level>>

MCCommandLines ==
  {Harness("0", "--target=FOG", "O3"), Harness("1", "--target=FOG", "O3"),
   Harness("0", "--target=FOG", "O0"), Harness("0", "--target=local", "O3"),
   << >>, <<"--target", "FOG", "--opt-level=O3">>,
   <<"--opt-level=O0", "--target", "local">>, <<"--row", "1", "--target">>,
   <<"--target=FOG", "-O1">>}

MCPrep == <<<<2, 3>>, <<1, 2>>>>
=============================================================================
