---------------------------- MODULE MCOmokProgram ----------------------------
EXTENDS OmokProgram

(* The two icons, the exit button, two cells (the second point is the left   *)
(* edge of its cell), and a place where nothing is.                          *)
MCPoints ==
  {<<150, 130>>, <<150, 250>>, <<930, 80>>, <<470, 110>>, <<491, 110>>, <<10, 10>>}
MCPlayed == {<<0, 0>>, <<1, 0>>}
MCMissing == {{}, {"bg"}, {"map"}, {"white"}}

=============================================================================
