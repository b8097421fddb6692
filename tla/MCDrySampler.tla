---------------------------- MODULE MCDrySampler ----------------------------
(***************************************************************************)
(* All contexts of a few tokens for TLC, with and without sequence         *)
(* breakers, some of which begin alike or overlap.                         *)
(***************************************************************************)
EXTENDS DrySampler

CONSTANTS a, b, c  \* model values: the tokens

MCTokens == {a, b, c}

Breakers == {{}, {<<c>>}, {<<b, c>>, <<c, a>>}, {<<a, b, c>>, <<a, c>>}}

MCSettings ==
  [allowed_length : {0, 1, 2}, penalty_range : {0, 6}, restart_sequences : Breakers]

=============================================================================
