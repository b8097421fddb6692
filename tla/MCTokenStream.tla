---------------------------- MODULE MCTokenStream ----------------------------
(***************************************************************************)
(* Streams of a few tokens for TLC: "ab" and a line break stop the model,  *)
(* some tokens are parts of "ab", some parts of a character, and two       *)
(* begin a character behind something else.                                *)
(***************************************************************************)
EXTENDS TokenStream

CONSTANTS x, a, b  \* model values: three letters

MCBytes == {x, a, b, Lead, Cont, Space, Newline}

MCTokens ==
  {<<>>, <<x>>, <<a>>, <<b>>, <<x, a>>, <<x, Newline>>, <<Space>>, <<Space, Lead>>,
   <<x, Lead>>, <<Cont, Lead>>, <<Lead>>, <<Cont>>}

MCStopSequences == <<<<a, b>>, <<Newline>>>>
=============================================================================
