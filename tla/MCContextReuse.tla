--------------------------- MODULE MCContextReuse ---------------------------
(* Small instances of ContextReuse for TLC.  The thresholds are scaled down *)
(* with the context.                                                        *)
EXTENDS ContextReuse, TLC

CONSTANTS b, x, y  \* model values: the bos token and two others

MCTokens == {b, x, y}
MCSampled == {x, y}

Plain(p, gen) ==
  [prompt |-> p, memory |-> <<>>, blank |-> FALSE, max_length |-> gen,
   max_context_length |-> NCtx]

\* For plain fast-forwarding: a prompt, a continuation of it, another in a smaller
\* context, one that is too long and has added memory, a single token, a blank one.
MCShortRequests == {
  Plain(<<b, x, y, x>>, 2),
  Plain(<<b, x, y, x, x, y>>, 1),
  [Plain(<<b, x, y>>, 2) EXCEPT !.max_context_length = 6],
  [Plain(<<b, y, x, y, y, x, x, y, x>>, 1) EXCEPT !.memory = <<b, x, y, x, y>>],
  Plain(<<x>>, 1),
  [Plain(<<b>>, 1) EXCEPT !.blank = TRUE] }

\* For context shift and smart context: long prompts some of which lack a middle
\* part of others, as the prompts of a chat do when it runs into the context limit.
MCLongRequests == {
  Plain(<<b, x, y, x, y, x, x>>, 1),
  Plain(<<b, x, y, y, x, y>>, 1),
  Plain(<<b, y, x, y, y, x>>, 2),
  Plain(<<b, x, x, y, x>>, 2),
  Plain(<<b, y, y, x, x, y, y>>, 1),
  Plain(<<b, y, x, x, y, y, x>>, 1),
  Plain(<<b, y, x, y>>, 1) }

\* In contexts that hold less than a reply or not much more: twice more than there
\* is to cut, and twice nothing is left of a prompt, or of the memory.
MCTinyRequests == {
  [Plain(<<b, x>>, 2) EXCEPT !.max_context_length = 1],
  [Plain(<<b>>, 2) EXCEPT !.memory = <<b, x>>, !.max_context_length = 2],
  [Plain(<<b, y>>, 2) EXCEPT !.max_context_length = 2],
  [Plain(<<x>>, 2) EXCEPT !.memory = <<b, x>>, !.max_context_length = 3] }

\* For context shift: a request for no token at all.
MCNoTokens == Plain(<<b, x, y, x, y, x, x>>, 0)

MCRequests == MCShortRequests \cup MCLongRequests \cup MCTinyRequests \cup {MCNoTokens}

\* Which requests come in which mode; and with the long ones an abort begins where
\* there is a budget to save (one that begins before is no different).
MCScope ==
  /\ pc = "idle" /\ pc' = "reuse" =>
       request' \in CASE mode = "plain" -> MCShortRequests \cup MCTinyRequests
                      [] mode = "shift" -> MCLongRequests \cup {MCNoTokens}
                      [] mode = "smart" -> MCLongRequests
  /\ abort_pc' = "clear" => mode = "plain" \/ pc \notin {"idle", "reuse"}
=============================================================================
