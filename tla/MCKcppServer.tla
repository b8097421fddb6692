---------------------------- MODULE MCKcppServer ----------------------------
(* Small instances of KcppServer for TLC.                                  *)
EXTENDS KcppServer, TLC

CONSTANTS p, q, s, k  \* model values: requests and a genkey

\* A plain request, one with a genkey that may be aborted in advance, a stream.
MCRequests == {p, q, s}
MCStreams == {s}
MCKeyOf == (p :> NoKey) @@ (q :> k) @@ (s :> NoKey)

\* A plain request and a stream that may be aborted in advance.
MCPair == {p, s}
MCPairKeyOf == (p :> NoKey) @@ (s :> k)
=============================================================================
