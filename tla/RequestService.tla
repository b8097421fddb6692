--------------------------- MODULE RequestService ---------------------------
(***************************************************************************)
(* What koboldcpp promises the clients of one model: requests are served   *)
(* one at a time and in any order, each at most once; one that waits may   *)
(* be closed without service (turned away, aborted in advance, malformed), *)
(* one whose generation has begun is closed only after it has ended.       *)
(***************************************************************************)
CONSTANT Requests

VARIABLE status  \* of each request

States == {"unsent", "waiting", "generating", "generated", "closed"}

Init == status = [r \in Requests |-> "unsent"]

Becomes(r, from, to) ==
  status[r] = from /\ status' = [status EXCEPT ![r] = to]

Send(r) == Becomes(r, "unsent", "waiting")

Begin(r) ==
  /\ \A s \in Requests : status[s] # "generating"
  /\ Becomes(r, "waiting", "generating")

End(r) == Becomes(r, "generating", "generated")

Close(r) == Becomes(r, "waiting", "closed") \/ Becomes(r, "generated", "closed")

Next == \E r \in Requests : Send(r) \/ Begin(r) \/ End(r) \/ Close(r)

Spec == Init /\ [][Next]_status
=============================================================================
