---------------------- MODULE MCDeliveryPublisher ----------------------
(* Instances of DeliveryPublisher for TLC: commit "base" has two         *)
(* children, "fix" and "fork", neither an ancestor of the other.         *)
EXTENDS DeliveryPublisher, TLC

CONSTANTS base, fix, fork, d1, op, f1

History == {<<base, base>>, <<fix, fix>>, <<fork, fork>>,
            <<base, fix>>, <<base, fork>>}

\* "fix" is committed already, with and without a branch to update, or the
\* workspace is still to be made.
MCStarts == {<<fix, base>>, <<fix, None>>, <<None, base>>}
=======================================================================
