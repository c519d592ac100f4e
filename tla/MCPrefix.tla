------------------------------ MODULE MCPrefix ------------------------------
EXTENDS PrefixProps, TLC

CONSTANTS c1, c2, b1, b2, p1, p2

\* An update of c1 keeps one binary and retires the other, a downgrade keeps one and
\* introduces the other; an update of c2 introduces the one and retires the other.
\* Each release of c2 collides with one of c1, so the two can be there together only
\* with c1 at release 2 and c2 at release 1.
MCProvides ==
  (c1 :> << {b1, b2}, {b1} >>) @@ (c2 :> << {b2}, {b1} >>)

\* Every command, each where the other process can overtake its plan.
MCMenu ==
  (p1 :> {"update", "downgrade", "reinstall", "verify"}) @@
  (p2 :> {"install", "reinstallAll", "remove", "pin", "unpin"})

=============================================================================
