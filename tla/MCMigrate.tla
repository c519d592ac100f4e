----------------------------- MODULE MCMigrate -----------------------------
EXTENDS MigrateProps, TLC

CONSTANTS c1, c2, b1, b2, p1, p2, P, Q

\* One crate, whose release 2 brings one more binary.
MCProvides == (c1 :> << {b1}, {b1, b2} >>)

\* Two crates, one release each, that want the same binary.
CrossProvides == (c1 :> << {b1} >>) @@ (c2 :> << {b1} >>)

MCSymmetry == Permutations(Procs) \cup Permutations(Prefixes)

=============================================================================
