---------------------------- MODULE ManifestSpec ----------------------------
(***************************************************************************)
(* What a prefix promises about its manifest, whoever works on it and      *)
(* whatever fails: the manifest changes one statement at a time - one      *)
(* crate's entry is committed, one crate's entry is dropped, or pins are   *)
(* set - no statement gives a binary two owners, and no commit moves or    *)
(* unpins a pinned crate.                                                  *)
(***************************************************************************)
EXTENDS Naturals

CONSTANTS Crates, Entries, NoEntry

VARIABLE manifest

BinsOf(m, c) == IF m[c] = NoEntry THEN {} ELSE m[c].bins

Init == manifest = [c \in Crates |-> NoEntry]

\* Crate c is installed, updated, downgraded or rebuilt as e.
CommitEntry(c, e) ==
  /\ \A d \in Crates \ {c} : e.bins \cap BinsOf(manifest, d) = {}
  /\ manifest[c] # NoEntry /\ manifest[c].pinned =>
       e.pinned /\ e.version = manifest[c].version
  /\ manifest' = [manifest EXCEPT ![c] = e]

\* Crate c is removed.
DropEntry(c) ==
  /\ manifest[c] # NoEntry
  /\ manifest' = [manifest EXCEPT ![c] = NoEntry]

\* The installed crates of S are pinned, or unpinned.
SetPins(S, bit) ==
  /\ \A c \in S : manifest[c] # NoEntry
  /\ manifest' = [c \in Crates |-> IF c \in S
                                   THEN [manifest[c] EXCEPT !.pinned = bit]
                                   ELSE manifest[c]]

Next ==
  \/ \E c \in Crates : DropEntry(c) \/ \E e \in Entries : CommitEntry(c, e)
  \/ \E S \in SUBSET Crates, bit \in BOOLEAN : SetPins(S, bit)

Spec == Init /\ [][Next]_manifest

=============================================================================
