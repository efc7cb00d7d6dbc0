-------------------------- MODULE MCSnapshotServer --------------------------
(***************************************************************************)
(* Small instances of SnapshotServer.                                      *)
(***************************************************************************)
EXTENDS SnapshotServer, TLC, FiniteSets

CONSTANTS s1, s2, small, large

Genuinely(id, b) == [id |-> id, token |-> id, key |-> id, body |-> b]

\* Every genuine form of one upload, the plain one of another, one form with
\* the token and one with the key of the other upload.
MixedForms ==
  {Genuinely(s1, b) : b \in Content \cup {NoFile}}
    \cup {Genuinely(s2, small)}
    \cup {[id |-> s1, token |-> s2, key |-> s1, body |-> small],
          [id |-> s1, token |-> s1, key |-> s2, body |-> small]}

GenuineForms == {Genuinely(id, b) : id \in Snapshot, b \in Content}

RequestSymmetry == Permutations(Request)
=============================================================================
