--------------------------- MODULE MCAgentUpload ---------------------------
EXTENDS AgentUpload, TLC

\* Neither uploads nor files are told apart, but for those that are skipped.
Symmetry ==
  Permutations(Upload) \cup Permutations(Path \ Skipped) \cup Permutations(Skipped)
=============================================================================
