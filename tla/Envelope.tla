------------------------------ MODULE Envelope ------------------------------
(***************************************************************************)
(* EncryptFile and Decrypt of internal/envelope/envelope.go.  An envelope  *)
(* is the magic with the header's length, the header with the snapshot ID  *)
(* and the wrapped key, the encrypted input, and a tag: the MAC, under a   *)
(* key of this call only, of all that comes before it.                     *)
(*                                                                         *)
(* A file is the sequence of its pieces, each written in one Write of one  *)
(* unit; a piece names its part, the call whose key it was made with, and  *)
(* what it holds.  Encryption and MAC are taken at their meaning: a piece  *)
(* is readable with its own key, and a tag is right for what was fed to    *)
(* the MAC and for nothing else.                                           *)
(***************************************************************************)
EXTENDS Naturals, Sequences, SequencesExt

CONSTANTS
  Upload,     \* calls of EncryptFile; also their snapshot IDs and their keys
  Faults      \* "io": a file operation, though not the removal of an output
              \* file, fails; "close": the Close of an output does

VARIABLES
  pc,         \* where each call is
  archive,    \* the input of each call: its archive, entry by entry
  limit,      \* limitWriter.max, the max_size of the credentials; 0 is none
  output,     \* the output file; << >> is none
  macced      \* what was fed to the MAC

fileVars == <<output, macced>>

EnvelopeInit ==
  /\ output = [u \in Upload |-> << >>]
  /\ macced = [u \in Upload |-> << >>]

Leave(u, label) == pc' = [pc EXCEPT ![u] = label]

Piece(part, u, holds) == <<part, u, holds>>

Prefix == Piece("prefix", "none", "none")
Header(u, id) == Piece("header", u, id)
Tag(u) == Piece("tag", u, "mac")

\* Everything EncryptFile writes, in order.
Pieces(u) ==
  <<Prefix, Header(u, u)>>
    \o [i \in DOMAIN archive[u] |-> Piece("body", u, i)] \o <<Tag(u)>>

NextPiece(u) == Pieces(u)[Len(output[u]) + 1]

\* Not the code, a mutant: a limit of n bytes is reached with n bytes.
FitsShort(u) == limit > 0 => Len(output[u]) + 1 < limit

\* limitWriter.Write.
Fits(u) == limit > 0 => Len(output[u]) + 1 <= limit

\* An error return: the deferred function removes the output file.
EncryptFails(u, label) ==
  /\ Leave(u, label)
  /\ output' = [output EXCEPT ![u] = << >>]
  /\ UNCHANGED <<archive, limit, macced>>

BeginEncrypt(u) ==
  /\ pc[u] = "built"
  /\ \/ Leave(u, "writing") /\ UNCHANGED <<archive, limit, fileVars>>
     \/ "io" \in Faults /\ EncryptFails(u, "failed")

\* Everything but the tag goes to the file and to the MAC.
WriteBoth(u) ==
  /\ pc[u] = "writing"
  /\ Len(output[u]) < Len(Pieces(u)) /\ Fits(u)
  /\ output' = [output EXCEPT ![u] = Append(@, NextPiece(u))]
  /\ macced' = IF NextPiece(u) = Tag(u) THEN macced
               ELSE [macced EXCEPT ![u] = Append(@, NextPiece(u))]
  /\ UNCHANGED <<pc, archive, limit>>

\* limitWriter refuses; or Write, reading the input, or Sync fails.
WriteFails(u) ==
  /\ pc[u] = "writing"
  /\ \/ Len(output[u]) < Len(Pieces(u)) /\ ~Fits(u) /\ EncryptFails(u, "toolarge")
     \/ "io" \in Faults /\ EncryptFails(u, "failed")

\* ok is set before the last Close: when that fails the error is returned and
\* the file, which Sync has put on disk, stays.
FinishEncrypt(u) ==
  /\ pc[u] = "writing"
  /\ Len(output[u]) = Len(Pieces(u))
  /\ \/ Leave(u, "encrypted")
     \/ "close" \in Faults /\ Leave(u, "failed")
  /\ UNCHANGED <<archive, limit, fileVars>>

EncryptFile(u) ==
  BeginEncrypt(u) \/ WriteBoth(u) \/ WriteFails(u) \/ FinishEncrypt(u)
-----------------------------------------------------------------------------
Rejected == [ok |-> FALSE, id |-> "none", plain |-> << >>]

\* The key comes out of the header, the tag is the end of the file, and the
\* MAC of everything in between must be that tag.
Authentic(file) ==
  /\ Len(file) >= 3
  /\ file[1] = Prefix
  /\ file[2][1] = "header"
  /\ LET u == file[2][2]
     IN  Last(file) = Tag(u) /\ Front(file) = macced[u]

\* Not the code, a mutant: the tag is found but not compared.
DecryptUnchecked(file) ==
  IF Len(file) >= 3 /\ file[1] = Prefix /\ file[2][1] = "header"
  THEN LET u == file[2][2]
       IN  [ok |-> TRUE, id |-> file[2][3],
            plain |-> [i \in 1 .. Len(file) - 3 |->
                         IF file[i + 2][2] = u /\ file[i + 2][1] = "body"
                         THEN archive[u][file[i + 2][3]] ELSE "noise"]]
  ELSE Rejected

\* What Decrypt makes of a file; nothing is decrypted before the tag holds.
Decrypt(file) ==
  IF Authentic(file)
  THEN LET u == file[2][2]
       IN  [ok |-> TRUE, id |-> file[2][3],
            plain |-> [i \in 1 .. Len(file) - 3 |-> archive[u][file[i + 2][3]]]]
  ELSE Rejected
=============================================================================
