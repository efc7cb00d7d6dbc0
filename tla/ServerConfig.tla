---------------------------- MODULE ServerConfig ----------------------------
(***************************************************************************)
(* LoadConfig of internal/server/config.go, and what max_upload_bytes      *)
(* becomes: the limit of every credential, the range of the signed policy, *)
(* and the limits of handleDevelopmentOSS (internal/server/server.go).     *)
(*                                                                         *)
(* A configuration file is what loading tells apart.  Paths, the listening *)
(* address and the object prefix have defaults and no checks and are left  *)
(* out.  Sizes are int64: MaxInt stands for 2^63-1 and MiB for 2^20.       *)
(***************************************************************************)
EXTENDS Integers

CONSTANTS
  MaxInt,      \* the largest int64
  MiB,         \* 1 << 20
  DefaultMax,  \* 512 MiB
  Framing      \* what the form's fields and boundaries add to a posted file

ASSUME ConfigAssumption ==
  /\ MaxInt \in Nat /\ MiB \in Nat \ {0}
  /\ DefaultMax \in MiB .. MaxInt - 2 * MiB
  /\ Framing \in 0 .. 2 * MiB

ConfigFile ==
  [max : -MaxInt - 1 .. MaxInt,                           \* max_upload_bytes
   ttl : {"", "duration", "garbage"},                     \* credential_ttl
   mode : {"", "development", "cloud-oss", "other"},      \* oss.mode
   base : BOOLEAN,                                        \* public_base_url
   cloud : BOOLEAN,    \* what cloud-oss requires, with https
   known : BOOLEAN]    \* valid JSON with known fields only

ApplyDefaults(c) ==
  [c EXCEPT !.max = IF @ = 0 THEN DefaultMax ELSE @,
            !.ttl = IF @ = "" THEN "duration" ELSE @,
            !.mode = IF @ = "" THEN "development" ELSE @]

Valid(c) ==
  /\ c.max >= MiB
  /\ c.ttl = "duration"
  /\ \/ c.mode = "development" /\ c.base
     \/ c.mode = "cloud-oss" /\ c.cloud

Accepted(c) == c.known /\ Valid(ApplyDefaults(c))
-----------------------------------------------------------------------------
\* The sum of two int64.
Wrap(n) == ((n + MaxInt + 1) % (2 * (MaxInt + 1))) - MaxInt - 1

\* Not the code, a mutant: the form around the file is not allowed for.
BodyLimitBare(max) == max

\* http.MaxBytesReader, which takes a negative limit for 0.
BodyLimit(max) ==
  LET limit == Wrap(max + 2 * MiB)
  IN  IF limit < 0 THEN 0 ELSE limit

\* Not the code, a mutant: one byte less is read than may be stored.
CopiedShort(max, size) == IF size < max THEN size ELSE max - 1

\* io.LimitReader over the file, which reads nothing at a negative limit.
Copied(max, size) ==
  LET limit == Wrap(max + 1)
  IN  CASE limit < 0 -> 0
        [] limit < size -> limit
        [] OTHER -> size

\* How much handleDevelopmentOSS stores of a file; -1 is a refusal.
DevelopmentTakes(max, size) ==
  IF size + Framing > BodyLimit(max) \/ Copied(max, size) > max
  THEN -1 ELSE Copied(max, size)

\* The signed policy, and the size check of handleCallback.
CloudTakes(max, size) == IF size \in 1 .. max THEN size ELSE -1
=============================================================================
