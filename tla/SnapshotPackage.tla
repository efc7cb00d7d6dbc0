-------------------------- MODULE SnapshotPackage --------------------------
(***************************************************************************)
(* From the repository to the object store and back: the server loads its  *)
(* configuration and from then on names max_upload_bytes in every          *)
(* credential; client.Upload calls Build and then EncryptFile with the     *)
(* path Build wrote; the store takes the file; whoever holds the private   *)
(* key gives it to Decrypt.  A process may be killed between any two       *)
(* writes, and a file may be cut short or damaged before it is decrypted.  *)
(*                                                                         *)
(* One unit of size is one piece of an envelope.                           *)
(***************************************************************************)
EXTENDS Archiver, ServerConfig

CONSTANT Config   \* configuration files the server may be started with

ASSUME PackageAssumption == Config \subseteq ConfigFile

VARIABLES
  server,          \* its oss.mode and max_upload_bytes, once loaded
  output, macced,  \* of Envelope
  stored           \* what the object store holds of each upload

E == INSTANCE Envelope WITH limit <- server.max

packageVars == <<archiverVars, server, output, macced, stored>>

PackageInit ==
  /\ ArchiverInit
  /\ server = [mode |-> "down", max |-> 0]
  /\ E!EnvelopeInit
  /\ stored = [u \in Upload |-> << >>]

\* LoadConfig refuses the file, and the program ends; or its values are used.
StartServer ==
  /\ server.mode = "down"
  /\ \E c \in Config :
       server' = IF Accepted(c)
                 THEN [mode |-> ApplyDefaults(c).mode, max |-> ApplyDefaults(c).max]
                 ELSE [mode |-> "failed", max |-> 0]
  /\ UNCHANGED <<archiverVars, output, macced, stored>>

\* Upload uses a credential whose max_size is positive.
UploadStep(u) ==
  /\ server.max > 0
  /\ UNCHANGED <<server, stored>>
  /\ \/ Build(u) /\ UNCHANGED <<output, macced>>
     \/ E!EncryptFile(u) /\ UNCHANGED <<tree, edited, manifest, statted, todo, copying>>

\* The encrypted file is posted, and the store decides by its size.
Store(u) ==
  /\ pc[u] = "encrypted"
  /\ LET size == Len(output[u])
         taken == IF server.mode = "development"
                  THEN DevelopmentTakes(server.max, size)
                  ELSE CloudTakes(server.max, size)
     IN  IF taken = -1
         THEN Goto(u, "refused") /\ UNCHANGED stored
         ELSE /\ Goto(u, "stored")
              /\ stored' = [stored EXCEPT ![u] = SubSeq(output[u], 1, taken)]
  /\ UNCHANGED <<tree, edited, manifest, statted, walkVars, server, output, macced>>

\* The process ends; its files stay as they are.
Kill(u) ==
  /\ pc[u] \notin {"idle", "failed", "toolarge", "stored", "refused", "killed"}
  /\ Goto(u, "killed")
  /\ UNCHANGED <<tree, edited, manifest, statted, walkVars, server, output, macced, stored>>

PackageNext ==
  \/ \E p \in File : Edit(p) /\ UNCHANGED <<server, output, macced, stored>>
  \/ StartServer
  \/ \E u \in Upload : UploadStep(u) \/ Store(u) \/ Kill(u)

PackageSpec == PackageInit /\ [][PackageNext]_packageVars
-----------------------------------------------------------------------------
\* The manifest is never ahead of the archive: what is archived under a path
\* it names is the hashed version or a later one, and for a file nobody wrote
\* during the call it is that version, with that size.
ManifestIsOlder ==
  \A u \in Upload :
    \A i \in DOMAIN manifest[u], j \in DOMAIN archive[u] :
      LET m == manifest[u][i]
          a == archive[u][j]
      IN  m.path = a.path =>
            /\ m.ver <= a.ver
            /\ m.path \notin edited.during[u] =>
                 m.ver = a.ver /\ m.size = tree[m.path].size

\* A finished archive has every file the manifest names, unless that was
\* removed during the call or lies where the walk does not go.
ManifestIsCovered ==
  \A u \in Upload :
    pc[u] \in {"built", "writing", "encrypted", "stored"} =>
      \A i \in DOMAIN manifest[u] :
        LET p == manifest[u][i].path
        IN  \/ \E j \in DOMAIN archive[u] : archive[u][j].path = p
            \/ p \in edited.during[u]
            \/ p \in Skipped

\* The limit of the credential binds the whole file, header and tag included,
\* and refuses nothing that fits.
LimitIsExact ==
  \A u \in Upload :
    /\ Len(output[u]) <= server.max
    /\ pc[u] = "toolarge" => Len(archive[u]) + 3 > server.max

\* A file that was encrypted under the credential's limit is not refused for
\* its size by the store of the same server, except that a server whose limit
\* is within two MiB of the largest int64 refuses every development upload.
AllowedIsStored ==
  \A u \in Upload :
    pc[u] = "refused" => server.mode = "development" /\ server.max > MaxInt - 2 * MiB

\* What a call leaves, in its directory or in the store, is nothing or decrypts
\* to the archive Build made, under the credential's snapshot ID; only a killed
\* call leaves anything else.
RoundTrip ==
  \A u \in Upload :
    LET whole == [ok |-> TRUE, id |-> u, plain |-> archive[u]]
    IN  /\ pc[u] \in {"failed", "toolarge", "encrypted", "refused", "stored"}
             /\ output[u] # << >> => E!Decrypt(output[u]) = whole
        /\ pc[u] = "stored" => E!Decrypt(stored[u]) = whole

\* A file cut short; with a piece lost, damaged, or from another upload's file
\* in its place; under another snapshot ID.
Damaged(file) ==
  {SubSeq(file, 1, n) : n \in 0 .. Len(file) - 1}
    \cup {RemoveAt(file, n) : n \in DOMAIN file}
    \cup {[file EXCEPT ![n] = E!Piece("noise", "none", "none")] : n \in DOMAIN file}
    \cup (UNION {{[file EXCEPT ![n] = output[u][n]] :
                    n \in {k \in DOMAIN file \cap DOMAIN output[u] :
                             output[u][k] # file[k]}} : u \in Upload})
    \cup {[file EXCEPT ![2] = E!Header(@[2], u)] :
            u \in {x \in Upload : Len(file) > 1 /\ x # file[2][3]}}

\* A file that was damaged, in any of these ways and at whatever moment, is
\* refused, and so is one that was still being written.
OnlyWholeIsAccepted ==
  \A u \in Upload :
    /\ E!Decrypt(output[u]).ok => output[u] = E!Pieces(u)
    /\ \A file \in Damaged(output[u]) : ~E!Decrypt(file).ok
=============================================================================
