------------------------------ MODULE KeyStore ------------------------------
(***************************************************************************)
(* loadOrCreateKeys of internal/server/keys.go, which every start of the   *)
(* server runs before it listens: read the private key file, or generate a *)
(* pair and write the private file and then the public one.                *)
(*                                                                         *)
(* os.WriteFile truncates or creates the file first and fills it later, so *)
(* a crash or a failing write leaves a torn file.  Two servers can be      *)
(* started on the same files: the listening port is taken only later.  A   *)
(* public key is written as the private key it belongs to.                 *)
(***************************************************************************)
EXTENDS Naturals, FiniteSets

CONSTANTS
  Process,      \* server processes started on these files
  Key,          \* keys rsa.GenerateKey can return, none of them twice
  Publish,      \* those whose configuration names a public_key_file
  Faults,       \* "read", "write": file operations that may fail
  Absent, Torn  \* no file; a file without a complete key

ASSUME KeyStoreAssumption ==
  /\ Publish \subseteq Process
  /\ Faults \subseteq {"read", "write"}
  /\ {Absent, Torn} \cap Key = {} /\ Absent # Torn

VARIABLES
  private,   \* the private key file
  public,    \* the public key file
  pc,        \* where each process is
  key,       \* the key each process holds
  used,      \* history: keys generated
  served,    \* history: keys a serving process handed out
  raced      \* history: two first starts overlapped

vars == <<private, public, pc, key, used, served, raced>>

File == Key \cup {Absent, Torn}

Creating == {"generated", "writing", "written", "publishing"}

Init ==
  /\ private = Absent
  /\ public = Absent
  /\ pc = [p \in Process |-> "down"]
  /\ key = [p \in Process |-> Absent]
  /\ used = {}
  /\ served = {}
  /\ raced = FALSE

Goto(p, label) == pc' = [pc EXCEPT ![p] = label]

Start(p) ==
  /\ pc[p] = "down"
  /\ Goto(p, "started")
  /\ UNCHANGED <<private, public, key, used, served, raced>>

\* A crash, a kill, or the end after an error; memory is gone.
Stop(p) ==
  /\ pc[p] # "down"
  /\ Goto(p, "down")
  /\ key' = [key EXCEPT ![p] = Absent]
  /\ UNCHANGED <<private, public, used, served, raced>>

\* The key a process serves is the one every snapshot from now on needs.
Serve(p, k) ==
  /\ Goto(p, "serving")
  /\ key' = [key EXCEPT ![p] = k]
  /\ served' = served \cup {k}

Fail(p) ==
  /\ Goto(p, "failed")
  /\ UNCHANGED <<private, public, key, used, served, raced>>

\* Only a missing file is a reason to generate a key.
Generate(p) ==
  /\ pc[p] = "started"
  /\ private = Absent
  /\ \E k \in Key \ used :
       /\ key' = [key EXCEPT ![p] = k]
       /\ used' = used \cup {k}
  /\ raced' = (raced \/ \E q \in Process : pc[q] \in Creating)
  /\ Goto(p, "generated")
  /\ UNCHANGED <<private, public, served>>

\* Not the code, a mutant: any unusable file is a reason to generate a key.
LoadOrRegenerate(p) ==
  /\ pc[p] = "started"
  /\ private # Absent
  /\ \/ private \in Key /\ Serve(p, private) /\ UNCHANGED used
     \/ /\ private = Torn \/ "read" \in Faults
        /\ \E k \in Key \ used :
             /\ key' = [key EXCEPT ![p] = k]
             /\ used' = used \cup {k}
        /\ Goto(p, "generated")
        /\ UNCHANGED served
  /\ UNCHANGED <<private, public, raced>>

\* Not the code, a mutant: what the file holds is not checked.
LoadUnchecked(p) ==
  /\ pc[p] = "started"
  /\ private # Absent
  /\ Serve(p, private)
  /\ UNCHANGED <<private, public, used, raced>>

\* A complete private file is used as it is; the public file is not looked at.
Load(p) ==
  /\ pc[p] = "started"
  /\ private \in Key
  /\ Serve(p, private)
  /\ UNCHANGED <<private, public, used, raced>>

\* The file cannot be read, or what it holds is no key.
LoadFails(p) ==
  /\ pc[p] = "started"
  /\ private = Torn \/ "read" \in Faults
  /\ Fail(p)

\* Not the code, a mutant: the public file is written first.
CreatePrivateLast(p) ==
  /\ pc[p] = "generated"
  /\ private' = Torn
  /\ public' = key[p]
  /\ Goto(p, "writing")
  /\ UNCHANGED <<key, used, served, raced>>

CreatePrivate(p) ==
  /\ pc[p] = "generated"
  /\ private' = Torn
  /\ Goto(p, "writing")
  /\ UNCHANGED <<public, key, used, served, raced>>

\* Not the code, a mutant: the server uses the key before it is on disk.
WritePrivateLater(p) ==
  /\ pc[p] = "writing"
  /\ Serve(p, key[p])
  /\ UNCHANGED <<private, public, used, raced>>

WritePrivate(p) ==
  /\ pc[p] = "writing"
  /\ private' = key[p]
  /\ Goto(p, "written")
  /\ UNCHANGED <<public, key, used, served, raced>>

CreatePublic(p) ==
  /\ pc[p] = "written"
  /\ p \in Publish
  /\ public' = Torn
  /\ Goto(p, "publishing")
  /\ UNCHANGED <<private, key, used, served, raced>>

WritePublic(p) ==
  /\ pc[p] = "publishing"
  /\ public' = key[p]
  /\ Serve(p, key[p])
  /\ UNCHANGED <<private, used, raced>>

SkipPublic(p) ==
  /\ pc[p] = "written"
  /\ p \notin Publish
  /\ Serve(p, key[p])
  /\ UNCHANGED <<private, public, used, raced>>

\* Making a directory, creating a file or filling it fails: the start fails.
WriteFails(p) ==
  /\ "write" \in Faults
  /\ pc[p] \in Creating
  /\ Fail(p)

LoadOrCreateKeys(p) ==
  \/ Generate(p) \/ Load(p) \/ LoadFails(p)
  \/ CreatePrivate(p) \/ WritePrivate(p)
  \/ CreatePublic(p) \/ WritePublic(p) \/ SkipPublic(p) \/ WriteFails(p)

Next == \E p \in Process : Start(p) \/ Stop(p) \/ LoadOrCreateKeys(p)

Spec == Init /\ [][Next]_vars
-----------------------------------------------------------------------------
\* The type of every variable.
TypeOK ==
  /\ private \in File
  /\ public \in File
  /\ pc \in [Process -> Creating \cup {"down", "started", "serving", "failed"}]
  /\ key \in [Process -> Key \cup {Absent}]
  /\ used \subseteq Key
  /\ served \subseteq used
  /\ raced \in BOOLEAN

\* Every snapshot encrypted so far can be decrypted with the key on disk, over
\* crashes, failing writes, unreadable files and restarts, unless two servers
\* made their first start at the same time.
Recoverable == raced \/ served \subseteq {private}

\* Two servers on the same files hand out the same key, unless they raced.
NeverTwoKeys ==
  ~raced =>
    \A p, q \in Process :
      pc[p] = "serving" /\ pc[q] = "serving" => key[p] = key[q]

\* The public file is never ahead of the private one: whoever encrypts with the
\* published key encrypts to the key on disk, at whatever point a start crashed.
PublicMatches == ~raced /\ public \in Key => public = private

\* "private_key_file / public_key_file: generated automatically when missing":
\* whoever serves has both files in place.
PublicKeyProvided ==
  \A p \in Process : pc[p] = "serving" /\ p \in Publish => public = key[p]
=============================================================================
