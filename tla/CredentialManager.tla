--------------------------- MODULE CredentialManager ---------------------------
(***************************************************************************)
(* The credential file on disk and the snapshot of it that the proxy keeps *)
(* in memory (internal/proxy/credentials.go, internal/auth/store.go).      *)
(*                                                                         *)
(* The file is rewritten in place: os.WriteFile opens it with O_TRUNC and  *)
(* then writes, so a reader, a second writer or a crash may come between   *)
(* the two.  A credential set is one value; two credential sets differ by  *)
(* the login that obtained them.                                           *)
(*                                                                         *)
(* The module is a component: it has no Next of its own.  BootstrapManager *)
(* composes its operations with the login flow.                            *)
(***************************************************************************)

CONSTANTS
    Creds,      \* the credential sets a login can leave in the file
    NoFile,     \* the credential file does not exist
    Empty,      \* it was truncated and nothing was written yet
    Garbled,    \* its bytes are not one complete credential set
    NoCred      \* no snapshot is loaded

ASSUME SentinelsAssumption ==
    /\ {NoFile, Empty, Garbled, NoCred} \cap Creds = {}
    /\ Empty # Garbled

VARIABLES
    file,       \* what os.ReadFile(AuthFile) would return
    current     \* CredentialManager.current, NoCred while loaded is false

credentialVars == <<file, current>>

FileContents == Creds \cup {NoFile, Empty, Garbled}

CredentialTypeOK ==
    /\ file \in FileContents
    /\ current \in Creds \cup {NoCred}

(***************************************************************************)
(* The manager starts with nothing loaded, over whatever an earlier run    *)
(* left on disk.                                                           *)
(***************************************************************************)
CredentialInit ==
    /\ file \in FileContents
    /\ current = NoCred

(***************************************************************************)
(* Refresh: read, parse and validate the file, all under the manager's     *)
(* lock.  A file that is missing, empty or garbled is an error, and the    *)
(* snapshot loaded earlier stays in use.                                   *)
(***************************************************************************)
Refresh == current' = IF file \in Creds THEN file ELSE current

(***************************************************************************)
(* Current: a loaded snapshot is served as it is (main installs no         *)
(* refreshFn); the first caller loads the file.                            *)
(***************************************************************************)
Current == IF current = NoCred THEN Refresh ELSE UNCHANGED current

(***************************************************************************)
(* The two halves of os.WriteFile.  If somebody else's bytes arrived       *)
(* between a writer's truncation and its write, the longer text keeps its  *)
(* tail and the file is not JSON any more.                                 *)
(***************************************************************************)
TruncateFile == file' = Empty

WriteFile(c) == IF file = Empty THEN file' = c ELSE file' \in {c, Garbled}

\* An error is returned: half way, before the first byte, or with everything on disk.
WriteFileFails(c) == WriteFile(c) \/ file' \in {file, Garbled}

=============================================================================
