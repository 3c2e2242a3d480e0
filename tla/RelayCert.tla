------------------------------ MODULE RelayCert ------------------------------
(***************************************************************************)
(* The tunnel certificate of a relay node (go/tun/relaynode/tlscert.go,    *)
(* node.go, ctl.go; go/tunnel/certs/dynamic.go): uploaded on the           *)
(* TUNNEL_BASE domain, fetched file by file, and replaced in the running   *)
(* relay.  loadCert runs in the node's loop and, for every pushed change,  *)
(* in a goroutine of its own; nothing keeps two of them apart.             *)
(* Certificates are numbered in the order of their upload: 0 is none, -1   *)
(* the first-start files.                                                  *)
(***************************************************************************)
EXTENDS Integers

CONSTANTS
    Loaders,     \* loadCert calls that may run at once: the loop's and pushed ones
    LoopLoader,  \* the loop's
    FirstFiles,  \* the first-start files are there
    MaxUploads,
    MaxBreaks    \* bound on failed reads and restarts

VARIABLES
    uploaded,    \* the certificate on the TUNNEL_BASE row
    served,      \* what Dynamic presents
    fingerprint, \* the node's certFingerprint
    loader,      \* per call, its stage and the certificate it read of
    breaks

certVars == <<uploaded, served, fingerprint, loader, breaks>>

NotLoading == [at |-> "idle", cert |-> 0]

CertInit ==
    /\ uploaded = 0 /\ served = 0 /\ fingerprint = 0 /\ breaks = 0
    /\ loader = [l \in Loaders |-> NotLoading]

Break == breaks < MaxBreaks /\ breaks' = breaks + 1
Moves(l, at, c) == loader' = [loader EXCEPT ![l] = [at |-> at, cert |-> c]]
Ends(l) == Moves(l, "idle", 0)

\* Dynamic.
Loaded == served # 0
SetCert(c) == served' = c

-----------------------------------------------------------------------------
(* loadCert.                                                               *)

\* By the loop's ticker (rounds that find nothing new are left out), or by a push of the
\* TUNNEL_BASE row.
StartLoad(l) ==
    /\ loader[l] = NotLoading
    /\ IF l = LoopLoader THEN fingerprint # uploaded \/ ~Loaded ELSE uploaded > 0
    /\ Moves(l, "read", 0)
    /\ UNCHANGED <<uploaded, served, fingerprint, breaks>>

\* The row, and its fingerprint against the node's.
ReadRow(l) ==
    /\ loader[l].at = "read"
    /\ CASE uploaded = 0 -> Moves(l, "files", 0)
         [] uploaded > 0 /\ uploaded = fingerprint -> Ends(l)
         [] OTHER -> Moves(l, "fetch", uploaded)
    /\ UNCHANGED <<uploaded, served, fingerprint, breaks>>

\* No row to read, or none with a certificate: the first-start files, when nothing
\* is loaded.
ReadFails(l) ==
    /\ loader[l].at = "read" /\ Break
    /\ Moves(l, "files", 0)
    /\ UNCHANGED <<uploaded, served, fingerprint>>

FirstStart(l) ==
    /\ loader[l].at = "files"
    /\ IF Loaded \/ ~FirstFiles THEN Ends(l) ELSE Moves(l, "first", -1)
    /\ UNCHANGED <<uploaded, served, fingerprint, breaks>>

FirstSet(l) ==
    /\ loader[l].at = "first" /\ SetCert(-1) /\ Ends(l)
    /\ UNCHANGED <<uploaded, fingerprint, breaks>>

\* A faulty variant: the certificate is noted as loaded before its files are fetched.
FetchFileMarked(l) ==
    /\ loader[l].at = "fetch"
    /\ Moves(l, "set", loader[l].cert) /\ fingerprint' = loader[l].cert
    /\ UNCHANGED <<uploaded, served, breaks>>

\* The two files of the row that was read.
FetchFile(l) ==
    /\ loader[l].at = "fetch"
    /\ Moves(l, "set", loader[l].cert)
    /\ UNCHANGED <<uploaded, served, fingerprint, breaks>>

SetFetched(l) ==
    /\ loader[l].at = "set"
    /\ SetCert(loader[l].cert) /\ Moves(l, "mark", loader[l].cert)
    /\ UNCHANGED <<uploaded, fingerprint, breaks>>

\* A file that can't be fetched, or a pair that doesn't parse: the old one stays.
FileFails(l) ==
    /\ loader[l].at \in {"fetch", "set"} /\ Break
    /\ Ends(l) /\ UNCHANGED <<uploaded, served, fingerprint>>

Mark(l) ==
    /\ loader[l].at = "mark"
    /\ fingerprint' = loader[l].cert /\ Ends(l)
    /\ UNCHANGED <<uploaded, served, breaks>>

-----------------------------------------------------------------------------
UploadTunnelCert ==
    /\ uploaded < MaxUploads /\ uploaded' = uploaded + 1
    /\ UNCHANGED <<served, fingerprint, loader, breaks>>

NodeRestarts ==
    /\ Break /\ served' = 0 /\ fingerprint' = 0
    /\ loader' = [l \in Loaders |-> NotLoading]
    /\ UNCHANGED uploaded

LoadStep(l) == ReadRow(l) \/ FirstStart(l) \/ FirstSet(l) \/ FetchFile(l) \/ SetFetched(l) \/ Mark(l)

CertNext ==
    \/ UploadTunnelCert \/ NodeRestarts
    \/ \E l \in Loaders : StartLoad(l) \/ LoadStep(l) \/ ReadFails(l) \/ FileFails(l)

\* The loop's ticker comes round, and a call that began goes on.
CertFairness == WF_certVars(StartLoad(LoopLoader)) /\ \A l \in Loaders : WF_certVars(LoadStep(l))

CertSpec == CertInit /\ [][CertNext]_certVars /\ CertFairness

-----------------------------------------------------------------------------
\* A relay ends up with the certificate that was uploaded last, whatever reads and
\* fetches failed (Dynamic: "relays pick up a new one without a restart"), as long as
\* no two loadCert calls overlap: the one that sets its certificate last need not be
\* the one that notes its fingerprint last.
CertPickedUp ==
    [](\A k, l \in Loaders : NotLoading \in {loader[k], loader[l]} \/ k = l)
        => (uploaded = MaxUploads ~> served = uploaded)
=============================================================================
