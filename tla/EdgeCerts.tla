------------------------------ MODULE EdgeCerts ------------------------------
(***************************************************************************)
(* The certificates of the edge's TERMINATE sites                          *)
(* (go/tun/edgenode/node.go; go/tunnel/certs/set.go): uploaded in the      *)
(* management UI, fetched by each reload from FileStore, kept by domain    *)
(* and by served name, and cached on disk for when the backend is          *)
(* unreachable.  Reloads overlap, files can't always be fetched, and the   *)
(* edge may crash.  Certificates are numbered as they are uploaded; 0 is   *)
(* none, and -1 no entry in certFP.                                        *)
(***************************************************************************)
EXTENDS Integers

CONSTANTS
    SiteIds,     \* domains
    HostNames,   \* the names a site may have, wildcards among them
    WildcardOf,  \* [HostNames -> HostNames]: the wildcard a name falls under, or itself
    ReloadIds,   \* reloads that may run at once
    MaxCert,     \* bound on uploads and edits
    MaxOutages,  \* bound on outages and crashes
    NoSite       \* no domain

VARIABLES
    site,       \* the EdgeDomain rows: the certificate and the names of each
    uploads,    \* certificates and edits so far
    answering,  \* the parts of the management plane that answer: "backend", "files"
    outages,
    load,       \* per reload: its stage, the rows it read, and the domains left to load
    byKey,      \* Set.byKey: the certificate of each domain
    byName,     \* Set.names: the domain whose certificate a name is served
    loadedFP,   \* Node.certFP
    disk        \* the cache: the rows (or NoSite), and each domain's .crt and .key

siteVars == <<site, uploads, answering, outages>>
setVars == <<byKey, byName, loadedFP>>
edgeCertVars == <<siteVars, load, setVars, disk>>

NoSites == [d \in SiteIds |-> [cert |-> 0, names |-> {}]]
NoLoad == [at |-> "idle", rows |-> NoSites, todo |-> {}, of |-> NoSite]
NoFiles == [d \in SiteIds |-> 0]
NoFP == [d \in SiteIds |-> -1]

CertsInit ==
    /\ site = NoSites /\ uploads = 0 /\ answering = {"backend", "files"} /\ outages = 0
    /\ load = [r \in ReloadIds |-> NoLoad]
    /\ byKey = NoFiles /\ byName = [n \in HostNames |-> NoSite] /\ loadedFP = NoFP
    /\ disk = [rows |-> NoSite, crt |-> NoFiles, key |-> NoFiles]

Trouble == outages < MaxOutages /\ outages' = outages + 1

-----------------------------------------------------------------------------
(* certs.Set.                                                              *)

\* removeLocked: the names of d that still lead to its certificate.
RemoveLocked(d, named) == [n \in HostNames |-> IF named[n] = d THEN NoSite ELSE named[n]]

Put(d, cert, names, keys, named) ==
    [keys |-> [keys EXCEPT ![d] = cert],
     named |-> [n \in HostNames |-> IF n \in names THEN d ELSE RemoveLocked(d, named)[n]]]

\* The domain whose certificate a client asking for name gets.
GetCertificate(name) == IF byName[name] # NoSite THEN byName[name] ELSE byName[WildcardOf[name]]

-----------------------------------------------------------------------------
(* Writes of the EdgeDomain service; a name belongs to one domain.         *)

Upload(d, names) ==
    /\ uploads < MaxCert /\ uploads' = uploads + 1
    /\ \A o \in SiteIds \ {d} : site[o].names \cap names = {}
    /\ site' = [site EXCEPT ![d] = [cert |-> uploads + 1, names |-> names]]
    /\ UNCHANGED <<answering, outages, load, setVars, disk>>

\* The names change, or the certificate is taken away.
EditSite(d, row) ==
    /\ uploads < MaxCert /\ uploads' = uploads + 1
    /\ site[d].cert # 0 /\ site[d] # row
    /\ \A o \in SiteIds \ {d} : site[o].names \cap row.names = {}
    /\ site' = [site EXCEPT ![d] = row]
    /\ UNCHANGED <<answering, outages, load, setVars, disk>>

DeleteSite(d) ==
    /\ site[d].names # {} /\ site' = [site EXCEPT ![d] = NoSites[d]]
    /\ UNCHANGED <<uploads, answering, outages, load, setVars, disk>>

-----------------------------------------------------------------------------
(* Node.reload.                                                            *)
Stage(r, at) == load' = [load EXCEPT ![r].at = at]

ReloadSites(r) ==
    /\ load[r] = NoLoad
    /\ IF "backend" \in answering
       THEN load' = [load EXCEPT ![r] = [at |-> "certs", rows |-> site, of |-> NoSite,
                                         todo |-> {d \in SiteIds : site[d].cert # 0}]]
       ELSE disk.rows # NoSite /\ Stage(r, "cache")
    /\ UNCHANGED <<siteVars, setVars, disk>>

\* One domain of loadCerts: unchanged by its fingerprint, or fetched and put.
LoadCert(r, d) ==
    LET row == load[r].rows[d]
        set == Put(d, row.cert, row.names, byKey, byName)
    IN  /\ load[r].at = "certs" /\ d \in load[r].todo
        /\ IF loadedFP[d] = row.cert \/ "files" \notin answering
           THEN load' = [load EXCEPT ![r].todo = @ \ {d}] /\ UNCHANGED setVars
           ELSE /\ byKey' = set.keys /\ byName' = set.named
                /\ loadedFP' = [loadedFP EXCEPT ![d] = row.cert]
                /\ load' = [load EXCEPT ![r].at = "crt", ![r].of = d, ![r].todo = @ \ {d}]
        /\ UNCHANGED <<siteVars, disk>>

\* writeCacheFile, of the certificate and then of its key.
WriteCacheFile(r) ==
    LET d == load[r].of
    IN  /\ load[r].at \in {"crt", "key"}
        /\ IF load[r].at = "crt"
           THEN disk' = [disk EXCEPT !.crt[d] = load[r].rows[d].cert] /\ Stage(r, "key")
           ELSE disk' = [disk EXCEPT !.key[d] = load[r].rows[d].cert] /\ Stage(r, "certs")
        /\ UNCHANGED <<siteVars, setVars>>

GoneSites(r) == {d \in SiteIds : loadedFP[d] # -1 /\ load[r].rows[d].cert = 0}

\* A faulty variant: the set keeps the certificates of domains that are gone.
DropGoneFP(r) ==
    /\ load[r].at = "certs" /\ load[r].todo = {} /\ Stage(r, "save")
    /\ loadedFP' = [d \in SiteIds |-> IF d \in GoneSites(r) THEN -1 ELSE loadedFP[d]]
    /\ UNCHANGED <<siteVars, byKey, byName, disk>>

\* The end of loadCerts: Set.Remove of the domains that are gone.
DropGone(r) ==
    /\ load[r].at = "certs" /\ load[r].todo = {} /\ Stage(r, "save")
    /\ loadedFP' = [d \in SiteIds |-> IF d \in GoneSites(r) THEN -1 ELSE loadedFP[d]]
    /\ byKey' = [d \in SiteIds |-> IF d \in GoneSites(r) THEN 0 ELSE byKey[d]]
    /\ byName' = [n \in HostNames |-> IF byName[n] \in GoneSites(r) THEN NoSite ELSE byName[n]]
    /\ UNCHANGED <<siteVars, disk>>

SaveRows(r) ==
    /\ load[r].at = "save" /\ load' = [load EXCEPT ![r] = NoLoad]
    /\ disk' = [disk EXCEPT !.rows = load[r].rows]
    /\ UNCHANGED <<siteVars, setVars>>

\* The cached rows, each with the pair of files found beside it, whatever upload they
\* are of.  Files that don't fit together are left alone.
Paired(d) == disk.rows[d].names # {} /\ disk.crt[d] # 0 /\ disk.crt[d] = disk.key[d]

LoadCachedCerts(r) ==
    /\ load[r].at = "cache" /\ load' = [load EXCEPT ![r] = NoLoad]
    /\ byKey' = [d \in SiteIds |-> IF Paired(d) THEN disk.crt[d] ELSE byKey[d]]
    /\ byName' = [n \in HostNames |->
                    IF \E d \in SiteIds : Paired(d) /\ n \in disk.rows[d].names
                    THEN CHOOSE d \in SiteIds : Paired(d) /\ n \in disk.rows[d].names
                    ELSE IF byName[n] # NoSite /\ Paired(byName[n]) THEN NoSite ELSE byName[n]]
    /\ loadedFP' = [d \in SiteIds |-> IF Paired(d) THEN disk.rows[d].cert ELSE loadedFP[d]]
    /\ UNCHANGED <<siteVars, disk>>

-----------------------------------------------------------------------------
StopsAnswering(p) ==
    /\ p \in answering /\ Trouble /\ answering' = answering \ {p}
    /\ UNCHANGED <<site, uploads, load, setVars, disk>>

Answers(p) ==
    /\ p \in {"backend", "files"} \ answering /\ answering' = answering \cup {p}
    /\ UNCHANGED <<site, uploads, outages, load, setVars, disk>>

EdgeCrash ==
    /\ Trouble
    /\ load' = [r \in ReloadIds |-> NoLoad]
    /\ byKey' = NoFiles /\ byName' = [n \in HostNames |-> NoSite] /\ loadedFP' = NoFP
    /\ UNCHANGED <<site, uploads, answering, disk>>

LoadEnds(r) ==
    \/ (\E d \in SiteIds : LoadCert(r, d)) \/ WriteCacheFile(r) \/ DropGone(r) \/ SaveRows(r)
    \/ LoadCachedCerts(r)

CertsNext ==
    \/ \E d \in SiteIds :
          \/ DeleteSite(d)
          \/ \E names \in SUBSET HostNames \ {{}} :
                \/ Upload(d, names)
                \/ \E cert \in {0, site[d].cert} : EditSite(d, [cert |-> cert, names |-> names])
    \/ \E r \in ReloadIds : ReloadSites(r) \/ LoadEnds(r)
    \/ \E p \in {"backend", "files"} : StopsAnswering(p) \/ Answers(p)
    \/ EdgeCrash

\* The loop re-reads the domains every minute, a reload that began goes on, and an
\* outage ends.
CertsFairness ==
    /\ \A r \in ReloadIds : WF_edgeCertVars(ReloadSites(r)) /\ WF_edgeCertVars(LoadEnds(r))
    /\ \A p \in {"backend", "files"} : WF_edgeCertVars(Answers(p))

CertsSpec == CertsInit /\ [][CertsNext]_edgeCertVars /\ CertsFairness

-----------------------------------------------------------------------------
\* A site that was deleted for good is no longer served: no name leads to its
\* certificate, whatever overlapping reloads or the cache put back meanwhile
\* (loadCerts, loadCache, Set.Remove).
DeletedNotServed ==
    \A d \in SiteIds :
        <>[](site[d].cert = 0) => <>[](\A n \in HostNames : GetCertificate(n) # d)

\* Every site is served with the certificate uploaded last ("a certificate replaced in
\* the UI is served without a restart", plans/k8s-relay-plan.md:1126; loadCerts).
LatestServed == <>[](\A d \in SiteIds : byKey[d] = site[d].cert)
=============================================================================
