---------------------------- MODULE AgentIdentity ----------------------------
(***************************************************************************)
(* Agent certificates: the agent CA a standalone relay makes on first use  *)
(* and keeps in its store (go/tunnel/store/store.go, auth/agentca.go), the *)
(* certificates it issues for tokens, the CA the relay's TLS trusts from   *)
(* its start on, and the move of both to a cluster, where the CA becomes a *)
(* Secret.  A store call is one transaction; an admin request is several.  *)
(* CAs and serials are numbered in the order they are made; 0 is none.     *)
(***************************************************************************)
EXTENDS Integers, FiniteSets

CONSTANTS
    AgentTokens,
    Issuers,     \* admin requests served at once
    MaxSerial,   \* bound on certificates issued
    MaxIdentityStops

VARIABLES
    storedCA,  \* the CA in the store
    casMade,
    records,   \* token -> the serials of its record; only stored tokens are keys
    issuing,   \* per issuer, the request being served
    serialsMade,
    held,      \* certificates handed out
    trusted,   \* the CA the running relay trusts; 0 when it is down
    exporting,    \* the export being read
    inCluster,     \* the cluster's CA and records, once it runs on the export
    identityStops

identityVars == <<storedCA, casMade, records, issuing, serialsMade, held, trusted, exporting, inCluster, identityStops>>

NotIssuing == [stage |-> "none", tok |-> "none", ca |-> 0, serial |-> 0]
NotMoved == [stage |-> "no", ca |-> 0, records |-> <<>>]

IdentityInit ==
    /\ storedCA = 0 /\ casMade = 0 /\ serialsMade = 0
    /\ records = [t \in AgentTokens |-> {}]
    /\ issuing = [o \in Issuers |-> NotIssuing]
    /\ held = {} /\ trusted = 0
    /\ exporting = NotMoved /\ inCluster = NotMoved /\ identityStops = 0

-----------------------------------------------------------------------------
\* NewAgentCA makes another CA.
NewAgentCA == casMade' = casMade + 1 /\ storedCA' = casMade + 1

\* A faulty variant: each caller makes a CA of its own, the last one is kept.
AgentCAAnew == NewAgentCA

\* AgentCA: the stored CA, or a new one stored in the same transaction.
AgentCA == IF storedCA # 0 THEN UNCHANGED <<storedCA, casMade>> ELSE NewAgentCA

\* NewRelay: the relay's TLS trusts the CA of its store from here on.
NewRelay ==
    /\ trusted = 0 /\ AgentCA /\ trusted' = storedCA'
    /\ UNCHANGED <<records, issuing, serialsMade, held, exporting, inCluster, identityStops>>

RelayKilled ==
    /\ trusted # 0 /\ identityStops < MaxIdentityStops /\ identityStops' = identityStops + 1
    /\ trusted' = 0 /\ issuing' = [o \in Issuers |-> NotIssuing]
    /\ exporting' = IF exporting.stage = "done" THEN exporting ELSE NotMoved
    /\ UNCHANGED <<storedCA, casMade, records, serialsMade, held, inCluster>>

\* Issue: a certificate of the CA for a token, with a serial of its own.
Issue(ca, t, s) == [ca |-> ca, tok |-> t, serial |-> s]

\* TLS verifies a certificate's chain against the CA it trusts; then CertIdentity and
\* HasCertSerial.
Verifies(root, c) == c.ca = root
HasCertSerial(recs, c) == c.tok \in DOMAIN recs /\ c.serial \in recs[c.tok]
Accepts(root, recs, c) == Verifies(root, c) /\ HasCertSerial(recs, c)

\* IssueCert: the CA first, in a transaction of its own.
IssueCertCA(o, t) ==
    /\ trusted # 0 /\ issuing[o] = NotIssuing /\ serialsMade < MaxSerial
    /\ AgentCA
    /\ issuing' = [issuing EXCEPT ![o] = [NotIssuing EXCEPT !.stage = "issue", !.tok = t, !.ca = storedCA']]
    /\ UNCHANGED <<records, serialsMade, held, trusted, exporting, inCluster, identityStops>>

\* Then the token is looked up, and the certificate made and its serial added to
\* the record, in one transaction; a token that has gone ends the request.
IssueCert(o) ==
    LET i == issuing[o]
    IN /\ trusted # 0 /\ i.stage = "issue" /\ serialsMade < MaxSerial
       /\ IF i.tok \in DOMAIN records
          THEN /\ serialsMade' = serialsMade + 1
               /\ records' = [records EXCEPT ![i.tok] = @ \cup {serialsMade + 1}]
               /\ issuing' = [issuing EXCEPT ![o] = [i EXCEPT !.stage = "answer", !.serial = serialsMade + 1]]
          ELSE issuing' = [issuing EXCEPT ![o] = NotIssuing] /\ UNCHANGED <<records, serialsMade>>
       /\ UNCHANGED <<storedCA, casMade, held, trusted, exporting, inCluster, identityStops>>

\* The answer has the only copy of the key.
IssueAnswered(o) ==
    LET i == issuing[o]
    IN /\ trusted # 0 /\ i.stage = "answer"
       /\ held' = held \cup {Issue(i.ca, i.tok, i.serial)}
       /\ issuing' = [issuing EXCEPT ![o] = NotIssuing]
       /\ UNCHANGED <<storedCA, casMade, records, serialsMade, trusted, exporting, inCluster, identityStops>>

\* DeleteToken: the record goes, its serials with it.
RevokeIdentity(t) ==
    /\ trusted # 0 /\ t \in DOMAIN records
    /\ records' = [u \in DOMAIN records \ {t} |-> records[u]]
    /\ UNCHANGED <<storedCA, casMade, issuing, serialsMade, held, trusted, exporting, inCluster, identityStops>>

-----------------------------------------------------------------------------
\* The export request: the tokens, then the CA.
ExportRecords ==
    /\ trusted # 0 /\ exporting.stage = "no"
    /\ exporting' = [NotMoved EXCEPT !.stage = "ca", !.records = records]
    /\ UNCHANGED <<storedCA, casMade, records, issuing, serialsMade, held, trusted, inCluster, identityStops>>

ExportCA ==
    /\ trusted # 0 /\ exporting.stage = "ca" /\ AgentCA
    /\ exporting' = [exporting EXCEPT !.stage = "done", !.ca = storedCA']
    /\ UNCHANGED <<records, issuing, serialsMade, held, trusted, inCluster, identityStops>>

\* The cluster is installed with the exported CA and imports the records.
ClusterStarts ==
    /\ exporting.stage = "done" /\ inCluster.stage = "no" /\ inCluster' = exporting
    /\ UNCHANGED <<storedCA, casMade, records, issuing, serialsMade, held, trusted, exporting, identityStops>>

IdentityNext ==
    \/ NewRelay \/ RelayKilled
    \/ \E o \in Issuers : IssueCert(o) \/ IssueAnswered(o) \/ \E t \in AgentTokens : IssueCertCA(o, t)
    \/ \E t \in AgentTokens : RevokeIdentity(t)
    \/ ExportRecords \/ ExportCA \/ ClusterStarts

IdentitySpec == IdentityInit /\ [][IdentityNext]_identityVars

-----------------------------------------------------------------------------
\* A certificate an operator was given works as long as its token is there: the
\* running relay accepts it however often it has restarted since and whatever other
\* certificates are being issued, and so does a cluster the token's record, with
\* that serial in it, was moved to (AgentCA, IssueCert, export).
IssuedAccepted ==
    \A c \in held :
        /\ trusted # 0 /\ c.tok \in DOMAIN records => Accepts(trusted, records, c)
        /\ HasCertSerial(inCluster.records, c) => Accepts(inCluster.ca, inCluster.records, c)
=============================================================================
