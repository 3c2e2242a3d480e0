----------------------------- MODULE Standalone ------------------------------
(***************************************************************************)
(* A standalone relay's accounts: the bbolt store (go/tunnel/store), the   *)
(* admin API whose requests change the store and the running relay one     *)
(* after the other (go/tunnel/admin/api.go), the relay's start from the    *)
(* store, and the move to a cluster: the export read bucket by bucket, and *)
(* the import that posts it object by object and may stop and be run again *)
(* (go/tun/access/issue/TunIssueImport.go).  Each store call is one        *)
(* transaction.  A relay's names here are its permanent ones; NameRegistry *)
(* has the sessions.  Port 0 is no port.                                   *)
(***************************************************************************)
EXTENDS Integers, FiniteSets

CONSTANTS
    TokenIds, FixedNames, FixedPorts, Fingerprints,
    Operators,   \* admin requests served at once
    MaxRequests, \* bound on admin requests
    MaxStops     \* bound on relay crashes and failed imports

ASSUME StoreConstants ==
    /\ "none" \notin TokenIds
    /\ TokenIds # {} /\ FixedNames # {} /\ FixedPorts # {}

VARIABLES
    bucket,    \* the store: tokens, rows (name -> token and port), serials, keys
    relayUp,
    permanent, \* the relay's permanent names, as rows
    request,   \* per operator, the admin request being served
    minted,    \* token IDs ever made
    requests, stops,
    overwritten, \* history: names whose row a late addition stored for another token
               \* than the one the relay, by then, held the name for
    export,    \* the export: its stage and what it has read
    import,    \* the import: its stage and what is left of it
    cluster    \* the management tables

adminVars == <<bucket, relayUp, permanent, request, minted, requests, stops, overwritten>>
moveVars == <<export, import, cluster>>
standaloneVars == <<bucket, relayUp, permanent, request, minted, requests, stops, overwritten, export, import,
                    cluster>>

NoRow == [tok |-> "none", port |-> 0]
NoRows == [n \in FixedNames |-> NoRow]
Empty == [tokens |-> {}, rows |-> NoRows, serials |-> {}, keys |-> {}]
NoExport == [stage |-> "no", got |-> Empty]
NoImport == [stage |-> "no", todo |-> {}]
NoRequest == [op |-> "none", name |-> "none", tok |-> "none", port |-> 0]

\* A relay with one token or all of them, and one reservation, there since the last
\* start.
StandaloneInit ==
    /\ LET t == CHOOSE t \in TokenIds : TRUE
           n == CHOOSE n \in FixedNames : TRUE
           p == CHOOSE p \in FixedPorts : TRUE
       IN /\ minted \in {{t}, TokenIds}
          /\ bucket = [Empty EXCEPT !.tokens = minted, !.rows[n] = [tok |-> t, port |-> p]]
          /\ permanent = bucket.rows
    /\ relayUp = TRUE
    /\ request = [o \in Operators |-> NoRequest]
    /\ requests = 0 /\ stops = 0 /\ overwritten = {}
    /\ export = NoExport /\ import = NoImport /\ cluster = Empty

\* What the relay does once its export is on the way to a cluster is not followed.
Arrives(o) ==
    /\ relayUp /\ request[o] = NoRequest /\ import.stage = "no"
    /\ requests < MaxRequests /\ requests' = requests + 1
Stop == stops < MaxStops /\ stops' = stops + 1
Continue(o, r) == request' = [request EXCEPT ![o] = r]
Done(o) == Continue(o, NoRequest)
Quiet == \A o \in Operators : request[o] = NoRequest

-----------------------------------------------------------------------------
(* The store: what each call's transaction makes of the buckets.           *)

\* TokenByName, TokenByID.
HasToken(t) == t \in bucket.tokens
AddToken(t) == [bucket EXCEPT !.tokens = @ \cup {t}]
\* The record of a token has its certificates' serials.
WithSerial(t) == [bucket EXCEPT !.serials = @ \cup {t}]
\* DeleteToken: the token, its record's serials and its reservations.
WithoutToken(b, t) ==
    [b EXCEPT !.tokens = @ \ {t}, !.serials = @ \ {t},
              !.rows = [n \in FixedNames |-> IF @[n].tok = t THEN NoRow ELSE @[n]]]
PutRow(n, t, p) == [bucket EXCEPT !.rows[n] = [tok |-> t, port |-> p]]
DeleteRow(n) == [bucket EXCEPT !.rows[n] = NoRow]
WithKey(k) == [bucket EXCEPT !.keys = @ \cup {k}]
WithoutKey(k) == [bucket EXCEPT !.keys = @ \ {k}]

-----------------------------------------------------------------------------
(* The relay's permanent names.                                            *)

\* Server.Reserve: another token's name, or a port some other name holds, is refused.
CanReserve(rows, n, t, p) ==
    /\ rows[n].tok \in {"none", t}
    /\ (p # 0 /\ rows[n].port # p) => \A m \in FixedNames : rows[m].port # p

\* A reservation without a port keeps the port the name has.
Reserved(rows, n, t, p) == [rows EXCEPT ![n] = [tok |-> t, port |-> IF p # 0 THEN p ELSE @.port]]

-----------------------------------------------------------------------------
(* The admin API.                                                          *)

\* createToken: a new ID.
CreateToken(o, t) ==
    /\ Arrives(o) /\ t \notin minted
    /\ minted' = minted \cup {t} /\ bucket' = AddToken(t)
    /\ UNCHANGED <<relayUp, permanent, request, stops, overwritten, moveVars>>

\* issueCert: the serial is recorded with its token.
IssueSerial(o, t) ==
    /\ Arrives(o) /\ HasToken(t) /\ t \notin bucket.serials
    /\ bucket' = WithSerial(t)
    /\ UNCHANGED <<relayUp, permanent, request, minted, stops, overwritten, moveVars>>

\* addGatewayKey and removeGatewayKey; the latter finds the key, then deletes it.
AddGatewayKey(o, k) ==
    /\ Arrives(o) /\ k \notin bucket.keys
    /\ bucket' = WithKey(k)
    /\ UNCHANGED <<relayUp, permanent, request, minted, stops, overwritten, moveVars>>

RemoveGatewayKey(o, k) ==
    /\ Arrives(o) /\ k \in bucket.keys
    /\ Continue(o, [NoRequest EXCEPT !.op = "delkey", !.name = k])
    /\ UNCHANGED <<bucket, relayUp, permanent, minted, stops, overwritten, moveVars>>

DeleteGatewayKey(o) ==
    /\ relayUp /\ request[o].op = "delkey"
    /\ bucket' = WithoutKey(request[o].name) /\ Done(o)
    /\ UNCHANGED <<relayUp, permanent, minted, requests, stops, overwritten, moveVars>>

\* revokeToken, call by call: TokenByName, DeleteToken, DisconnectToken.
RevokeByName(o, t) ==
    /\ Arrives(o) /\ HasToken(t)
    /\ Continue(o, [NoRequest EXCEPT !.op = "delete", !.tok = t])
    /\ UNCHANGED <<bucket, relayUp, permanent, minted, stops, overwritten, moveVars>>

DeleteToken(o) ==
    LET t == request[o].tok
    IN /\ relayUp /\ request[o].op = "delete"
       /\ IF HasToken(t)
          THEN /\ bucket' = WithoutToken(bucket, t)
               /\ Continue(o, [request[o] EXCEPT !.op = "release"])
          ELSE Done(o) /\ UNCHANGED bucket
       /\ UNCHANGED <<relayUp, permanent, minted, requests, stops, overwritten, moveVars>>

ReleaseToken(o) ==
    /\ relayUp /\ request[o].op = "release"
    /\ permanent' = [n \in FixedNames |-> IF permanent[n].tok = request[o].tok THEN NoRow ELSE permanent[n]]
    /\ Done(o)
    /\ UNCHANGED <<bucket, relayUp, minted, requests, stops, overwritten, moveVars>>

\* addReservation: TokenByName, the relay's Reserve, then PutReservation; when the
\* token has gone meanwhile, the relay's name is given back.
AddReservation(o, n, t, p) ==
    /\ Arrives(o) /\ HasToken(t)
    /\ Continue(o, [op |-> "reserve", name |-> n, tok |-> t, port |-> p])
    /\ UNCHANGED <<bucket, relayUp, permanent, minted, stops, overwritten, moveVars>>

ReserveInRelay(o) ==
    LET r == request[o]
    IN /\ relayUp /\ r.op = "reserve"
       /\ IF CanReserve(permanent, r.name, r.tok, r.port)
          THEN /\ permanent' = Reserved(permanent, r.name, r.tok, r.port)
               /\ Continue(o, [r EXCEPT !.op = "put"])
          ELSE Done(o) /\ UNCHANGED permanent
       /\ UNCHANGED <<bucket, relayUp, minted, requests, stops, overwritten, moveVars>>

\* A faulty variant: the name stays with the relay when the row can't be stored.
PutReservationOnly(o) ==
    LET r == request[o]
    IN /\ relayUp /\ r.op = "put" /\ Done(o)
       /\ IF HasToken(r.tok)
          THEN bucket' = PutRow(r.name, r.tok, r.port)
          ELSE UNCHANGED bucket
       /\ UNCHANGED <<permanent, relayUp, minted, requests, stops, overwritten, moveVars>>

\* Another addition has settled the name for another token meanwhile.
Overtaken(r) ==
    /\ bucket.rows[r.name].tok = permanent[r.name].tok
    /\ permanent[r.name].tok \notin {"none", r.tok}

PutReservation(o) ==
    LET r == request[o]
    IN /\ relayUp /\ r.op = "put" /\ Done(o)
       /\ IF HasToken(r.tok)
          THEN /\ bucket' = PutRow(r.name, r.tok, r.port)
               /\ overwritten' = overwritten \cup {n \in {r.name} : Overtaken(r)}
               /\ UNCHANGED permanent
          ELSE /\ permanent' = [permanent EXCEPT ![r.name] = NoRow]
               /\ UNCHANGED <<bucket, overwritten>>
       /\ UNCHANGED <<relayUp, minted, requests, stops, moveVars>>

\* removeReservation: the store first, then the relay.
RemoveReservation(o, n) ==
    /\ Arrives(o) /\ bucket.rows[n] # NoRow
    /\ bucket' = DeleteRow(n)
    /\ Continue(o, [NoRequest EXCEPT !.op = "unreserve", !.name = n])
    /\ UNCHANGED <<relayUp, permanent, minted, stops, overwritten, moveVars>>

Unreserve(o) ==
    /\ relayUp /\ request[o].op = "unreserve"
    /\ permanent' = [permanent EXCEPT ![request[o].name] = NoRow] /\ Done(o)
    /\ UNCHANGED <<bucket, relayUp, minted, requests, stops, overwritten, moveVars>>

-----------------------------------------------------------------------------
(* Crash and start.                                                        *)
Killed ==
    /\ relayUp /\ export.stage # "done" /\ Stop /\ relayUp' = FALSE
    /\ request' = [o \in Operators |-> NoRequest] /\ permanent' = NoRows
    /\ export' = NoExport /\ overwritten' = {}
    /\ UNCHANGED <<bucket, minted, requests, import, cluster>>

\* Two rows with one port: the second Reserve fails, and New with it.
Loads(rows) == \A m, n \in FixedNames : m # n /\ rows[m].port # 0 => rows[m].port # rows[n].port

\* New reserves every stored row before the relay listens.
StartRelay ==
    /\ ~relayUp /\ Loads(bucket.rows)
    /\ relayUp' = TRUE /\ permanent' = bucket.rows
    /\ UNCHANGED <<bucket, request, minted, requests, stops, overwritten, moveVars>>
-----------------------------------------------------------------------------
(* The move to a cluster.                                                  *)

\* Export: three reads.
ExportTokens ==
    /\ relayUp /\ export.stage = "no"
    /\ export' = [stage |-> "rows", got |-> [Empty EXCEPT !.tokens = bucket.tokens, !.serials = bucket.serials]]
    /\ UNCHANGED <<adminVars, import, cluster>>

ExportRows ==
    /\ relayUp /\ export.stage = "rows"
    /\ export' = [export EXCEPT !.stage = "keys", !.got.rows = bucket.rows]
    /\ UNCHANGED <<adminVars, import, cluster>>

ExportKeys ==
    /\ relayUp /\ export.stage = "keys"
    /\ export' = [export EXCEPT !.stage = "done", !.got.keys = bucket.keys]
    /\ UNCHANGED <<adminVars, import, cluster>>

\* The operator runs the import, and runs it again after a failure.
ImportRun ==
    /\ export.stage = "done" /\ Quiet /\ import.stage \in {"no", "failed"}
    /\ import' = [stage |-> "tokens", todo |-> export.got.tokens]
    /\ UNCHANGED <<adminVars, export, cluster>>

\* The next of the stages when one has nothing left.
ImportStage ==
    /\ import.stage \in {"tokens", "rows", "keys"} /\ import.todo = {}
    /\ import' = CASE import.stage = "tokens" ->
                       [stage |-> "rows", todo |-> {n \in FixedNames : export.got.rows[n] # NoRow}]
                   [] import.stage = "rows" -> [stage |-> "keys", todo |-> export.got.keys]
                   [] OTHER -> [stage |-> "done", todo |-> {}]
    /\ UNCHANGED <<adminVars, export, cluster>>

\* A token that isn't there is posted, then its certificates' serials.
ImportToken(t) ==
    /\ import.stage = "tokens" /\ t \in import.todo
    /\ import' = [import EXCEPT !.todo = @ \ {t}]
    /\ cluster' = [cluster EXCEPT !.tokens = @ \cup {t}, !.serials = @ \cup ({t} \cap export.got.serials)]
    /\ UNCHANGED <<adminVars, export>>

\* What TunReservation's validate asks of a new row.
RowAccepted(tables, row) ==
    /\ row.tok \in tables.tokens
    /\ row.port # 0 => \A m \in FixedNames : tables.rows[m].port # row.port

\* A faulty variant: a row that is there already is posted again, and refused.
ImportRowAnew(n) ==
    /\ import.stage = "rows" /\ n \in import.todo
    /\ LET row == export.got.rows[n]
       IN IF cluster.rows[n] = NoRow /\ RowAccepted(cluster, row)
          THEN cluster' = [cluster EXCEPT !.rows[n] = row] /\ import' = [import EXCEPT !.todo = @ \ {n}]
          ELSE import' = [stage |-> "failed", todo |-> {}] /\ UNCHANGED cluster
    /\ UNCHANGED <<adminVars, export>>

\* postIfNew looks the object up among those of its service.
IsNew(n) == cluster.rows[n] = NoRow

\* postIfNew for a reservation: one of that name is left alone; a refused one ends
\* the import.
ImportRow(n) ==
    /\ import.stage = "rows" /\ n \in import.todo
    /\ LET row == export.got.rows[n]
       IN IF IsNew(n) /\ ~RowAccepted(cluster, row)
          THEN import' = [stage |-> "failed", todo |-> {}] /\ UNCHANGED cluster
          ELSE /\ import' = [import EXCEPT !.todo = @ \ {n}]
               /\ cluster' = IF IsNew(n) THEN [cluster EXCEPT !.rows[n] = row] ELSE cluster
    /\ UNCHANGED <<adminVars, export>>

ImportKey(k) ==
    /\ import.stage = "keys" /\ k \in import.todo
    /\ import' = [import EXCEPT !.todo = @ \ {k}]
    /\ cluster' = [cluster EXCEPT !.keys = @ \cup {k}]
    /\ UNCHANGED <<adminVars, export>>

\* A service that can't be reached, or a backend that stops, in the middle; a token
\* may have been posted without its serials.
ImportStops ==
    /\ import.stage \in {"tokens", "rows", "keys"} /\ Stop
    /\ import' = [stage |-> "failed", todo |-> {}]
    /\ \/ UNCHANGED cluster
       \/ /\ import.stage = "tokens"
          /\ \E t \in import.todo : cluster' = [cluster EXCEPT !.tokens = @ \cup {t}]
    /\ UNCHANGED <<bucket, relayUp, permanent, request, minted, requests, overwritten, export>>

\* An operator of the cluster revokes a token meanwhile, its rows and serials with it.
ClusterRevokes(t) ==
    /\ t \in cluster.tokens /\ import.stage # "done" /\ Stop
    /\ cluster' = WithoutToken(cluster, t)
    /\ UNCHANGED <<bucket, relayUp, permanent, request, minted, requests, overwritten, export, import>>

AdminRequest(o) ==
    \/ \E t \in TokenIds : CreateToken(o, t) \/ IssueSerial(o, t) \/ RevokeByName(o, t)
    \/ \E k \in Fingerprints : AddGatewayKey(o, k) \/ RemoveGatewayKey(o, k)
    \/ \E n \in FixedNames :
          \/ RemoveReservation(o, n)
          \/ \E t \in TokenIds, p \in FixedPorts \cup {0} : AddReservation(o, n, t, p)

AdminStep(o) ==
    \/ DeleteGatewayKey(o) \/ DeleteToken(o) \/ ReleaseToken(o)
    \/ ReserveInRelay(o) \/ PutReservation(o) \/ Unreserve(o)

ImportStep ==
    \/ ImportStage
    \/ \E t \in TokenIds : ImportToken(t)
    \/ \E n \in FixedNames : ImportRow(n)
    \/ \E k \in Fingerprints : ImportKey(k)

StandaloneNext ==
    \/ \E o \in Operators : AdminRequest(o) \/ AdminStep(o)
    \/ Killed \/ StartRelay
    \/ ExportTokens \/ ExportRows \/ ExportKeys
    \/ ImportRun \/ ImportStep \/ ImportStops
    \/ \E t \in TokenIds : ClusterRevokes(t)

\* An import goes on, and its operator runs it again when it failed.
StandaloneFairness == WF_standaloneVars(ImportStep) /\ WF_standaloneVars(ImportRun)

StandaloneSpec == StandaloneInit /\ [][StandaloneNext]_standaloneVars /\ StandaloneFairness

-----------------------------------------------------------------------------
\* With no request under way, every name the running relay holds for good has its
\* row in the store, for the same token: however additions, removals, revocations
\* and restarts interleave, a refused or half-done request leaves no name behind
\* that only a restart would free (addReservation, removeReservation, revokeToken).
\* One race is left aside: an addition that is slow between Reserve and
\* PutReservation, while the name is removed and added again for another token,
\* stores its row over the newer one.
NoOrphanNames ==
    relayUp /\ Quiet =>
        \A n \in FixedNames \ overwritten :
            permanent[n] # NoRow => permanent[n].tok = bucket.rows[n].tok

\* An import that is stopped or fails anywhere is finished by running it again, when
\* what was exported fits together: nothing it did before stands in its way
\* (importExport: "Objects that already exist are skipped, so an import can be re-run").
ImportEnds ==
    (import.stage = "tokens" /\ Loads(export.got.rows)
       /\ \A n \in FixedNames : export.got.rows[n].tok \in export.got.tokens \cup {"none"})
      ~> (import.stage = "done")
=============================================================================
