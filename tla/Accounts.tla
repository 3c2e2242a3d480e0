------------------------------ MODULE Accounts ------------------------------
(***************************************************************************)
(* The agent credentials in the management backend (tokens, agent          *)
(* certificates, gateway keys: go/tun/access) and one relay's copy of them *)
(* (go/tun/relaynode/accounts.go).  The relay reads the tables one after   *)
(* the other while they change, from several goroutines; pushes tell it of *)
(* changes and may be lost; its snapshot survives a restart.               *)
(***************************************************************************)
EXTENDS Integers, FiniteSets

CONSTANTS
    Tokens,        \* token IDs; an ID is random, so never used twice
    Certs, CertOf, \* certificate serials and the token each is issued for
    Keys,          \* gateway key fingerprints
    Issued,        \* the tokens, certificates and keys there are at the start
    Refreshers,    \* reloads that can overlap: the resync loop's and the timers'
    LoopRefresher, \* the one of the resync loop, and of the start
    MaxPolicy,     \* bound on the versions of a token's policy
    MaxChanges,    \* bound on changes to the tables
    MaxTroubles    \* bound on outages of the backend and restarts of the relay

ASSUME AccountsConstants ==
    /\ CertOf \in [Certs -> Tokens] /\ LoopRefresher \in Refreshers
    /\ \A c \in Certs \cap Issued : CertOf[c] \in Issued
    /\ MaxPolicy \in Nat \ {0}

VARIABLES
    rows,       \* the tables: a token's policy (0: no such token), a
                \* certificate's state, the gateway keys
    revoked,    \* tokens deleted for good
    revoke,     \* the revoke request at work: its token, the certificates left
    reachable,  \* the backend answers
    pushes,     \* pushed changes not handled yet
    changes, troubles,
    serving,    \* the relay has its credentials and serves agents
    copy,       \* its tokens and gateway keys
    snapshot,   \* the accounts file: the empty set, or the copy it holds
    pending,    \* refreshPending
    reload,     \* the reloads at work: what each has read so far
    look,       \* the TokenByID at work
    backedOff,  \* downAt is less than liveLookupBackoff ago
    keysRecent  \* keysAt is less than a second ago

backendVars == <<rows, revoked, revoke, reachable, pushes, changes, troubles>>
relayVars == <<serving, copy, snapshot, pending, reload, look, backedOff, keysRecent>>
accountsVars == <<backendVars, relayVars>>

NoRecord == [policy |-> 0, serials |-> {}]
NoCopy == [tok |-> [t \in Tokens |-> NoRecord], keys |-> {}]
NoReload == [at |-> "idle", tok |-> [t \in Tokens |-> 0], cert |-> {}, keys |-> {}]
NoLook == [at |-> "idle", id |-> "", policy |-> 0]
NoRevoke == [id |-> "", certs |-> {}]

-----------------------------------------------------------------------------
\* ValidSerials: the certificates of a token that aren't revoked.
ValidSerials(t, valid) == {c \in valid : CertOf[c] = t}

TokenRecord(t, policy, valid) ==
    IF policy = 0 THEN NoRecord
    ELSE [policy |-> policy, serials |-> ValidSerials(t, valid)]

Valid == {c \in Certs : rows.cert[c] = "valid"}

\* What a relay that reads all tables at once would hold.
Stored == [tok |-> [t \in Tokens |-> TokenRecord(t, rows.tok[t], Valid)], keys |-> rows.keys]

AccountsInit ==
    /\ rows = [tok |-> [t \in Tokens |-> IF t \in Issued THEN 1 ELSE 0],
               cert |-> [c \in Certs |-> IF c \in Issued THEN "valid" ELSE "none"],
               keys |-> Keys \cap Issued]
    /\ revoked = {} /\ revoke = NoRevoke /\ reachable = TRUE /\ pushes = {}
    /\ changes = 0 /\ troubles = 0
    /\ serving = TRUE /\ copy = Stored /\ snapshot = {Stored}
    /\ pending = FALSE /\ reload = [r \in Refreshers |-> NoReload]
    /\ look = NoLook /\ backedOff = FALSE /\ keysRecent = FALSE

-----------------------------------------------------------------------------
(* Changes to the tables; each pushes to the relays when it is stored.     *)
Change(push) ==
    /\ reachable /\ changes < MaxChanges /\ changes' = changes + 1
    /\ pushes' = pushes \cup {push}
    /\ UNCHANGED <<reachable, troubles, relayVars>>

Reload == [kind |-> "changed", id |-> ""]

\* issueToken, through the token service's POST.
IssueToken(t) ==
    /\ rows.tok[t] = 0 /\ t \notin revoked
    /\ rows' = [rows EXCEPT !.tok[t] = 1]
    /\ Change(Reload) /\ UNCHANGED <<revoked, revoke>>

\* A PUT or PATCH of a token's name, description or policy; never its secret.
EditToken(t) ==
    /\ rows.tok[t] \in 1..(MaxPolicy - 1)
    /\ rows' = [rows EXCEPT !.tok[t] = @ + 1]
    /\ Change(Reload) /\ UNCHANGED <<revoked, revoke>>

\* issueCert: the certificate service checks that the token still exists.
IssueCert(c) ==
    /\ rows.cert[c] = "none" /\ rows.tok[CertOf[c]] # 0
    /\ rows' = [rows EXCEPT !.cert[c] = "valid"]
    /\ Change(Reload) /\ UNCHANGED <<revoked, revoke>>

\* A write to a certificate's record: only its revoked flag can change, and
\* only to TRUE.
RevokeCert(c) ==
    /\ rows.cert[c] = "valid"
    /\ rows' = [rows EXCEPT !.cert[c] = "revoked"]
    /\ Change(Reload) /\ UNCHANGED <<revoked, revoke>>

AddKey(k) ==
    /\ k \notin rows.keys
    /\ rows' = [rows EXCEPT !.keys = @ \cup {k}]
    /\ Change(Reload) /\ UNCHANGED <<revoked, revoke>>

DeleteKey(k) ==
    /\ k \in rows.keys
    /\ rows' = [rows EXCEPT !.keys = @ \ {k}]
    /\ Change(Reload) /\ UNCHANGED <<revoked, revoke>>

\* revoke: the token goes first, with a push of its own, ...
RevokeToken(t) ==
    /\ revoke = NoRevoke /\ rows.tok[t] # 0
    /\ rows' = [rows EXCEPT !.tok[t] = 0]
    /\ revoked' = revoked \cup {t}
    /\ revoke' = [id |-> t, certs |-> {c \in Certs : CertOf[c] = t /\ rows.cert[c] \in {"valid", "revoked"}}]
    /\ Change([kind |-> "deleted", id |-> t])

\* ... then its certificates; when the backend stops answering the rest stay.
RevokeNext ==
    /\ revoke # NoRevoke
    /\ IF revoke.certs = {} \/ ~reachable
       THEN revoke' = NoRevoke /\ UNCHANGED <<rows, pushes>>
       ELSE \E c \in revoke.certs :
              /\ revoke' = [revoke EXCEPT !.certs = @ \ {c}]
              /\ rows' = [rows EXCEPT !.cert[c] = "deleted"]
              /\ pushes' = pushes \cup {Reload}
    /\ UNCHANGED <<revoked, reachable, changes, troubles, relayVars>>

Outage ==
    /\ reachable /\ troubles < MaxTroubles
    /\ reachable' = FALSE /\ troubles' = troubles + 1
    /\ UNCHANGED <<rows, revoked, revoke, pushes, changes, relayVars>>

Recovery ==
    /\ ~reachable /\ reachable' = TRUE
    /\ UNCHANGED <<rows, revoked, revoke, pushes, changes, troubles, relayVars>>

-----------------------------------------------------------------------------
(* The relay: pushes.                                                      *)

DropToken(t) == copy' = [copy EXCEPT !.tok[t] = NoRecord]

\* handle: a deleted token is dropped at once (dropToken; its sessions end);
\* any other change asks for a reload a second later, unless one is pending.
Handle(p) ==
    /\ serving
    /\ pushes' = pushes \ {p}
    /\ \/ /\ p.kind = "deleted"
          /\ DropToken(p.id)
          /\ UNCHANGED pending
       \/ p.kind = "changed" /\ pending' = TRUE /\ UNCHANGED copy
    /\ UNCHANGED <<rows, revoked, revoke, reachable, changes, troubles,
                   serving, snapshot, reload, look, backedOff, keysRecent>>

PushMissed(p) ==
    /\ pushes' = pushes \ {p}
    /\ UNCHANGED <<rows, revoked, revoke, reachable, changes, troubles, relayVars>>

-----------------------------------------------------------------------------
(* The relay: reloads.                                                     *)
Untouched == UNCHANGED <<backendVars, look, backedOff, keysRecent>>

\* tokens.Tokens: the first table a reload reads.
TokensRead == [NoReload EXCEPT !.at = "certs", !.tok = rows.tok]

\* The loop's ticker or, once a second has passed, the timer.
RefreshStart(r) ==
    /\ serving /\ reload[r] = NoReload
    /\ \/ r = LoopRefresher /\ UNCHANGED pending
       \/ r # LoopRefresher /\ pending /\ pending' = FALSE
    /\ reload' = [reload EXCEPT ![r] = IF reachable THEN TokensRead ELSE NoReload]
    /\ UNCHANGED <<serving, copy, snapshot>> /\ Untouched

\* Each read in turn; the reload gives up on the first error.
RefreshRead(r) ==
    /\ reload[r].at \in {"certs", "keys"}
    /\ reload' = [reload EXCEPT ![r] =
         IF ~reachable THEN NoReload
         ELSE IF @.at = "certs" THEN [@ EXCEPT !.at = "keys", !.cert = Valid]
         ELSE [@ EXCEPT !.at = "swap", !.keys = rows.keys]]
    /\ UNCHANGED <<serving, copy, snapshot, pending>> /\ Untouched

\* A faulty variant: the tables are merged into the copy.
RefreshMerges(r) ==
    /\ reload[r].at = "swap"
    /\ copy' = [tok |-> [t \in Tokens |-> IF reload[r].tok[t] = 0 THEN copy.tok[t]
                                          ELSE TokenRecord(t, reload[r].tok[t], reload[r].cert)],
                keys |-> copy.keys \cup reload[r].keys]
    /\ reload' = [reload EXCEPT ![r] = [NoReload EXCEPT !.at = "save"]]
    /\ serving' = TRUE
    /\ UNCHANGED <<snapshot, pending>> /\ Untouched

\* The tables that were read replace the copy.
RefreshSwap(r) ==
    /\ reload[r].at = "swap"
    /\ copy' = [tok |-> [t \in Tokens |-> TokenRecord(t, reload[r].tok[t], reload[r].cert)],
                keys |-> reload[r].keys]
    /\ reload' = [reload EXCEPT ![r] = [NoReload EXCEPT !.at = "save"]]
    /\ serving' = TRUE
    /\ UNCHANGED <<snapshot, pending>> /\ Untouched

\* save: whatever the copy is by now.
Save(r) ==
    /\ reload[r].at = "save"
    /\ snapshot' = {copy}
    /\ reload' = [reload EXCEPT ![r] = NoReload]
    /\ UNCHANGED <<serving, copy, pending>> /\ Untouched

-----------------------------------------------------------------------------
(* The relay: lookups of agents and gateway users.                         *)
LookupTouches == UNCHANGED <<backendVars, serving, snapshot, pending, reload>>

\* TokenByID: the cache answers alone for a while after a failed lookup.
LookupStart(t) ==
    /\ serving /\ look = NoLook /\ ~backedOff
    /\ IF reachable
       THEN look' = [at |-> "certs", id |-> t, policy |-> rows.tok[t]] /\ UNCHANGED backedOff
       ELSE backedOff' = TRUE /\ UNCHANGED look
    /\ UNCHANGED <<copy, keysRecent>> /\ LookupTouches

\* fetchToken's second read, and the answer kept in the copy.
LookupEnd ==
    /\ look.at = "certs"
    /\ IF reachable \/ look.policy = 0
       THEN /\ copy' = [copy EXCEPT !.tok[look.id] = TokenRecord(look.id, look.policy, Valid)]
            /\ UNCHANGED backedOff
       ELSE backedOff' = TRUE /\ UNCHANGED copy
    /\ look' = NoLook
    /\ UNCHANGED keysRecent /\ LookupTouches

\* GatewayKeyByFingerprint of a key that isn't known yet.
KeyLookup(k) ==
    /\ serving /\ k \notin copy.keys /\ ~keysRecent /\ ~backedOff
    /\ IF reachable
       THEN copy' = [copy EXCEPT !.keys = rows.keys] /\ keysRecent' = TRUE /\ UNCHANGED backedOff
       ELSE backedOff' = TRUE /\ UNCHANGED <<copy, keysRecent>>
    /\ UNCHANGED look /\ LookupTouches

BackoffEnds ==
    /\ backedOff \/ keysRecent
    /\ backedOff' = FALSE /\ keysRecent' = FALSE
    /\ UNCHANGED <<copy, look>> /\ LookupTouches

-----------------------------------------------------------------------------
(* The relay restarts: loadAccounts.                                       *)
RelayCrash ==
    /\ serving /\ troubles < MaxTroubles /\ troubles' = troubles + 1
    /\ serving' = FALSE /\ copy' = NoCopy /\ pending' = FALSE
    /\ reload' = [r \in Refreshers |-> NoReload]
    /\ look' = NoLook /\ backedOff' = FALSE /\ keysRecent' = FALSE
    /\ UNCHANGED <<rows, revoked, revoke, reachable, pushes, changes, snapshot>>

\* load: the snapshot, if there is one.
Load == \E s \in snapshot : copy' = s

\* From the backend; or from the snapshot when the backend doesn't answer;
\* without one it tries again.
LoadAccounts ==
    /\ ~serving /\ reload[LoopRefresher] = NoReload
    /\ IF reachable
       THEN reload' = [reload EXCEPT ![LoopRefresher] = TokensRead]
            /\ UNCHANGED <<serving, copy>>
       ELSE Load /\ serving' = TRUE /\ UNCHANGED reload
    /\ UNCHANGED <<snapshot, pending>> /\ Untouched

-----------------------------------------------------------------------------
AccountsNext ==
    \/ \E t \in Tokens : IssueToken(t) \/ EditToken(t) \/ RevokeToken(t) \/ LookupStart(t)
    \/ \E c \in Certs : IssueCert(c) \/ RevokeCert(c)
    \/ \E k \in Keys : AddKey(k) \/ DeleteKey(k) \/ KeyLookup(k)
    \/ RevokeNext \/ Outage \/ Recovery \/ LookupEnd \/ BackoffEnds
    \/ RelayCrash \/ LoadAccounts
    \/ \E p \in pushes : Handle(p) \/ PushMissed(p)
    \/ \E r \in Refreshers : RefreshStart(r) \/ RefreshRead(r) \/ RefreshSwap(r) \/ Save(r)

\* A reload that has begun.
ReloadStep(r) == RefreshRead(r) \/ RefreshSwap(r) \/ Save(r)

\* An outage ends, the loop's ticker fires again and again, and what has begun
\* goes on.
AccountsFairness ==
    /\ WF_accountsVars(Recovery) /\ WF_accountsVars(LoadAccounts)
    /\ WF_accountsVars(RevokeNext) /\ WF_accountsVars(LookupEnd)
    /\ WF_accountsVars(RefreshStart(LoopRefresher))
    /\ \A r \in Refreshers : WF_accountsVars(ReloadStep(r))

AccountsSpec == AccountsInit /\ [][AccountsNext]_accountsVars /\ AccountsFairness

-----------------------------------------------------------------------------
\* Whatever order reloads, lookups, lost pushes, outages and restarts came in,
\* once the tables rest the relay's copy of the credentials, and the snapshot a
\* restart would use, become what the tables say and stay so: the resync heals a
\* reload that swapped in older tables than another had (accounts.refresh).
CopySettles == <>[](serving /\ copy = Stored /\ snapshot = {Stored})
=============================================================================
