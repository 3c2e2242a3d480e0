------------------------------ MODULE MCProgress ------------------------------
(***************************************************************************)
(* What must eventually happen in the parts around the name registries,    *)
(* followed one at a time: a backend pool of the edge, an agent and its    *)
(* relay, a relay's stop, the live tables and a node's copy of them, the   *)
(* edge's configuration and its certificates, a relay's copy of the        *)
(* credentials and its certificate, an alert, the move of a standalone     *)
(* relay to a cluster, and the agent's inspector.  The parts share no      *)
(* state, so one run over the part chosen initially explores each on its   *)
(* own.                                                                    *)
(***************************************************************************)
EXTENDS EdgePool, AgentSession, RelayServer, LiveTables, EdgeConfig, Accounts, Alerts, Standalone,
        RelayCert, EdgeCerts, Inspector

VARIABLE part

partsVars == <<poolVars, sessionVars, serverVars, tablesVars, configVars, accountsVars,
               alertVars, standaloneVars, certVars, edgeCertVars, inspectorVars, part>>

MCAddrs == <<"m1", "m2">>
MCWeight == [m1 |-> 2, m2 |-> 1]
Forward1 == [lb |-> "ROUND_ROBIN", checks |-> "passive", dns |-> FALSE, tls |-> TRUE]
MCForwards == {Forward1,
               [lb |-> "RANDOM", checks |-> "active", dns |-> TRUE, tls |-> FALSE]}

Fwd(id, port, end, proto, mode) ==
    [id |-> id, port |-> port, end |-> end, proto |-> proto, mode |-> mode, on |-> TRUE, targets |-> {"t"}]
Site(names, cert, fwds) == [kind |-> "SITE", names |-> names, on |-> TRUE, fwds |-> fwds, cert |-> cert]
MCBaseForwards == {Fwd(101, 1, 0, "TLS", "RELAY"), Fwd(102, 2, 3, "TCP", "RELAY")}
\* A site on the base's TLS port and a port of its own; one with a certificate; and
\* one that asks for a port inside the base's range.
MCDrafts == [s1 |-> {Site({"a"}, None, {Fwd(0, 1, 0, "TLS", ""), Fwd(0, 4, 0, "TCP", "")}),
                     Site({"a"}, "c1", {Fwd(7, 1, 0, "TLS", "TERMINATE")}),
                     Site({"a"}, None, {Fwd(0, 3, 0, "TCP", "")})}]
MCWildcardOf == [w |-> "w"]
MCCertOf == [c1 |-> "t1", c2 |-> "t1"]

\* A part that isn't followed stays in one initial state.
PartsInit ==
    /\ part \in {"pool", "agent", "server", "tables", "config", "accounts", "alerts", "store",
                "tunnelcert", "sitecerts", "inspector"}
    /\ PoolInit /\ AgentInit /\ ServerInit /\ TablesInit /\ ConfigInit /\ AccountsInit
    /\ AlertInit /\ StandaloneInit /\ CertInit /\ CertsInit /\ InspectorInit
    /\ part # "pool" => fwd = Forward1
    /\ part # "alerts" => watches = "agent"
    /\ Cardinality(minted) = 1

Follows(p, own) == part = p /\ own /\ UNCHANGED part

PartsNext ==
    \/ /\ Follows("pool", PoolNext)
       /\ UNCHANGED <<sessionVars, serverVars, tablesVars, configVars, accountsVars,
                       alertVars, standaloneVars, certVars, edgeCertVars, inspectorVars>>
    \/ /\ Follows("agent", AgentNext)
       /\ UNCHANGED <<poolVars, serverVars, tablesVars, configVars, accountsVars, alertVars,
                       standaloneVars, certVars, edgeCertVars, inspectorVars>>
    \/ /\ Follows("server", ServerNext)
       /\ UNCHANGED <<poolVars, sessionVars, tablesVars, configVars, accountsVars, alertVars,
                       standaloneVars, certVars, edgeCertVars, inspectorVars>>
    \/ /\ Follows("tables", TablesNext)
       /\ UNCHANGED <<poolVars, sessionVars, serverVars, configVars, accountsVars, alertVars,
                       standaloneVars, certVars, edgeCertVars, inspectorVars>>
    \/ /\ Follows("config", ConfigNext)
       /\ UNCHANGED <<poolVars, sessionVars, serverVars, tablesVars, accountsVars, alertVars,
                       standaloneVars, certVars, edgeCertVars, inspectorVars>>
    \/ /\ Follows("accounts", AccountsNext)
       /\ UNCHANGED <<poolVars, sessionVars, serverVars, tablesVars, configVars, alertVars,
                       standaloneVars, certVars, edgeCertVars, inspectorVars>>
    \/ /\ Follows("alerts", AlertNext)
       /\ UNCHANGED <<poolVars, sessionVars, serverVars, tablesVars, configVars,
                       accountsVars, standaloneVars, certVars, edgeCertVars, inspectorVars>>
    \/ /\ Follows("store", StandaloneNext)
       /\ UNCHANGED <<poolVars, sessionVars, serverVars, tablesVars, configVars,
                       accountsVars, alertVars, certVars, edgeCertVars, inspectorVars>>
    \/ /\ Follows("tunnelcert", CertNext)
       /\ UNCHANGED <<poolVars, sessionVars, serverVars, tablesVars, configVars,
                       accountsVars, alertVars, standaloneVars, edgeCertVars, inspectorVars>>
    \/ /\ Follows("sitecerts", CertsNext)
       /\ UNCHANGED <<poolVars, sessionVars, serverVars, tablesVars, configVars,
                       accountsVars, alertVars, standaloneVars, certVars, inspectorVars>>
    \/ /\ Follows("inspector", InspectorNext)
       /\ UNCHANGED <<poolVars, sessionVars, serverVars, tablesVars, configVars,
                       accountsVars, alertVars, standaloneVars, certVars, edgeCertVars>>

PartsSpec == PartsInit /\ [][PartsNext]_partsVars

-----------------------------------------------------------------------------
(* The properties of the parts, each under its own part's fairness         *)
(* (PoolFairness, AgentFairness, ...) while that part is the one followed. *)

\* Pool members that were taken down come back (checkAll, passed).
PoolRecovers ==
    /\ part = "pool"
    /\ WF_poolVars(part = "pool" /\ PoolLoop)
    /\ \A a \in All : WF_poolVars(part = "pool" /\ Rest(a))
    /\ \A c \in Conns : WF_poolVars(part = "pool" /\ DialEnds(c))
    => MembersRecover

AgentRuns ==
    /\ part = "agent"
    /\ WF_sessionVars(part = "agent" /\ RunStep)
    /\ WF_sessionVars(part = "agent" /\ Heartbeat)
    /\ WF_sessionVars(part = "agent" /\ ReadPong)
    /\ WF_sessionVars(part = "agent" /\ AddressGone)
    /\ \A s \in Slots : WF_sessionVars(part = "agent" /\ RelayStep(s))
    /\ WF_sessionVars(part = "agent" /\ Recover)
    /\ WF_sessionVars(part = "agent" /\ TargetEnds)

\* The agent comes back to serving unless told to stop or refused (Run, runSession).
AgentComesBack == AgentRuns => AgentReturns

\* The relay ends a session whose agent left without a word (watchdog).
RelayNotices == AgentRuns => HalfOpenEnds

\* Close returns (Server.Close).
ServerCloses ==
    /\ part = "server"
    /\ WF_serverVars(part = "server" /\ (CloseServers \/ CloseReturns))
    /\ \A c \in Visitors : /\ WF_serverVars(part = "server" /\ ServerStep(c))
                           /\ WF_serverVars(part = "server" /\ OutsiderLeaves(c))
    => CloseEnds

\* A node routes to the engine's owner in the end (reconcile, LiveView.ensure).
NodeRoutes ==
    /\ part = "tables"
    /\ WF_tablesVars(part = "tables" /\ Reconcile)
    /\ WF_tablesVars(part = "tables" /\ Lookup)
    /\ WF_tablesVars(part = "tables" /\ Ages)
    => RoutesSettle

\* The edge runs the stored configuration in the end (Node.reload, Edge.Apply).
EdgeFollows ==
    /\ part = "config"
    /\ WF_configVars(part = "config" /\ EnsureTunnelBase)
    /\ WF_configVars(part = "config" /\ PushArrives)
    /\ WF_configVars(part = "config" /\ Resync)
    /\ \A t \in Timers : WF_configVars(part = "config" /\ TimerFires(t))
    /\ \A r \in Reloaders : /\ WF_configVars(part = "config" /\ NodeStep(r))
                            /\ SF_configVars(part = "config" /\ ApplyStart(r))
    /\ WF_configVars(part = "config" /\ ApplyStep)
    /\ WF_configVars(part = "config" /\ Restart)
    /\ WF_configVars(part = "config" /\ BackendReturns)
    => EdgeConverges

\* The relay's credentials become the stored ones (accounts.refresh, save).
RelayLearns ==
    /\ part = "accounts"
    /\ WF_accountsVars(part = "accounts" /\ Recovery)
    /\ WF_accountsVars(part = "accounts" /\ LoadAccounts)
    /\ WF_accountsVars(part = "accounts" /\ RevokeNext)
    /\ WF_accountsVars(part = "accounts" /\ LookupEnd)
    /\ WF_accountsVars(part = "accounts" /\ RefreshStart(LoopRefresher))
    /\ \A r \in Refreshers : WF_accountsVars(part = "accounts" /\ ReloadStep(r))
    => CopySettles

\* What stays wrong is told again and again (Evaluator.Due, fire).
OperatorsTold ==
    /\ part = "alerts"
    /\ WF_alertVars(part = "alerts" /\ Round)
    /\ WF_alertVars(part = "alerts" /\ TimePasses)
    => AlertRaised

\* An import that is run again until it succeeds does (importExport, postIfNew).
MoveEnds ==
    /\ part = "store"
    /\ WF_standaloneVars(part = "store" /\ ImportStep)
    /\ WF_standaloneVars(part = "store" /\ ImportRun)
    => ImportEnds

\* A relay serves the tunnel certificate uploaded last (loadCert, Dynamic.Set).
RelayServesLatest ==
    /\ part = "tunnelcert"
    /\ WF_certVars(part = "tunnelcert" /\ StartLoad(LoopLoader))
    /\ \A l \in Loaders : WF_certVars(part = "tunnelcert" /\ LoadStep(l))
    => CertPickedUp

\* The edge stops serving a deleted site (loadCerts, loadCache, Set.Remove).
EdgeForgetsSite ==
    /\ part = "sitecerts"
    /\ \A r \in ReloadIds : /\ WF_edgeCertVars(part = "sitecerts" /\ ReloadSites(r))
                            /\ WF_edgeCertVars(part = "sitecerts" /\ LoadEnds(r))
    /\ \A p \in {"backend", "files"} : WF_edgeCertVars(part = "sitecerts" /\ Answers(p))
    => DeletedNotServed

\* Viewers that don't read don't hold up requests (Recorder.add).
InspectorGoesOn ==
    /\ part = "inspector"
    /\ \A x \in Exchanges : /\ WF_inspectorVars(part = "inspector" /\ Recording(x))
                            /\ WF_inspectorVars(part = "inspector" /\ Served(x))
    => RequestsGoOn
=============================================================================
