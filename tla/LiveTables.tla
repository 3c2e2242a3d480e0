------------------------------ MODULE LiveTables -----------------------------
(***************************************************************************)
(* From the engine to the nodes that route by it: the registry mirrors     *)
(* every change into its live tables and pushes it (go/tun/live/sink.go,   *)
(* views.go), and makes the tables match again every 30 seconds            *)
(* (registry.go, reconcile); edges and relays keep a copy of the tables    *)
(* that they read in the background (go/tun/common/liveview.go).  One      *)
(* tunnel, one such copy.                                                  *)
(***************************************************************************)
EXTENDS Integers

CONSTANTS
    LiveRelays,  \* the relays
    MaxEdits,    \* bound on the engine's changes
    MaxFails,    \* bound on reads that fail and pushes that are lost
    NoRelay      \* no relay: the tunnel isn't active

VARIABLES
    owned,     \* the engine: the relay serving the tunnel
    upness,    \* the engine: its record of each relay, "none", "up" or "down"
    tRow,      \* the row of the tunnel in the live table, as owned
    rRows,     \* the rows of the relays
    recon,     \* a running reconcile: its stage, snapshot and the rows it found
    pushed,    \* a pushed change is on its way to the node
    held,      \* the node's copy
    age,       \* of the copy: "none" (zero time), "old" (beyond ttl), "young", "just"
    tried,     \* a fetch started less than liveRefetchMin ago
    fetching,  \* the running fetch: its stage and what it has read
    edits, losses

tablesVars == <<owned, upness, tRow, rRows, recon, pushed, held, age, tried, fetching, edits, losses>>
engineSide == <<owned, upness, edits>>
tableSide == <<tRow, rRows>>
viewSide == <<held, age, tried, fetching>>

NoRecords == [r \in LiveRelays |-> "none"]
NoCopyYet == [tunnel |-> NoRelay, relays |-> NoRecords]
NoRecon == [stage |-> "idle", tunnel |-> NoRelay, relays |-> NoRecords, found |-> {}]
NoFetch == [stage |-> "idle", tunnel |-> NoRelay, relays |-> NoRecords]

\* The relays are up and the tunnel is down.
TablesInit ==
    /\ owned = NoRelay /\ upness = [r \in LiveRelays |-> "up"]
    /\ tRow = NoRelay /\ rRows = upness
    /\ recon = NoRecon /\ pushed = FALSE
    /\ held = NoCopyYet /\ age = "none" /\ tried = FALSE /\ fetching = NoFetch
    /\ edits = 0 /\ losses = 0

-----------------------------------------------------------------------------
(* The registry.                                                           *)

\* The engine's change and the sink's apply are one step (the engine holds its
\* lock while it reports); the push is sent asynchronously.
TunnelChanged(r) ==
    /\ edits < MaxEdits /\ edits' = edits + 1
    /\ r # owned /\ owned' = r
    /\ tRow' = r
    /\ pushed' = TRUE
    /\ UNCHANGED <<upness, rRows, recon, losses>> /\ UNCHANGED viewSide

\* A relay's record changes: the table follows, nothing is pushed.
RelayChanged(r, s) ==
    /\ edits < MaxEdits /\ edits' = edits + 1
    /\ upness[r] # s /\ upness' = [upness EXCEPT ![r] = s]
    /\ rRows' = [rRows EXCEPT ![r] = s]
    /\ UNCHANGED <<owned, tRow, recon, pushed, losses>> /\ UNCHANGED viewSide

\* reconcile: the engine's snapshot, then per table the rows it finds.
ReconcileStart ==
    /\ recon.stage = "idle"
    /\ recon' = [NoRecon EXCEPT !.stage = "tunnels", !.tunnel = owned, !.relays = upness]
    /\ UNCHANGED <<tableSide, pushed, losses>> /\ UNCHANGED engineSide /\ UNCHANGED viewSide

ReconcileRows ==
    /\ recon.stage \in {"tunnels", "relays"}
    /\ recon' = IF recon.stage = "tunnels"
                THEN [recon EXCEPT !.stage = "put tunnels",
                        !.found = IF tRow = NoRelay THEN {} ELSE {tRow}]
                ELSE [recon EXCEPT !.stage = "put relays",
                        !.found = {r \in LiveRelays : rRows[r] # "none"}]
    /\ UNCHANGED <<tableSide, pushed, losses>> /\ UNCHANGED engineSide /\ UNCHANGED viewSide

\* A faulty variant: rows the engine doesn't have are left.
ReconcileKeeps ==
    /\ recon.stage \in {"put tunnels", "put relays"}
    /\ IF recon.stage = "put tunnels"
       THEN /\ tRow' = IF recon.tunnel # NoRelay THEN recon.tunnel ELSE tRow
            /\ recon' = [recon EXCEPT !.stage = "relays", !.tunnel = NoRelay, !.found = {}]
            /\ UNCHANGED rRows
       ELSE /\ rRows' = [r \in LiveRelays |->
                  IF recon.relays[r] # "none" THEN recon.relays[r] ELSE rRows[r]]
            /\ recon' = NoRecon
            /\ UNCHANGED tRow
    /\ UNCHANGED <<pushed, losses>> /\ UNCHANGED engineSide /\ UNCHANGED viewSide

\* Rows of the snapshot are put (or posted); rows found that it lacks are deleted.
ReconcileApply ==
    /\ recon.stage \in {"put tunnels", "put relays"}
    /\ IF recon.stage = "put tunnels"
       THEN /\ tRow' = IF recon.tunnel # NoRelay THEN recon.tunnel
                       ELSE IF recon.found # {} THEN NoRelay ELSE tRow
            /\ recon' = [recon EXCEPT !.stage = "relays", !.tunnel = NoRelay, !.found = {}]
            /\ UNCHANGED rRows
       ELSE /\ rRows' = [r \in LiveRelays |->
                  IF recon.relays[r] # "none" THEN recon.relays[r]
                  ELSE IF r \in recon.found THEN "none" ELSE rRows[r]]
            /\ recon' = NoRecon
            /\ UNCHANGED tRow
    /\ UNCHANGED <<pushed, losses>> /\ UNCHANGED engineSide /\ UNCHANGED viewSide

-----------------------------------------------------------------------------
(* A node's copy.                                                          *)

\* Invalidate, on a pushed change.
Invalidate ==
    /\ pushed /\ pushed' = FALSE
    /\ age' = "none" /\ tried' = FALSE
    /\ UNCHANGED <<tableSide, recon, held, fetching, losses>> /\ UNCHANGED engineSide

PushIsLost ==
    /\ pushed /\ pushed' = FALSE
    /\ losses < MaxFails /\ losses' = losses + 1
    /\ UNCHANGED <<tableSide, recon>> /\ UNCHANGED engineSide /\ UNCHANGED viewSide

\* owner: the tunnel with its relay, when the relay is up.
OwnerIn(t, relays) == IF t = NoRelay \/ relays[t] # "up" THEN NoRelay ELSE t
Answer == OwnerIn(held.tunnel, held.relays)

\* ensure, from Tunnel, TunnelByPort or Relays: a copy older than the ttl, or for a
\* miss older than liveRefetchMin, is read again, one fetch at a time.
Ensure ==
    /\ fetching.stage = "idle" /\ ~tried
    /\ age \in {"none", "old"} \/ (age = "young" /\ Answer = NoRelay)
    /\ fetching' = [NoFetch EXCEPT !.stage = "tunnels"] /\ tried' = TRUE
    /\ UNCHANGED <<tableSide, recon, pushed, held, age, losses>> /\ UNCHANGED engineSide

\* fetch: reads the tunnels, then the relays, then swaps both in.
FetchStep ==
    /\ fetching.stage # "idle"
    /\ CASE fetching.stage = "tunnels" ->
              /\ fetching' = [fetching EXCEPT !.stage = "relays", !.tunnel = tRow]
              /\ UNCHANGED <<held, age>>
         [] fetching.stage = "relays" ->
              /\ fetching' = [fetching EXCEPT !.stage = "swap", !.relays = rRows]
              /\ UNCHANGED <<held, age>>
         [] fetching.stage = "swap" ->
              /\ held' = [tunnel |-> fetching.tunnel, relays |-> fetching.relays]
              /\ age' = "just"
              /\ fetching' = NoFetch
    /\ UNCHANGED <<tableSide, recon, pushed, tried, losses>> /\ UNCHANGED engineSide

\* A failed read keeps the old copy.
FetchFails ==
    /\ fetching.stage \in {"tunnels", "relays"} /\ fetching' = NoFetch
    /\ losses < MaxFails /\ losses' = losses + 1
    /\ UNCHANGED <<tableSide, recon, pushed, held, age, tried>> /\ UNCHANGED engineSide

\* Time passes: liveRefetchMin since the fetch started, and the copy gets older.
Ages ==
    /\ tried \/ age \in {"just", "young"}
    /\ tried' = FALSE
    /\ age' = CASE age = "just" -> "young" [] age = "young" -> "old" [] OTHER -> age
    /\ UNCHANGED <<tableSide, recon, pushed, held, fetching, losses>> /\ UNCHANGED engineSide

-----------------------------------------------------------------------------
TablesNext ==
    \/ \E r \in LiveRelays \cup {NoRelay} : TunnelChanged(r)
    \/ \E r \in LiveRelays, s \in {"none", "up", "down"} : RelayChanged(r, s)
    \/ ReconcileStart \/ ReconcileRows \/ ReconcileApply
    \/ Invalidate \/ PushIsLost
    \/ Ensure \/ FetchStep \/ FetchFails \/ Ages

\* The registry's loop, and a connection's lookup.
Reconcile == ReconcileStart \/ ReconcileRows \/ ReconcileApply
Lookup == Ensure \/ FetchStep

\* The registry's loop ticks, connections keep asking, and time passes.
TablesFairness ==
    WF_tablesVars(Reconcile) /\ WF_tablesVars(Lookup) /\ WF_tablesVars(Ages)

TablesSpec == TablesInit /\ [][TablesNext]_tablesVars /\ TablesFairness

-----------------------------------------------------------------------------
\* Once the engine rests, the node's lookups answer with the engine's owner of
\* the tunnel and keep doing so: a row that a running reconcile put back from an
\* older snapshot, a push that was lost, or arrived while a fetch ran, and a
\* failed read are all made good (reconcile, LiveView.ensure).
RoutesSettle == <>[](Answer = OwnerIn(owned, upness))
=============================================================================
