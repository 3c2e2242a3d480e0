------------------------------ MODULE Inspector ------------------------------
(***************************************************************************)
(* The agent's request inspector (go/tunnel/inspect): streams of an HTTP   *)
(* tunnel that carry requests to the local service and record them,        *)
(* replays of recorded requests, and viewers that follow new entries       *)
(* through a channel of bounded size.  The recorder's mutex makes add's    *)
(* entry and its list of viewers one step; the viewers are told after it.  *)
(***************************************************************************)
EXTENDS Integers, Sequences, FiniteSets, Functions

CONSTANTS
    Streams,      \* connections through the tunnel
    Replays,      \* replay requests that may run at once
    Viewers,      \* pages that follow the events
    MaxBody,      \* how much of a body is kept
    MaxEntries,   \* how many requests are kept
    ChannelSize,  \* of a viewer's channel
    MaxRequested, \* bound on requests and replays
    MaxViews      \* bound on subscriptions

Exchanges == Streams \cup Replays

VARIABLES
    nextID, entries,  \* Recorder.nextID and entries, oldest first
    channel,          \* per viewer: subscribed or not, and the entries queued for it
    exchange,         \* per stream or replay: its stage, its request, whom it has to tell
    requested, views,
    missed,           \* history: per viewer, the entries dropped at a full channel
    news              \* history: per viewer, the entries added since it subscribed,
                      \* that it hasn't received

recorderVars == <<nextID, entries>>
viewerVars == <<channel, views, missed, news>>
inspectorVars == <<recorderVars, viewerVars, exchange, requested>>

\* body is the size of the request's, until it is sent; size and kept what its entry
\* will say of it.
NoExchange == [at |-> "idle", body |-> 0, size |-> 0, kept |-> 0, upgraded |-> FALSE,
               goOn |-> FALSE, id |-> 0, tell |-> {}, piping |-> {}]
NoChannel == [on |-> FALSE, queue |-> << >>]

InspectorInit ==
    /\ nextID = 0 /\ entries = << >> /\ requested = 0 /\ views = 0
    /\ channel = [v \in Viewers |-> NoChannel]
    /\ exchange = [x \in Exchanges |-> NoExchange]
    /\ missed = [v \in Viewers |-> {}] /\ news = [v \in Viewers |-> {}]

Into(x, r) == exchange' = [exchange EXCEPT ![x] = r]
Requests == requested < MaxRequested /\ requested' = requested + 1
Unrecorded == UNCHANGED <<recorderVars, viewerVars, requested>>

\* capture keeps the first MaxBody bytes and counts all.
Capture(n) == IF n > MaxBody THEN MaxBody ELSE n

-----------------------------------------------------------------------------
(* ServeStream and exchange.                                               *)
\* ServeStream is given a connection of the client.
ServeRecorded(x) ==
    /\ x \in Streams /\ exchange[x].at = "idle"
    /\ Into(x, [NoExchange EXCEPT !.at = "read"]) /\ Unrecorded

ReadRequest(x, n) ==
    /\ exchange[x].at = "read" /\ Requests
    /\ Into(x, [NoExchange EXCEPT !.at = "write", !.body = n])
    /\ UNCHANGED <<recorderVars, viewerVars>>

\* The client closed, or sent something else.
RequestEnds(x) == exchange[x].at = "read" /\ Into(x, NoExchange) /\ Unrecorded

WriteRequest(x) ==
    /\ exchange[x].at = "write"
    /\ Into(x, [exchange[x] EXCEPT !.at = "response", !.body = 0, !.size = exchange[x].body,
                                 !.kept = Capture(exchange[x].body)])
    /\ Unrecorded

\* The service went away: the entry says nothing of the body.
WriteFails(x) == exchange[x].at = "write" /\ Into(x, [NoExchange EXCEPT !.at = "add"]) /\ Unrecorded

\* The final response, passed on (informational ones before it leave no trace): the
\* connection goes on, is closed, or becomes a pipe.
Respond(x, goOn, upgraded) ==
    /\ exchange[x].at = "response" /\ ~(goOn /\ upgraded)
    /\ Into(x, [exchange[x] EXCEPT !.at = "add", !.goOn = goOn, !.upgraded = upgraded])
    /\ Unrecorded

Subscribed == {v \in Viewers : channel[v].on}

\* A faulty variant: the entry is appended after the viewers were listed, and a viewer
\* that comes in between isn't told.
AddListed(x) ==
    /\ exchange[x].at \in {"add", "listed"}
    /\ IF exchange[x].at = "add"
       THEN Into(x, [exchange[x] EXCEPT !.at = "listed", !.tell = Subscribed]) /\ Unrecorded
       ELSE /\ nextID' = nextID + 1
            /\ entries' = Append(entries, [id |-> nextID', size |-> exchange[x].size,
                                           kept |-> exchange[x].kept, upgraded |-> exchange[x].upgraded])
            /\ Into(x, [exchange[x] EXCEPT !.at = "tell", !.id = nextID'])
            /\ news' = [v \in Viewers |-> IF v \in Subscribed THEN news[v] \cup {nextID'} ELSE news[v]]
            /\ UNCHANGED <<channel, views, missed, requested>>

\* Recorder.add, under the mutex.
Add(x) ==
    /\ exchange[x].at = "add"
    /\ nextID' = nextID + 1
    /\ LET e == [id |-> nextID', size |-> exchange[x].size, kept |-> exchange[x].kept,
                 upgraded |-> exchange[x].upgraded]
           all == Append(entries, e)
       IN  entries' = SubSeq(all, 1 + (IF Len(all) > MaxEntries THEN Len(all) - MaxEntries ELSE 0), Len(all))
    /\ Into(x, [exchange[x] EXCEPT !.at = "tell", !.id = nextID', !.tell = Subscribed, !.size = 0, !.kept = 0])
    /\ news' = [v \in Viewers |-> IF v \in Subscribed THEN news[v] \cup {nextID'} ELSE news[v]]
    /\ UNCHANGED <<channel, views, missed, requested>>

\* A faulty variant: a full channel is waited for.
TellWaits(x, v) ==
    /\ exchange[x].at = "tell" /\ v \in exchange[x].tell
    /\ Len(channel[v].queue) < ChannelSize
    /\ Into(x, [exchange[x] EXCEPT !.tell = @ \ {v}])
    /\ channel' = [channel EXCEPT ![v].queue = Append(@, exchange[x].id)]
    /\ UNCHANGED <<recorderVars, views, missed, news, requested>>

\* The rest of add: a send that doesn't wait.  A viewer that left still has its channel.
Tell(x, v) ==
    /\ exchange[x].at = "tell" /\ v \in exchange[x].tell
    /\ Into(x, [exchange[x] EXCEPT !.tell = @ \ {v}])
    /\ IF Len(channel[v].queue) < ChannelSize
       THEN channel' = [channel EXCEPT ![v].queue = Append(@, exchange[x].id)] /\ UNCHANGED missed
       ELSE missed' = [missed EXCEPT ![v] = @ \cup {exchange[x].id}] /\ UNCHANGED channel
    /\ UNCHANGED <<recorderVars, views, news, requested>>

Told(x) ==
    /\ exchange[x].at = "tell" /\ exchange[x].tell = {}
    /\ LET e == exchange[x]
       IN  Into(x, IF x \in Replays \/ ~(e.goOn \/ e.upgraded) THEN NoExchange
                   ELSE IF e.upgraded THEN [NoExchange EXCEPT !.at = "pipe", !.piping = {"client", "service"}]
                   ELSE [NoExchange EXCEPT !.at = "read"])
    /\ Unrecorded

\* rawPipe: one of its two copies ends; the connection is closed after both.
RawPipe(x, side) ==
    /\ exchange[x].at = "pipe" /\ side \in exchange[x].piping
    /\ Into(x, IF exchange[x].piping = {side} THEN NoExchange ELSE [exchange[x] EXCEPT !.piping = @ \ {side}])
    /\ Unrecorded

-----------------------------------------------------------------------------
(* Replays.                                                                *)
Get(id) == {e \in Range(entries) : e.id = id}

Replayable(e) == e.size = e.kept /\ ~e.upgraded

Replay(x, id) ==
    /\ x \in Replays /\ exchange[x].at = "idle" /\ Requests
    /\ \E e \in Get(id) : /\ Replayable(e)
                          /\ Into(x, [NoExchange EXCEPT !.at = "write", !.body = e.kept])
    /\ UNCHANGED <<recorderVars, viewerVars>>

-----------------------------------------------------------------------------
(* The events endpoint.                                                    *)
\* subscribe makes a new channel; what is still to be sent goes to the old one.
Subscribe(v) ==
    /\ ~channel[v].on /\ views < MaxViews /\ views' = views + 1
    /\ channel' = [channel EXCEPT ![v] = [on |-> TRUE, queue |-> << >>]]
    /\ exchange' = [x \in Exchanges |-> [exchange[x] EXCEPT !.tell = @ \ {v}]]
    /\ missed' = [missed EXCEPT ![v] = {}] /\ news' = [news EXCEPT ![v] = {}]
    /\ UNCHANGED <<recorderVars, requested>>

Unsubscribe(v) ==
    /\ channel[v].on /\ channel' = [channel EXCEPT ![v].on = FALSE]
    /\ UNCHANGED <<recorderVars, exchange, requested, views, missed, news>>

Receive(v) ==
    /\ channel[v].on /\ channel[v].queue # << >>
    /\ channel' = [channel EXCEPT ![v].queue = Tail(@)]
    /\ news' = [news EXCEPT ![v] = @ \ {Head(channel[v].queue)}]
    /\ UNCHANGED <<recorderVars, exchange, requested, views, missed>>

-----------------------------------------------------------------------------
\* What an exchange does by itself, once its request was read.
Recording(x) == Add(x) \/ (\E v \in Viewers : Tell(x, v)) \/ Told(x)

Served(x) == WriteRequest(x) \/ WriteFails(x) \/ \E g, u \in BOOLEAN : Respond(x, g, u)

InspectorNext ==
    \/ \E x \in Exchanges :
          \/ ServeRecorded(x) \/ RequestEnds(x) \/ Served(x) \/ Recording(x)
          \/ \E n \in 0..(MaxBody + 1) : ReadRequest(x, n)
          \/ \E id \in 1..nextID : Replay(x, id)
          \/ \E side \in {"client", "service"} : RawPipe(x, side)
    \/ \E v \in Viewers : Subscribe(v) \/ Unsubscribe(v) \/ Receive(v)

\* The recorder's own steps go on, and the service answers or goes away; nothing is
\* assumed of the viewers.
InspectorFairness == \A x \in Exchanges : WF_inspectorVars(Recording(x)) /\ WF_inspectorVars(Served(x))

InspectorSpec == InspectorInit /\ [][InspectorNext]_inspectorVars /\ InspectorFairness

-----------------------------------------------------------------------------
\* A viewer misses no request but at a full channel: what was added since it subscribed
\* is queued for it once, is about to be sent, or was dropped; and nothing else is
\* queued (add, subscribe: "a slow viewer misses live updates, not requests").
ViewersTold ==
    \A v \in Viewers : channel[v].on =>
        LET queue == channel[v].queue
            coming == {exchange[x].id : x \in {y \in Exchanges : exchange[y].at = "tell" /\ v \in exchange[y].tell}}
        IN  /\ IsInjective(queue)
            /\ news[v] = Range(queue) \cup coming \cup missed[v]
            /\ Range(queue) \cap missed[v] = {}

\* A request that was read is answered and recorded and its connection goes on, whether
\* or not the viewers read their events (add).
RequestsGoOn == \A x \in Exchanges : (exchange[x].at = "write") ~> (exchange[x].at \notin {"write", "response", "add", "tell"})
=============================================================================
