------------------------------ MODULE McpProxy ------------------------------
(***************************************************************************)
(* The MCP proxy (internal/mcp/proxy.go, proxy_route.go and the serving    *)
(* side of peer.go) with the bridges agents reach it through               *)
(* (cmd/vmux-mcp-bridge).  A connection has a reader, and a goroutine for  *)
(* each request: the tool is routed to a native handler or to an upstream, *)
(* the call is logged and announced to the app, a screenshot is stored,    *)
(* and then the answer is written.                                         *)
(*                                                                         *)
(* Upstream.CallTool is taken from McpPeer: it returns an answer of the    *)
(* server, or an error once the peer is closed or the context done; it has *)
(* no deadline, so a mute server holds it.  Whoever serves the socket of   *)
(* the app may be stalled for a while: announcements wait (RpcServer).     *)
(***************************************************************************)
EXTENDS Naturals, Sequences, FiniteSets

CONSTANTS
    Agents,     \* agents, each with its bridge and its connection
    Requests,   \* their requests
    AgentOf,    \* the agent of each
    Asks,       \* the tool it calls, or List for tools/list
    List,
    Native,     \* names of native tools
    Annotate,   \* the one of them that is activity_annotate
    Upstreams,
    Advertised, \* the names each upstream advertises (fixed at its start)
    Nobody,     \* no upstream
    MaxSent     \* requests that are sent (a bound)

ASSUME ProxyAssumption ==
    /\ AgentOf \in [Requests -> Agents]
    /\ Annotate \in Native
    /\ Nobody \notin Upstreams
    /\ List \notin Native \cup UNION {Advertised[u] : u \in Upstreams}
    /\ MaxSent \in Nat

VARIABLES
    bridge,     \* the bridge process of each agent
    conn,       \* the proxy's end: "none", "open", "eof" (reader gone), "closed"
    at,         \* where each request is
    owner,      \* the upstream it was routed to
    result,     \* what the handler returned
    ups,        \* Proxy.upstreams
    closing,    \* CloseUpstreams' copy
    servers,    \* upstream processes: "off", "live", "mute" or "dead"
    logged,     \* events recorded for each request
    stored,     \* screenshots stored for each request
    answered,   \* the answer each agent was sent
    listed,     \* tools an agent was told of (history)
    app,        \* whether clients of the app's socket read
    phase       \* "serving", "stopping", "closing" or "exited"

connVars == <<bridge, conn>>
requestVars == <<at, owner, result, logged, stored, answered>>
upVars == <<ups, closing, servers>>
envVars == <<listed, app, phase>>
proxyVars == <<connVars, requestVars, upVars, envVars>>

ProxyInit ==
    /\ bridge = [a \in Agents |-> "none"]
    /\ conn = [a \in Agents |-> "none"]
    /\ at = [r \in Requests |-> "idle"]
    /\ owner = [r \in Requests |-> Nobody]
    /\ result = [r \in Requests |-> "none"]
    /\ ups = {}
    /\ closing = {}
    /\ servers = [u \in Upstreams |-> "off"]
    /\ logged = [r \in Requests |-> <<>>]
    /\ stored = [r \in Requests |-> "none"]
    /\ answered = [r \in Requests |-> "none"]
    /\ listed = [a \in Agents |-> {}]
    /\ app = "reads"
    /\ phase = "serving"

Goto(r, where) == at' = [at EXCEPT ![r] = where]

-----------------------------------------------------------------------------
(* Agents and their bridges *)

Connect(a) ==
    /\ phase = "serving"
    /\ bridge[a] = "none"
    /\ bridge' = [bridge EXCEPT ![a] = "copying"]
    /\ conn' = [conn EXCEPT ![a] = "open"]
    /\ UNCHANGED <<requestVars, upVars, envVars>>

SendRequest(r) ==
    /\ at[r] = "idle"
    /\ Cardinality({q \in Requests : at[q] # "idle"}) < MaxSent
    /\ bridge[AgentOf[r]] = "copying"
    /\ Goto(r, "sent")
    /\ UNCHANGED <<connVars, owner, result, logged, stored, answered, upVars,
                   envVars>>

(* The agent closes the bridge's input. *)
EndInput(a) ==
    /\ bridge[a] = "copying"
    /\ bridge' = [bridge EXCEPT ![a] = "inputEnded"]
    /\ UNCHANGED <<conn, requestVars, upVars, envVars>>

(* The copying goroutine half-closes the connection. *)
HalfClose(a) ==
    /\ bridge[a] = "inputEnded"
    /\ bridge' = [bridge EXCEPT ![a] = "halfClosed"]
    /\ UNCHANGED <<conn, requestVars, upVars, envVars>>

(* The other one returns when the proxy closes its end. *)
BridgeExits(a) ==
    /\ bridge[a] \in {"copying", "inputEnded", "halfClosed"}
    /\ conn[a] = "closed"
    /\ bridge' = [bridge EXCEPT ![a] = "exited"]
    /\ UNCHANGED <<conn, requestVars, upVars, envVars>>

(* The agent is killed, and its bridge with it. *)
BridgeDies(a) ==
    /\ bridge[a] \in {"copying", "inputEnded", "halfClosed"}
    /\ bridge' = [bridge EXCEPT ![a] = "exited"]
    /\ UNCHANGED <<conn, requestVars, upVars, envVars>>

-----------------------------------------------------------------------------
(* The peer of a connection *)

(* Mutant of Accept: the reader serves a request before it reads the next. *)
AcceptInline(r) ==
    /\ at[r] = "sent"
    /\ conn[AgentOf[r]] = "open"
    /\ \A q \in Requests \ {r} :
           AgentOf[q] = AgentOf[r] => at[q] \in {"idle", "sent", "done"}
    /\ Goto(r, "accepted")
    /\ UNCHANGED <<connVars, owner, result, logged, stored, answered, upVars,
                   envVars>>

Accept(r) ==
    /\ at[r] = "sent"
    /\ conn[AgentOf[r]] = "open"
    /\ Goto(r, "accepted")
    /\ UNCHANGED <<connVars, owner, result, logged, stored, answered, upVars,
                   envVars>>

(* End of input, behind every request: Run returns.  It closes nothing. *)
InputEnds(a) ==
    /\ conn[a] = "open"
    /\ bridge[a] \in {"halfClosed", "exited"}
    /\ \A r \in Requests : AgentOf[r] = a => at[r] # "sent"
    /\ conn' = [conn EXCEPT ![a] = "eof"]
    /\ UNCHANGED <<bridge, requestVars, upVars, envVars>>

(* The goroutine Run started, when the context is done. *)
ClosePeer(a) ==
    /\ phase # "serving"
    /\ conn[a] \in {"open", "eof"}
    /\ conn' = [conn EXCEPT ![a] = "closed"]
    /\ UNCHANGED <<bridge, requestVars, upVars, envVars>>

(* writeMessage: an answer to a connection that is gone is dropped. *)
Reply(r) ==
    /\ at[r] = "reply"
    /\ Goto(r, "done")
    /\ answered' = IF /\ conn[AgentOf[r]] \in {"open", "eof"}
                      /\ bridge[AgentOf[r]] # "exited"
                   THEN [answered EXCEPT ![r] = result[r]] ELSE answered
    /\ UNCHANGED <<connVars, owner, result, logged, stored, upVars, envVars>>

-----------------------------------------------------------------------------
(* Requests *)

AllTools == Native \cup UNION {Advertised[u] : u \in ups}

ListTools(r) ==
    /\ at[r] = "accepted"
    /\ Asks[r] = List
    /\ listed' = [listed EXCEPT ![AgentOf[r]] = @ \cup AllTools]
    /\ result' = [result EXCEPT ![r] = "ok"]
    /\ Goto(r, "reply")
    /\ UNCHANGED <<connVars, owner, logged, stored, answered, upVars, app,
                   phase>>

Owners(tool) == {u \in ups : tool \in Advertised[u]}

(* Native names first, then the first upstream in map order; else an error *)
(* that is answered and not logged.                                        *)
Dispatch(r) ==
    /\ at[r] = "accepted"
    /\ Asks[r] # List
    /\ \/ Asks[r] \in Native /\ Goto(r, "native") /\ UNCHANGED <<owner, result>>
       \/ /\ Asks[r] \notin Native
          /\ \E u \in Owners(Asks[r]) : owner' = [owner EXCEPT ![r] = u]
          /\ Goto(r, "calling")
          /\ UNCHANGED result
       \/ /\ Asks[r] \notin Native /\ Owners(Asks[r]) = {}
          /\ result' = [result EXCEPT ![r] = "unknown"]
          /\ Goto(r, "reply")
          /\ UNCHANGED owner
    /\ UNCHANGED <<connVars, logged, stored, answered, upVars, envVars>>

(* Mutant of Event: calls without a session are left without one. *)
EventBlank(session, r, res) ==
    [session |-> IF session = "default" THEN "" ELSE session,
     upstream |-> owner[r], error |-> res = "error"]

Event(session, r, res) ==
    [session |-> session, upstream |-> owner[r], error |-> res = "error"]

(* A native handler.  activity_annotate records an event of its own, in     *)
(* session "default".  A panic is answered by serveRequest, and not logged. *)
RunNative(r) ==
    /\ at[r] = "native"
    /\ \/ \E res \in {"ok", "error"} :
            /\ result' = [result EXCEPT ![r] = res]
            /\ logged' = IF Asks[r] = Annotate /\ res = "ok"
                         THEN [logged EXCEPT ![r] =
                                   Append(@, Event("default", r, res))]
                         ELSE logged
            /\ Goto(r, IF Asks[r] = Annotate /\ res = "ok" THEN "noting"
                                                         ELSE "finish")
       \/ /\ result' = [result EXCEPT ![r] = "panic"]
          /\ Goto(r, "reply")
          /\ UNCHANGED logged
    /\ UNCHANGED <<connVars, owner, stored, answered, upVars, envVars>>

(* The event of its own is announced. *)
NoteAnnounced(r) ==
    /\ at[r] = "noting"
    /\ app # "stalled"
    /\ Goto(r, "finish")
    /\ UNCHANGED <<connVars, owner, result, logged, stored, answered, upVars,
                   envVars>>

(* The server answers, with a result, an image that can be decoded, or an   *)
(* error; an image that cannot is skipped (proxy_route.go:66), like none.   *)
UpstreamAnswers(r) ==
    /\ at[r] = "calling"
    /\ servers[owner[r]] = "live"
    /\ \E res \in {"ok", "image", "error"} :
           result' = [result EXCEPT ![r] = res]
    /\ Goto(r, "finish")
    /\ UNCHANGED <<connVars, owner, logged, stored, answered, upVars, envVars>>

(* The context is done, the peer was closed or the server is dead. *)
CallFails(r) ==
    /\ at[r] = "calling"
    /\ phase # "serving" \/ servers[owner[r]] = "dead"
    /\ result' = [result EXCEPT ![r] = "error"]
    /\ Goto(r, "finish")
    /\ UNCHANGED <<connVars, owner, logged, stored, answered, upVars, envVars>>

(* Mutant of Record: a failed call is not logged. *)
RecordSuccess(r) ==
    /\ at[r] = "finish"
    /\ logged' = IF result[r] = "error" THEN logged ELSE
                 [logged EXCEPT ![r] = Append(@, Event("agent", r, result[r]))]
    /\ Goto(r, "announce")
    /\ UNCHANGED <<connVars, owner, result, stored, answered, upVars, envVars>>

(* finishLog: the event is in the store, under the agent's session ... *)
Record(r) ==
    /\ at[r] = "finish"
    /\ logged' = [logged EXCEPT ![r] = Append(@, Event("agent", r, result[r]))]
    /\ Goto(r, "announce")
    /\ UNCHANGED <<connVars, owner, result, stored, answered, upVars, envVars>>

HasImage(r) == result[r] = "image"

(* ... and then announced. *)
Announce(r) ==
    /\ at[r] = "announce"
    /\ app # "stalled"
    /\ Goto(r, IF HasImage(r) THEN "capture" ELSE "reply")
    /\ UNCHANGED <<connVars, owner, result, logged, stored, answered, upVars,
                   envVars>>

(* OnScreenshot: the image is stored and announced, and its event recorded, *)
(* under the name of the upstream; or storing it fails.                     *)
Capture(r) ==
    /\ at[r] = "capture"
    /\ \/ app # "stalled" /\ stored' = [stored EXCEPT ![r] = "stored"]
       \/ stored' = [stored EXCEPT ![r] = "failed"]
    /\ Goto(r, "reply")
    /\ UNCHANGED <<connVars, owner, result, logged, answered, upVars, envVars>>

-----------------------------------------------------------------------------
(* Upstreams, the app, shutdown *)

AddUpstream(u) ==
    /\ phase = "serving"
    /\ servers[u] = "off"
    /\ servers' = [servers EXCEPT ![u] = "live"]
    /\ ups' = ups \cup {u}
    /\ UNCHANGED <<connVars, requestVars, closing, envVars>>

(* It stops answering, or dies. *)
ServerFails(u) ==
    /\ servers[u] = "live"
    /\ \E how \in {"mute", "dead"} : servers' = [servers EXCEPT ![u] = how]
    /\ UNCHANGED <<connVars, requestVars, ups, closing, envVars>>

AppStalls ==
    /\ app = "reads"
    /\ app' = "stalled"
    /\ UNCHANGED <<connVars, requestVars, upVars, listed, phase>>

(* It leaves, or reads again; a bound: then it does not stall once more. *)
AppResumes ==
    /\ app = "stalled"
    /\ app' = "resumed"
    /\ UNCHANGED <<connVars, requestVars, upVars, listed, phase>>

(* The context is done. *)
Stop ==
    /\ phase = "serving"
    /\ phase' = "stopping"
    /\ UNCHANGED <<connVars, requestVars, upVars, listed, app>>

(* Mutant of CloseUpstreams: upstreams that are in use are left alone. *)
CloseIdle ==
    /\ phase = "stopping"
    /\ phase' = "closing"
    /\ closing' = ups \ {owner[r] : r \in {q \in Requests : at[q] = "calling"}}
    /\ ups' = {}
    /\ UNCHANGED <<connVars, requestVars, servers, listed, app>>

CloseUpstreams ==
    /\ phase = "stopping"
    /\ phase' = "closing"
    /\ closing' = ups
    /\ ups' = {}
    /\ UNCHANGED <<connVars, requestVars, servers, listed, app>>

CloseUpstream(u) ==
    /\ u \in closing
    /\ closing' = closing \ {u}
    /\ servers' = [servers EXCEPT ![u] = "dead"]
    /\ UNCHANGED <<connVars, requestVars, ups, envVars>>

(* The rest of the shutdown, and the end of the process. *)
Exit ==
    /\ phase = "closing"
    /\ closing = {}
    /\ phase' = "exited"
    /\ conn' = [a \in Agents |-> IF conn[a] = "none" THEN "none" ELSE "closed"]
    /\ at' = [r \in Requests |-> IF at[r] \in {"idle", "done"} THEN at[r]
                                 ELSE "lost"]
    /\ UNCHANGED <<bridge, owner, result, logged, stored, answered, upVars,
                   listed, app>>

-----------------------------------------------------------------------------
RequestStep(r) ==
    \/ Accept(r) \/ ListTools(r) \/ Dispatch(r) \/ RunNative(r) \/ CallFails(r)
    \/ NoteAnnounced(r) \/ Record(r) \/ Announce(r) \/ Capture(r) \/ Reply(r)

ConnStep(a) == HalfClose(a) \/ BridgeExits(a) \/ InputEnds(a) \/ ClosePeer(a)

MainStep == CloseUpstreams \/ (\E u \in Upstreams : CloseUpstream(u)) \/ Exit

ProxyNext ==
    \/ \E a \in Agents : Connect(a) \/ EndInput(a) \/ BridgeDies(a)
                         \/ ConnStep(a)
    \/ \E r \in Requests : SendRequest(r) \/ UpstreamAnswers(r)
                           \/ RequestStep(r)
    \/ \E u \in Upstreams : AddUpstream(u) \/ ServerFails(u)
    \/ AppStalls \/ AppResumes \/ Stop \/ MainStep

ProxySpec == ProxyInit /\ [][ProxyNext]_proxyVars

(* Goroutines and bridges that can run do, and a client that stalls does   *)
(* not for ever.  Agents, servers and the user need do nothing.            *)
ProxyFairSpec ==
    /\ ProxySpec
    /\ \A r \in Requests : WF_proxyVars(RequestStep(r))
    /\ \A a \in Agents : WF_proxyVars(ConnStep(a))
    /\ WF_proxyVars(MainStep)
    /\ WF_proxyVars(AppResumes)

-----------------------------------------------------------------------------
(* Properties *)

ProxyTypeOK ==
    /\ bridge \in [Agents -> {"none", "copying", "inputEnded", "halfClosed",
                              "exited"}]
    /\ conn \in [Agents -> {"none", "open", "eof", "closed"}]
    /\ at \in [Requests -> {"idle", "sent", "accepted", "native", "calling",
                            "noting", "finish", "announce", "capture", "reply",
                            "done", "lost"}]
    /\ owner \in [Requests -> Upstreams \cup {Nobody}]
    /\ result \in [Requests -> {"none", "ok", "image", "error", "unknown",
                                "panic"}]
    /\ ups \subseteq Upstreams
    /\ closing \subseteq Upstreams
    /\ servers \in [Upstreams -> {"off", "live", "mute", "dead"}]
    /\ logged \in [Requests -> Seq([session : {"agent", "default"},
                        upstream : Upstreams \cup {Nobody}, error : BOOLEAN])]
    /\ stored \in [Requests -> {"none", "stored", "failed"}]
    /\ answered \in [Requests -> {"none", "ok", "image", "error", "unknown",
                                  "panic"}]
    /\ listed \in [Agents -> SUBSET (Native \cup UNION {Advertised[u] :
                                                        u \in Upstreams})]
    /\ app \in {"reads", "stalled", "resumed"}
    /\ phase \in {"serving", "stopping", "closing", "exited"}

Routed(r) == answered[r] \in {"ok", "image", "error"} /\ Asks[r] # List

CallsLogged(r) == {i \in DOMAIN logged[r] : logged[r][i].session = "agent"}

(* "Routing tools/call to the right owner and logging each call"            *)
(* (proxy.go:14-16): an agent is never answered for a call that is not in   *)
(* the activity log already: once, with its outcome, under the owner that   *)
(* advertises the tool; and an image it sees, if it can be decoded, was     *)
(* handed to the screenshot store first.                                    *)
AnswerIsRecorded ==
    \A r \in Requests :
        /\ \A i, j \in CallsLogged(r) : i = j
        /\ Routed(r) =>
             /\ \E i \in CallsLogged(r) :
                    logged[r][i] = [session |-> "agent", upstream |-> owner[r],
                                    error |-> answered[r] = "error"]
             /\ IF owner[r] = Nobody THEN Asks[r] \in Native
                ELSE Asks[r] \in Advertised[owner[r]] \ Native
        /\ answered[r] = "image" => stored[r] # "none"

(* A tool an agent was told of (tools/list, proxy.go:129-142) is not        *)
(* unknown when the agent calls it (proxy_route.go:41), unless the          *)
(* upstreams were closed since.                                             *)
ListedIsKnown ==
    \A r \in Requests :
        /\ result[r] # "unknown"
        /\ result'[r] = "unknown"
        => Asks[r] \notin listed[AgentOf[r]] \/ phase # "serving"

(* No request waits for another (the goroutine of route, peer.go:73): while *)
(* an upstream is mute, native calls and tools/list of the same agent are   *)
(* answered, also after the agent ended its input, as long as its bridge    *)
(* lives and the sidecar serves.                                            *)
OthersAnswered ==
    []<>(\A r \in Requests :
             Asks[r] \in Native \cup {List} /\ at[r] # "idle" =>
                 \/ answered[r] # "none"
                 \/ bridge[AgentOf[r]] = "exited"
                 \/ phase # "serving")

(* Calls are routed to their owner and recorded before they are answered,   *)
(* step by step.                                                            *)
CallsAreRouted == [][AnswerIsRecorded' /\ ListedIsKnown]_proxyVars

(* Shutdown is not held up by calls in flight, releases every bridge and    *)
(* leaves no upstream server behind (CloseUpstreams "called on shutdown",   *)
(* proxy.go:63; Service.Shutdown).                                          *)
ShutdownReleases ==
    []<>(phase # "serving" =>
             /\ phase = "exited"
             /\ \A a \in Agents : bridge[a] \in {"none", "exited"}
             /\ \A u \in Upstreams : servers[u] \in {"off", "dead"})

(* The bridge half-closes its connection "so the proxy sees end-of-input"   *)
(* and "returns when the proxy closes the connection"                       *)
(* (vmux-mcp-bridge/main.go:27, :35): an agent that ends its input is rid   *)
(* of its bridge.                                                           *)
BridgeReturns ==
    \A a \in Agents : bridge[a] = "inputEnded" ~> bridge[a] = "exited"
=============================================================================
