# TLA+ models of vmux

vmux is a macOS terminal application for working with AI coding agents. A
SwiftUI app (`app/`) starts a Go process, the *sidecar* (`sidecar/`), and talks
to it over a Unix socket; the agents talk to the sidecar over a second socket
that speaks MCP; a command line client (`vmux-cli`) shares the first socket.
Almost everything that can go wrong between goroutines, sockets, processes and
timeouts happens in the sidecar and in the code of its clients that reads those
sockets, and that is what the modules in this directory are about.

Paths below are relative to the repository; `internal/` stands for
`sidecar/internal/`.

## 1. Inventory

| component | state | operations | talks to |
|---|---|---|---|
| Approval gate (`internal/approval`, `internal/mcp/native_command.go`, `internal/activity_methods.go`, `app/Vmux/Activity/ActivityModel.swift`) | mode per workspace; queue of pending items, each with a one-place channel | `command_run` → `Gate.Check` → `Queue.Add`; `approval.decide`; `approval.setMode`; timeouts | app, by `approval.changed` notifications through the RPC server |
| MCP peer and upstream (`internal/mcp/peer.go`, `upstream.go`) | table of pending calls, one channel each; two pipes; a child process | `Call`, `Run` (the reader), `deliver`, `failPending`, `Close` | MCP server processes |
| RPC server and clients (`internal/rpc`, `SidecarClient.swift`, `vmux-cli/client.go`) | set of connections, each with a bounded queue, a write loop and a reader | `Serve`, dispatch of requests, `Notify` to everyone | app and CLI |
| PTY sessions (`internal/pty`, `PtySession.swift`, `vmux-cli/attach.go`) | table of sessions; per session a child, a master end, a read pump | spawn, output, exit, kill, shutdown | app and CLI, through the RPC server |
| Diff review (`internal/diffreview`, `DiffReviewView.swift`) | one staged change per path with its decisions | stage, decide, accept or reject all; write the file | `file_write`, app, the file system |
| Native file tools (`internal/mcp/native_file.go`) | none | `file_read`, `file_write` | diff review, gate |
| MCP proxy (`internal/mcp/proxy.go`, `proxy_route.go`) | upstreams by name; a session per agent connection | list and call tools | agents, upstreams, activity store |
| Activity store and replay (`internal/activity`, `internal/replay`) | sequence number, ring, log files, subscribers | append, recent, all, subscribe | proxy, app |
| Workspace registry (`internal/workspace`) | workspaces by id and by path; a file; a watcher each | open, close, shutdown, git change, load | app, file system |
| Browser sessions (`internal/browsersession`) | browser processes; screenshots; ports seen | ensure running, stop; save; scan | proxy, app |
| Sidecar lifecycle (`cmd/vmux-sidecar`, `internal/watchdog`, `internal/socket`, `SidecarController.swift`) | process, sockets, signals | start, watch the parent, terminate | app |
| MCP bridge (`cmd/vmux-mcp-bridge`) | two copies | stdio to socket and back | agents |
| Chrome import, editor integration, MCP registry/installer/autoconfig, peer credentials, identifiers, user interface, build scripts | files of other programs, static tables | one-shot I/O | |

**How they interact.** A tool call of an agent arrives at the proxy as an MCP
request. `command_run` asks the gate, which may put an item in the approval
queue and wait; the queue tells the app by a notification that passes through
`Server.Notify` and the queue of the app's connection; the verdict comes back as
an `approval.decide` request on the same connection. Terminal output and
`pty.exit` take the same road. So the RPC server's bounded queues and
`Notify`'s wait for every client are part of how the gate and the terminals
behave, and the modules of those components keep what matters of them.

**What is hard.** Two goroutines per connection and one per request, two per
session and one per call; deadlines that race decisions; snapshots taken under
a lock and delivered outside it; state read before a lock was released and used
afterwards; clients that learn an identifier after the first messages that
carry it; processes and pipes that outlive the goroutine that watches them.
`PROJECT.json` lists them under `hazards`, each at its line, with the
properties that speak of it.

**What makes each component correct.**

* Gate: a command that runs obeyed the mode each time the mode was read, as far as
  the code tests it; a verdict reaches the call it is for, once;
  a call is answered by a verdict or by the deadline; the app shows the queue.
* Peer: a call returns when answered, cancelled, or cut off; the reader never
  blocks on or panics in a caller's channel; nothing stays in the table.
* RPC server: per-emitter order, no loss while connected, bounded memory, at
  most one reply, no deadlock between a client that writes and a server that
  writes, release of whoever waits for a client that left.
* PTY: a client sees the output, whole and in order, and one `pty.exit` at the
  end; whatever is alive can be found and killed; whatever died is forgotten.
* Diff review: what is written is the staged text cut down to the accepted
  hunks, over the text it was staged against; an app that is connected is shown
  what is staged; decisions are answered.
* Proxy: an agent is answered for calls that are recorded, with the owner that
  ran them; a slow server holds its own call and nothing else; a shutdown leaves
  no server and no bridge behind.
* Activity store: log and ring get an event in the same step, the log only grows
  at its end, across restarts too; a reader is never given events that were not
  written, nor (unless calls overlapped) out of order; an append does not wait
  for a subscriber.
* Registry: what was open reopens under its id; watchers follow the table; the
  git state catches up with the changes a watcher sees. Lifecycle: nothing outlives the app,
  whoever connects reaches the sidecar that serves.
* Browser: images do not pile up on disk; a shot the app is told of can be
  shown; a browser that is closed ends, and none is lost track of.

## 2. Modules

| module | about | lines of code it stands for |
|---|---|---|
| `ApprovalGate`, `MCApprovalGate`, `ApprovalGateProofs` | gate, queue, `command_run`, the app's mirror | `approval/gate.go`, `queue.go`, `modes.go`, `mcp/native_command.go` |
| `McpPeer`, `MCMcpPeer`, `McpProofs` | calls to an MCP server process | `mcp/peer.go`, `upstream.go` |
| `RpcServer`, `MCRpcServer`, `RpcServerProofs` | connections, dispatch, notifications | `rpc/server.go`, `conn.go`, `SidecarClient.swift`, `vmux-cli/client.go` |
| `CallService` | what a call to a server promises; implemented by `McpPeer` | |
| `PtySessions`, `MCPtySessions`, `PtySessionsProofs` | terminal sessions and their views | `pty/manager.go`, `session.go`, `PtySession.swift`, `attach.go` |
| `Hunks` | the diff algorithm, with reference definitions of what it should compute | `diffreview/hunk.go` |
| `DiffReview`, `MCDiffReview`, `DiffReviewProofs` | `file_write`, the store of staged changes, decisions, the file | `diffreview/pending.go`, `mcp/native_file.go`, `DiffReviewView.swift` |
| `McpProxy`, `MCMcpProxy`, `McpProofs` | agents' connections, routing, the record of a call, shutdown, the bridge | `mcp/proxy.go`, `proxy_route.go`, `peer.go` (serving side), `native_tools.go`, `vmux-mcp-bridge/main.go`, `server.go` |
| `ActivityStore`, `MCActivityStore`, `ActivityStoreProofs` | append, ring, files, subscribers, restarts | `activity/store.go` |
| `EventLog` | what the activity store promises its readers; implemented by `ActivityStore` | |
| `Replay` | timeline and snapshots as operators over a log, with reference definitions | `replay/replay.go` |
| `BrowserSessions`, `MCBrowserSessions`, `BrowserSessionsProofs` | screenshot store, browser processes, closing a session | `browsersession/screenshot_store.go`, `manager.go`, `browser_methods.go` |
| `Sidecar`, `MCSidecar`, `SidecarProofs` | processes, socket path, signals, workspace registry and its file, watchers | `cmd/vmux-sidecar/main.go`, `watchdog.go`, `socket.go`, `SidecarController.swift`, `workspace/registry.go`, `watcher.go` |

`ActivityStore` extends `Replay` and instantiates `EventLog`; `McpPeer`
instantiates `CallService`; `DiffReview` uses `Hunks`. `McpProofs` has the
theorems about both ends of an MCP connection and extends `McpPeer` and
`McpProxy`, which is why the proxy's specification is called `ProxySpec`, its type
invariant `ProxyTypeOK`, its program counters `at`: the peer has definitions and
variables of the usual names. The other modules meet at an interface that each states for itself: `McpProxy` takes what `McpPeer` shows
of an upstream call, `ApprovalGate`, `PtySessions` and `McpProxy` take from
`RpcServer` that a notification is in order, complete, and may wait for a
client; `BrowserSessions` adds a shot where `McpProxy` captures one.

Every module has one action per atomic step: a stretch of code under one lock,
one channel operation, one system call. A goroutine's place in its function is
a program counter (`pc`, `dec`, `pump`, `kpc`, ...); the steps of several
goroutines interleave freely. `PROJECT.json` maps each definition to its lines.
Definitions marked as mutants in a comment are not part of a specification:
each is a plausible mistake in the definition that follows it and shows that a
property can tell the difference.

### ApprovalGate

State: `modes` (Gate.modes), the queue's `items` and each item's one-place
channel, the calls of `command_run` and the `approval.decide` requests with
their program counters, snapshots taken and not yet sent, the outbound lines of
the app's connection and what the app shows. A call goes through
`Gate.Evaluate` (first reading of the mode), `Queue.Add`, the notification, the
select on verdict and deadline, `Queue.remove`, and, back in `runCommand`, the
second reading of the mode (`Recheck`), the child process and its pipe. Decide
deletes under the lock, sends, then notifies. `SendSnapshot` blocks while the
connection's queue is full, which is how a client that does not read holds
everybody (`RpcServer` shows that it is so).

### McpPeer

`Call` is `Register`, `Write`, then a select between the response, the closed
channel and the context. The reader routes a frame (`ReadResponse` takes the
entry, `Deliver` sends on its channel), stops at an oversize frame
(`ReadOversize`) and fails everyone at the end of the stream (`ReadEnds`).
`Close` is three steps: flag, pipes, kill and wait. The server process answers
any request it has read, any number of times, at any later time, in any order.

### RpcServer

`out[k]` is the history of the queue of connection `k`, with three cursors:
lines taken by the write loop, written to the socket, read by the client. A
queue holds `out[k]` beyond `taken[k]`. A client in `SerialClients` (the app)
cannot read while one of its writes is blocked, the others read and write at
once. `Notify` takes the set of connections and one goroutine per connection
sends; `Notify` returns when all have.

### PtySessions

`Spawn` starts the child and its pump before it inserts the session; the pump
reads, emits, waits for the child, emits `pty.exit` and removes the session.
`Session.kill` signals the stored pid and then closes the master, once. The
views are the client's states between the spawn reply and the moment it knows
the session's id. The notification path is a queue per session: `RpcServer`'s
`QueueIsFaithful` is what justifies that. What the pump queues goes through
`Server.Notify`, which returns when every client's connection has the line: while
some client stalls (`clients`), `EmitData` and `EmitExit` wait, and the pump with
them. The reply of `pty.spawn` goes to one connection and is not a notification.

### Hunks and DiffReview

`Hunks` is a module of operators: a text is the sequence of its lines, and
`ComputeHunks` and `ApplyHunks` follow the Go functions, with their loops as
recursive functions (`LcsTable`, `Walk`, `Grouped`, `Rebuilt`). `PatchAll` and
`FewestChanges` say what they should compute without the algorithm. `DiffReview` keeps the one file under review, the
pending review with its two maps (as sets of hunk numbers), the store's lock
where it is held across system calls, and a program counter per `file_write`
and per decision. The app connects and leaves once (`link`); what is announced
(`SendChanged`) reaches it only in between, and it never asks for the list, so
`unseen` remembers the review that was staged while it was connected until it is
shown. A decision carries the number of the review the user looked
at (`review`); the code does not, and it is used in properties only, as are the
histories `applied` and `written`. Reviews of different files share nothing but
the lock, so one file is enough. `os.WriteFile` is one step that succeeds, does
nothing, or leaves the file empty; a reader that meets the file while it is
written sees the empty text, which the last outcome also produces.

### McpProxy

A request is read (`Accept`), routed by a goroutine of its own (`Dispatch`), run
by a native handler or an upstream, recorded (`Record`), announced, its image
stored (`Capture`), and answered (`Reply`). A panic of a native handler is
recovered by the goroutine and answered. `NoteAnnounced` (the event that
`activity_annotate` records for itself), `Announce` and `Capture` wait while the
app's socket is stalled. `CloseUpstreams` empties the table under the lock and
closes what it held one by one; a server that was closed fails the calls that
wait on it. The bridge is two copies: the end of the input half-closes the
connection, the end of the connection ends the process.

### ActivityStore, EventLog, Replay

`Store` is the critical section of `Append`: number, ring, file, and the copy of
the subscribers. `Publish` sends outside it, to channels that may be full or
closed by then. A file is its readable lines and whether it ends in a torn one;
a line written behind a torn one is lost with it. `Restart` forgets everything
but the files. `EventLog` has two variables, the log and what is at hand;
`ImplementsEventLog` maps them to the lines of the files and to the ring.
`Moments` and `Snapshot` in `Replay` follow the Go loops, one event at a time
(`Grouped`, `Seen`), as recursive functions over the log; `MomentsAre` and
`SnapshotIs` say which events a result must be made of.

### BrowserSessions

Adding a shot makes the directory, writes two files and then takes the lock to
insert the shot and remove what it evicts. `TakeRing` and `RemoveDir` are the two
halves of `Clear`, `TakeInstance`, `Signal` and `Wait` those of `Stop`. A browser
that died by itself is `dead` until someone waits for it, and counts as running,
as `ProcessState` does in the code.

### Sidecar

`life` is the place of each process in `main`. What outlives a process is the
socket path, `workspaces.json`, and the directories. An operation of the registry
holds the lock from `OpenBegin` or `Close` to the end of its write, which is two
steps (the file is truncated, then written); a crash may come between any two.
At the start, `Load` reads the file and the git status of each directory in it, and
`Reopen` starts their watchers. Of the git state all that counts is whether it was
read after the last change: `current` has the paths whose stored status was, `fresh`
says it of a status that is read and not stored yet. A watcher sees changes in the
directory and in its `.git`; `Edit` may also be a change further below, which raises
no event. A watcher reads the status without the lock (`Loop`), stores it with it
(`StoreStatus`), and is then inside `Notify` (`telling`) until every client has the
line, when it takes the next event. `missed` has the paths whose last change nobody
has read or will read. `opened`, `missed` and `overlapped` are histories that
properties use.

## 3. What the runs check

| run | asks | instance | states |
|---|---|---|---|
| `Gate_safety` | is a verdict ever lost or given twice, does the queue hold anyone who does not wait, does what runs obey both readings of the mode | 2 calls, 2 decide requests, 2 mode changes, 3 commands, queue of 1 | 977k (symmetry) |
| `Gate_live` | is a call answered when its deadline passes, and when it is decided | 2 calls, 1 decide request, 1 mode change; the client reads | 56k |
| `Peer_calls` | are responses routed safely, do calls return when answered, cancelled or cut off, and only then | 2 calls, 4 frames of which 1 oversize, pipes of 1 | 162k |
| `Rpc_safety` | order, loss, duplicates and bounds of the queues; one reply per request | 2 clients, 1 emitter, 3 notifications, 1 request each, buffers of 1 | 1.6M |
| `Rpc_live` | do app and server deadlock; is a blocked emitter released | 1 client, 3 requests, one of them without an id, 3 notifications | 71k |
| `Pty_sessions` | is the stream the output, complete, closed by one exit; is what lives reachable; is every end announced and the session forgotten | 1 session, 2 chunks, 2 kills, background jobs, shutdown, clients that stall | 87k |
| `Diff_review` | is what is written what the decisions made of it, are hunks right and minimal, is every decision answered, and every review shown to an app that is there | 2 writes, 2 decisions, 1 foreign change, 5 texts, an app that comes and goes once | 950k |
| `Activity_log` | do ring and file keep what was appended, through failures and restarts, in an order replay can use; is replay right | 3 calls, 2 sessions, 1 subscriber, ring and channel of 1, 1 failed write, 2 runs, 6 174 logs | 515k |
| `Proxy_calls` | is an answer recorded first, under the right owner; do requests wait for each other; does a shutdown release everybody | 1 agent, 3 requests of which any 2 are sent, 1 upstream that also offers a native name | 198k |
| `Bridge_end` | is an agent that ended its input rid of its bridge: no | 1 agent, 2 requests | violation |
| `Browser_sessions` | do rings and files stay together, is the disk bounded, does every browser that is closed end | 2 shots of one session, 1 reader, 2 closers, 2 browsers, ring of 1, 1 failed write | 1.36M |
| `Sidecar_life` | do workspaces keep their ids through crashes, do watchers follow the table, does the orphan end, is the socket the server's, does the git state catch up | 2 processes, 1 path, 2 ids, any number of changes | 274k |

### The properties

Each run checks the type invariant of its module (the live runs do not, their
instance is inside the one that does) and these:

| property | made of |
|---|---|
| `QueueAgrees` | a waiting call is in the queue or its verdict is on the way; one verdict at most; only waiting calls are queued |
| `ModesObeyed` | a command that runs was not evaluated in sandbox mode; if it was evaluated in gate mode and is dangerous, someone approved it; if the second reading of the mode was watch, it is on the allowlist. Nothing is said of a mode that changes from watch between the readings (section 4) |
| `GateSettles` | a deadline that passed, or a decision that was taken, ends the wait |
| `RoutingIsSafe` | the reader neither blocks nor panics in a caller's channel; a waiting call can be reached; nothing leaks |
| `CallsReturn` | a call that is answered, cancelled or cut off returns |
| `ImplementsCallService` | refinement: a call has one outcome, a response only for a call that was made, a failure only on a lost connection |
| `QueueIsFaithful` | per-emitter order, no loss while open, no duplicate, bounded |
| `OneReply` | a request is answered at most once, after its handler ran |
| `NobodyIsStuck` | `RequestsAnswered` (for clients that read) and `LeavingReleases` (for any) |
| `StreamIsComplete` | the stream is the output in order; without a kill, all of it; `pty.exit` last |
| `LiveIsListed` | a session whose id is known and whose exit was not announced is in the table |
| `EndsAreAnnounced` | what was killed, and what exited and left nobody on its terminal, is announced; a session that was listed while its pump lived is taken off the list |
| `HunksAreRight` | hunks compose to the right text and are minimal |
| `OutcomeIsReviewed` | what is written is the staged text cut down to the hunks that the decisions applied to the review accepted, over the text it was staged against; unless one of them was made looking at another review, every hunk was decided |
| `StagedIsShown`, `DecisionsSettle` | a review staged while the app is connected is shown; a decision is answered, and a bulk one ends the review unless a decision meant for another one was applied to it |
| `LogIsFaithful` | recent events are the newest of this run; the file misses only what failed, and one event per torn line; it is sorted by time where calls did not overlap |
| `ReplayIsRight` | moments partition the events; a snapshot has the newest of what precedes it |
| `AppendReturns` | an append returns whatever subscribers do |
| `ImplementsEventLog` | refinement: log and ring get each event in one step, the log survives |
| `CallsAreRouted` | an answered call is in the log, once, with its outcome and owner; an image that can be decoded was handed to the store; a listed tool is known |
| `OthersAnswered` | native calls and `tools/list` are answered while an upstream is mute |
| `ShutdownReleases` | a shutdown ends, with every bridge gone and every server dead |
| `FilesMatchRings` | files belong to shots in a ring or on the way; shots in a ring have their files; a read fails for a cause |
| `BrowsersAreHeld` | a running browser is in the table or in one closer's hands |
| `CloseReturns` | closing a session, and stopping all, returns |
| `WatchedWhileOpen` | a watcher for each workspace in the table and no other, until shutdown |
| `Reachable` | the socket path leads to the sidecar that serves |
| `IdsAreStable` | the id of an open path does not change; a start finds the ids the last completed write had, except of directories it cannot open |
| `SidecarEnds` | a sidecar without its app ends |
| `StatusCatchesUp` | once changes stop, the stored git state was read after the last one, unless that one was further below, came before the watcher, or could not be read |

**Why the bounds are enough.** The races are between two parties: two verdicts
for one call, a verdict and a deadline, an answer and a cancellation, a kill
and an exit, two lists of a store, a capture and a close, an operation of the
registry and a signal. Two actors of each kind, and buffers of one
place (full after a single message; the code has 256 and the kernel's socket
buffers) reach every order of their steps. `MaxModeChanges = 2` allows a mode to
change and change back between the two readings. Four frames allow an answer, a
duplicate of it, a stray one and one for the other call. Three notifications
fill a queue, a socket and one blocked sender. One session suffices because
sessions share only the table, two kills meet each other. In `Diff_review` the
texts are closed under accepting some hunks, one pair of them has two hunks and
two diffs of different length; a second write and a foreign change give reviews
that replace each other. In `Activity_log` two calls share a session and can
overlap, in one run of the process or around a restart, a ring of one evicts
with the second event, and one torn write meets the write behind it; the logs
`Replay` is tried on have up to three events at three times, of two risks and
three kinds, in any order, which gives moments with several events, events on the
border of a window and at a snapshot's time. `Proxy_calls` has a request of each
kind, any two of which are sent (what requests do to each other, they do in
pairs), the upstream one answers with images, and its upstream offers the name
of the native tool as well. In `Browser_sessions` the second shot evicts the first,
and two closers meet each other on the same session, or one of them stops
everything. Two processes in `Sidecar_life` are a crash and its restart, or an
orphan and its successor; one path suffices because each workspace has an entry, a watcher and a git state
of its own, and those of different paths meet at the lock only; two ids allow a path to be closed and
opened again. The bounds that cut histories (`MaxModeChanges`,
`MaxFrames`, `MaxOversize`, `MaxNotes`, `MaxRequests`, `MaxChunks`, `MaxEdits`,
`MaxFails`, `MaxRuns`, `MaxTime`, `MaxProcs`, `MaxIds`, `MaxSent`)
are constants of the modules and appear in guards; the theorems of section 5
hold for every value of them. `Sidecar` needs no bound on changes, because what it
keeps of them is whether a status is older than the last.

`CHECK_DEADLOCK FALSE` is in every configuration because every system here may
stop: all calls have returned, clients have left, bounds are used up. What must
not stop is stated by the liveness properties. Those about everybody (all closers,
all writers, all requests) have the form `[]<>(\A ...)`: again and again there is
a state in which nobody waits. That is as strong as one leads-to for each of them:
were one to wait for ever, no later state would do. TLC checks it faster, having
one formula to follow instead of one for each. `ReplayIsRight` speaks of logs,
not of states, and is looked at in the initial state only.

### Fairness

Go runs every goroutine that can run, hence weak fairness for each step of a
goroutine: `CallStep`, `DeciderStep`, `ReaderStep`, `WriterStep`,
`DispatchStep`, `NotifyStep`, `SpawnStep`, `PumpStep`, `KillStep`, `CallerStep`,
`RequestStep`, `ConnStep`, `CloseStep`, `MainStep`, `LockedStep`, `LoopStep`. The
pump of a terminal that waits in `Notify` sits in a channel operation of Go, which
serves whoever waits longest: strong fairness, so that clients that stall again and
again do not hold it for ever. A mutex
could starve a goroutine in principle, but each is taken a bounded number of
times, after which it stays free. The select of the gate may take any ready case;
weak fairness on the whole `CallStep` does not choose for it. Nothing is assumed
of people, agents, clocks, MCP servers (beyond `ServerReads`: a live process takes
what is in its pipe, a server that does not is `Peer_calls`' cancelled call), child
processes, background jobs, subscribers of the activity store or apps that should
quit. What is assumed of programs outside the sidecar:

* Clients let `Server.Notify` return. It waits for every connection
  (`rpc/server.go:76`), each of which has a queue of 256 lines and a client that
  may stop reading; `Rpc_live` shows that it returns when such a client leaves
  (`LeavingReleases`, without any assumption). Nothing the sidecar announces is
  sure to happen without this: a client that stalls for ever and stays connected
  holds the pumps of all terminals, the watchers, the answers of decisions and the
  approval gate. So no client stalls for ever, in each of these: `Gate_live` has a
  client that keeps reading; in `RequestsAnswered` of `Rpc_live` it is a hypothesis;
  in `Pty_sessions` it is `ClientResumes`, however often they stall; in
  `Diff_review` each `SendChanged` and in `Sidecar_life` each `NotifyReturns`
  happens at some time (`ClientFairness` in both); in `Proxy_calls` it is
  `AppResumes`: while the app stalls, an answer waits behind its announcement.
* A client that reads is connected when something is announced: this is not
  assumed. `Diff_review` has the app connect at any time or never, and leave.
* In `Browser_sessions` a browser ends when it is told to (`Ends`): `Manager.stop`
  sends SIGTERM and waits without a deadline.

## 4. Where the code departs from what it says

The run marked *violation* checks a promise made by a comment of the code; TLC
shows how it is broken.

* `Bridge_end`: `Run` returns at the end of the input and closes nothing
  (`peer.go:61`); the goroutine it started closes the connection when the context
  of `Serve` is done (`peer.go:44-47`). The bridge half-closes its connection "so
  the proxy sees end-of-input" (`vmux-mcp-bridge/main.go:27`) and then waits until
  "the proxy closes the connection" (`:35`). So the bridge of an agent that closed
  its input stays, with its connection and a goroutine of the sidecar, until the
  agent kills it or the sidecar shuts down.

**Seen in the models, without a run of their own.** The models contain these
behaviours and no property excludes them; each was a counterexample to a
stronger property before that was weakened.

* Gate: `Queue.Add` announces the item before the caller looks at its deadline
  (`queue.go:49`), so with a client that does not read the approval timeout bounds
  nothing. `GateSettles` is about calls that wait, and `Gate_live` has a client
  that reads.
* Gate: the mode is read once by the gate and once by the allowlist fallback
  (`native_command.go:59`), and each place tests it for what matters there. If it
  was watch the first time, the gate allows everything; if it is anything else the
  second time, the allowlist is not looked at. So a change from watch to gate in
  between lets a dangerous command run that nobody approved, and a change from watch
  to sandbox lets any command run in sandbox mode; a change from gate to sandbox
  after an approval (which may take minutes) does the same for what was approved.
  `modes.go:14-15` says that sandbox "blocks all writes/execs regardless of
  rules"; `native_command.go:47-49` says "in gate mode a dangerous
  command blocks for user approval; in sandbox mode commands are denied. In watch
  mode the gate allows and we fall back to the coarse allowlist as a safety net."
  Both hold of a mode that does not change meanwhile. `ModesObeyed`
  says what holds of each reading, and no property excludes these three cases.
* Gate, diff review: snapshots are taken under a lock and sent outside it
  (`queue.go:90`, `pending.go:125`). An older one may arrive last and stay on
  the screen. This is why `StagedIsShown` promises that a review has been
  shown, not that it still is.
* Gate: a client that connects while approvals wait does not ask for them
  (`ActivityModel.swift:23`).
* Gate: the app pushes its modes again after a connect (`ActivityModel.swift:65`)
  while the user may change one; the later of the two wins whichever it is.
* Gate: the run timeout kills the direct child, and `command_run` then waits for
  whatever holds the output pipe (`native_command.go:71`), against "commandRunTimeout
  bounds a single command_run invocation" (`native_command.go:19`).
* Peer: `failPending` empties the table once; a call made after the stream ended
  registers in it and waits for ever (`peer.go:135`).
* Peer: a frame of more than the limit ends the reader without an error for the
  calls in flight (`peer.go:52`, against `:41`). `AnswerArrives` excludes calls
  with an oversize frame ahead of their answer.
* RPC server: one goroutine per line (`server.go:145`), so keystrokes sent in order
  may reach the terminal in another.
* RPC server: `Notify` waits for all connections, so one client that stops
  reading stops the emitter's next notification to the others (`server.go:76`,
  against `:52-53` "a slow client cannot delay delivery to a fast one").
* PTY: a session that ends before `Spawn` inserted it stays in the table
  (`manager.go:41`, against `:85`), which is why `EndsAreAnnounced` promises to
  forget only what was listed while its pump lived; a kill may signal a pid that has been reaped
  and reused (`session.go:111`, against `:104`); the app drops output that
  arrives before it knows the session's id (`PtySession.swift:56`);
  `vmux-cli attach` installs its handler for `pty.exit` after the reply to
  `pty.spawn` (`attach.go:19`), so that a short command's exit arrives before it,
  and attach waits for ever; `KillAll` misses a session that is being spawned, and
  a tab closed before its spawn reply leaves its session behind.
* Diff review: the app is shown what is announced while it is connected, and
  `DiffReviewModel` never calls `diffReview.list` (`DiffReviewView.swift:14-22`): a
  review that was staged before it connected, or while it was away, is not shown
  until the list changes again. An announcement waits for every client
  (`rpc/server.go:76`), so a client that stalls holds the answer to a decision.
* Diff review: a decision made on a replaced review, if its number exists in
  the new one, counts there; `AcceptAll` after a stray decision never resolves
  the review (`pending.go:103`); a change made between the comparison and the
  write is overwritten and a deleted file is created again
  (`pending.go:109-117`). `OutcomeIsReviewed` counts a decision with the review it
  was applied to, whichever it was made looking at; that every hunk was decided, and
  `BulkSettles`, are about reviews that received no decision meant for another one.
* Diff review: decisions are counted. One that was made on a review that has been
  replaced may name a hunk the new one does not have, and completes its count:
  the review ends, the file keeps its text, and the agent's change is gone
  undecided.
* Proxy: screenshots are stored and recorded under the name of the upstream
  (`server.go:91`, `:99-103`), the calls that made them under the session of the
  agent, so the agent's replay has no screenshot; `activity_annotate` records in
  a session of its own, too (`native_tools.go`).
* Proxy: an upstream call has no deadline; one to a mute server returns when the
  sidecar shuts down. `AddUpstream` of a name that is taken drops the old upstream
  unclosed (`AddUpstream` has no production caller).
* Activity store: a line that was written in part costs the next event as well
  (`store.go:149`); an append to a subscriber that left panics
  (`store.go:60`; the request is answered by an error); replay takes events for
  sorted by time (`replay.go:13`), which those of overlapping calls are not;
  what `replay.go:31` calls the "dominant kind in the window" is the last one; file,
  command and console events are read by replay and recorded by nobody.
* Registry: the file is rewritten in place, and `load` rejects a part of one as a
  whole, so that a crash during the write loses every workspace, against
  "reopen across sidecar restarts" (`registry.go:33-34`); a directory that cannot
  be opened at start disappears from the file with the next change. A close that
  arrives after `Shutdown` stops a watcher twice and panics (`:154`).
* Watcher: a change between the first reading of the git status
  (`registry.go:91`) and the start of the watcher (`:101`) is not noticed, nor one
  whose reading fails (`watcher.go:61`). Only the directory and its `.git` are
  watched, as the comment at `watcher.go:13-14` says, and not what is below them
  (`:25-33`; fsnotify is not recursive): the change of a file in a subdirectory is
  noticed with the next change of one of the two. The loop that reads the status
  also announces it (`registry.go:164-166`), so a client that stalls holds the
  watcher. A status that reaches the app before the
  reply that introduces the workspace is dropped (`AppState.swift:81`).
* Lifecycle: of two sidecars at once (the orphan of a crashed app and its
  successor) the older removes the newer's socket path when its listener closes,
  and both write one registry file. The watchdog only cancels the context, so it
  does not end a shutdown that hangs. The app does not start a sidecar again
  that crashed.
* Browser: a shot whose capture overlaps a close stays in the ring without its
  files (`screenshot_store.go:158`); while `Stop` waits, a second browser may run
  on the same profile; a browser that died by itself counts as running
  (`manager.go:90`) and is never started again. Nothing calls `EnsureRunning`,
  `Subscribe` or `Ports.Reset` in production.
* File tools: `file_write` stages in gate mode only, and writes at once in
  sandbox mode (`native_file.go:73`), while `modes.go:14-15` says sandbox
  "blocks all writes/execs regardless of rules".

## 5. What is proved

TLAPS proves, for every value of the constants that satisfies the named
assumption of the module, and for the specification without any fairness:

| theorem | says |
|---|---|
| `GateTypes`, `PeerTypes`, `RpcTypes`, `PtyTypes`, `ReviewTypes`, `StoreTypes`, `ProxyTypes`, `BrowserTypes`, `SidecarTypes` | the type invariants, with the bounds of queues, pipes, channels and counters |
| `GateQueueAgrees` | a call that waits is in the queue, or its verdict is on the way or in its channel; it gets one verdict at most; only waiting calls are queued |
| `GateModesObeyed` | a command that runs was not evaluated in sandbox mode; in gate mode a dangerous one was approved; if the second reading of the mode was watch, it is on the allowlist |
| `PeerRoutingIsSafe` | the reader never blocks on or sends into a channel that is full or closed; a waiting call can be reached; a call that returned left no entry |
| `PeerImplementsCallService` | every behaviour of the peer is one of `CallService` |
| `RpcQueueIsFaithful` | queues within their bounds; an emitter's notifications in order, once, and none lost to an open connection |
| `RpcOneReply` | one reply at most per request, after its handler |
| `PtyStreamIsComplete` | the stream of a terminal is its output, without gap, repetition or anything after `pty.exit`, and all of it if nobody killed the session |
| `PtyLiveIsListed` | a session that is known and was not announced as ended can be found |
| `StoreImplementsEventLog` | every behaviour of the activity store is one of `EventLog`, for any failures and restarts |
| `StoreLogIsFaithful` | what readers are given is the newest of this run; a file misses at most two events for each write that failed, and is in the order of time unless calls overlapped |
| `TimelineOf`, `SnapshotOf`, `ReplayRight` | for any log in order: each event counts in the one moment it falls in, which has the highest risk of its events; the snapshot has the newest screenshot and tool call of what precedes its time, and the commands of the window |
| `ReviewOutcomes` | what a review leaves in the file is the staged text with the hunks that the decisions applied to it accepted, whichever review each was made looking at; when all were made looking at it, every hunk had one |
| `HunksRight` | every choice of hunks gives what patching them in one by one gives, all of them what the agent wrote, none the file as it was; no diff deletes and inserts fewer lines |
| `ProxyCallsAreRouted` | an answered call was recorded before, once, with its outcome and under its owner; its image was handed on; a listed tool is known until the shutdown |
| `BrowserFilesMatchRings` | a shot in a ring has its files unless a close disturbed its capture; a read fails for a cause; stray files are at most as many as failed writes |
| `BrowserAlwaysHeld` | a running browser has exactly one holder: the table, or a closer |
| `SidecarWatchesWhatIsOpen` | watchers follow the table of workspaces, until the shutdown has stopped them |
| `SidecarIsReachable` | the socket path leads to the sidecar that serves, unless two ran at a time |
| `SidecarIdsAreStable` | an open path keeps its id, also across crashes and restarts: a start finds the ids of the last completed write, of two sidecars the one that wrote last counting, except of directories that could not be opened |

**Assumptions.** `GateAssumption`, `RpcAssumption` and `PeerAssumption`: buffers
have room for one message, placeholders are not elements of the sets they stand
beside, rule sets are sets of commands. `PtyAssumption`: the bound on chunks is a
number, nobody is called by the placeholder. `StoreAssumption`: each call has a session, the
ring has room for an event, bounds are numbers, the calls are finitely many (the
sequence number is typed by their number), the logs `ReplayIsRight` looks at are
sequences of events with a time and a risk. `ReviewAssumption`: the texts that
occur are sequences of lines other than the single empty line (no text splits
into that), what a choice of hunks makes of them is one of them (what is written
can be reviewed next), placeholders stand outside the sets they are used beside,
decisions are finitely many (a history is typed by their number).
`ProxyAssumption`: each request has an agent, the annotating tool is a native
one, `tools/list` is not the name of a tool, the bound is a number. `BrowserAssumption`: each shot has a
session, a ring has room for one. `SidecarAssumption`: bounds are numbers, and
one workspace can be numbered. TLC evaluates all of them.

**Argument.** Each proof module defines an inductive invariant, proves that it
holds initially, that each action keeps it (one step per action, under it the
conjuncts the action can disturb), and derives the properties.

* `GateInv` adds to the checked invariants what makes them inductive.
  `VerdictHasDecider`: a verdict in a channel is that of a decide request that
  took the item; without it `Recheck` could not conclude that someone approved.
  `TakenIsGone`: an item that was taken never returns to the queue, because its
  call is past `Add`; without it two requests could take the same item.
  `CheckedBefore` carries what the gate found from the select to the second
  reading of the mode.
* `PeerInv` strengthens `WaiterReachable` to `CallerReachable` (calls between
  registration and select as well), and adds that the reader holds at most the
  one channel it is delivering to, that entries have empty channels
  (`PendingIsFresh`), and that calls not begun are unknown to the table.
  The refinement needs `AnswersAreOwn` besides: whatever is in the pipe, in the
  reader's hands or in a channel for a call, that call has been made and the
  server has read it. Each step of the peer then maps to the step of
  `CallService` that shows it, or to a stutter.
* `RpcInv` adds `NotesAreStarted` (no queue contains a notification that its
  emitter has not begun, and the ones still to be sent are newer than all that
  are queued) and `ConnsAreAccepted`. `QueueAppends` and `QueueSlots` say what
  queueing a line does to the history all properties are about. `ReplyInv`
  carries `OneReply`: a request whose handler has not returned has no reply in any
  queue, and the reply in the hands of a dispatcher is the only one.
* `PtyInv` is `SessionInv` for each session and `KillerInv`. `DataIsRead` and
  `OutputSoFar` tie the stream to what the pump has read, `PumpReadsOn` says why
  the pump cannot leave early (only a kill closes the master, and without one it
  reads until the terminal is empty and nobody can write to it),
  `InsertedIsListed` covers the time between the insertion into the table and the
  reply. `KillerInv` says that whoever is about to close a
  master has recorded the kill: without it `PumpReadsOn` would not survive the
  closing.
* `StoreInv` adds one counting argument to the types, `NumbersAreTaken`: the
  sequence number is at most the number of calls that took one, in this run or an
  earlier one. The refinement follows action by action: `Store` is a `Record` of
  `EventLog` (`StoreRecords`, from `TrimIsNewest` and the three outcomes of a
  write), `Restart` its `Restart`, all else a stutter.
* `LogInv` (beside `StoreInv`, for `LogIsFaithful`) describes ring and file by the
  history of their session. `RingInv`: the events of this run are the end of the
  history, and the ring is the newest of them. `FileInv`: the file is what is left
  of the history when what was lost is taken out, and a file that ends in a torn
  line has room in the count for the line that will be lost behind it. Without
  that room a torn write and the write after it would break the bound of
  two. `OrderInv`: in a session without overlapping calls the one that is open has
  started after everything the file has, so that its event may be put at the end.
* Replay. Its loops are recursive functions too, and its theorems are about any
  log in order, any width and time; `ReplayRight` applies them to the logs of the
  run. `AreMoments`: after so many events the table has a moment for each bucket
  they fall in and no other, each with their number and highest risk. That a bucket
  of the reference is the one the code computes is arithmetic about the quotient
  (`QuotientIs`, `QuotientIsOne`, from `KeyIs`), and needs the log to be in order:
  before the first event the division would truncate the other way. `IsSnapshot`:
  after so many events the snapshot has the last screenshot and tool call of these
  and the commands of the window. `ScannedIs`: in a log in order, those up to the
  first that is too late are all that are not too late.
* `ReviewInv` keeps shapes and views apart. `IsMeant`: what a user sends names hunks
  of the review that is on the screen; `HistoryInv`: a review that ended has a name
  no other gets, so no later decision can change what the history says of it.
  `OutcomeInv` adds `PendingInv`: the two maps of the review in the store are what
  its decisions so far make of it, the last one on each hunk counting, and a
  decision on all hunks holds the lock until the review is gone. The write then
  fixes the outcome. That step needs the text `ApplyHunks` computes to be the one
  `PatchAll` defines, for the texts there can be: `TextInv` says that the file, and
  what writers hold and review, is always one of them.
* The diff algorithm. Its loops are recursive functions; each is unfolded by
  showing that a function with its defining equation exists (`Iteration`, for the
  ones that count up; for the table, the function of the true optima is one).
  Induction over numbers is a lemma (`Induction`, from the least number principle
  of a well-founded order), with a set in place of the library's predicate.
  `ApplyIsPatch`: a text being rebuilt hunk by hunk from the front meets the one
  being patched from the back (`Meets`). `HunksTurn`: in the walk through both
  texts, the hunks grouped so far turn the lines behind in the one into those behind
  in the other, up to the lines being collected (`Holds`). `TableIsBest`: an entry
  of the table is the most lines that can be matched in what lies ahead of its place,
  because the same line at the corner of two ranges can always be matched
  (`MostCorner`), and of two different ones one stays unmatched (`MostEither`).
  `Paid`: what was collected, and twice what can still be matched, account for the
  lines behind, so at the end nothing was deleted or inserted that the best
  matching keeps. The same corners give back the common beginning and end that were
  trimmed (`MoreBefore`, `MoreAfter`).
* `ProxyInv` adds to the types `RequestInv` for each request, by its place: the
  owner is chosen before the call and does not change, the call is in the log once
  from `Record` on and not before, the image is stored after that and the answer
  comes last, with the outcome that was logged. `ListedStays`: while the sidecar
  serves, what an agent was told of is still offered (`AddUpstream` takes nothing
  away, `CloseUpstreams` runs after the phase has changed).
* `BrowserSessionsInv` has two halves that share no variable. `StoreInv` follows a
  shot from the directory to the ring and out of it (`ShotInv`) and counts what is
  left over: `FilesAreFew` with the lemmas about cardinalities says that only a
  failed write makes a stray file. `ManagerInv`: a browser has one holder at most,
  and one while it runs; a closer that has not begun to stop holds nothing, without
  which a second `Stop` could lose what the first has taken.
* `SidecarInv` adds to the two invariants what ties the registry to its file and
  its lock. `FileIsComplete`: as long as anything is owed to the next start, the file is whole
  and has it under the id it is known by; without it a restart could read anything. `LockIsServed`: only a process that
  serves holds the lock, and an open works on a path that is not in the table, so
  that it cannot overwrite an id. `TableIsServed`: a process that has not loaded
  the file yet has an empty table. `OneRuns`: as long as no second process was noticed,
  there is one, which owns the socket.

**Only model-checked.** Liveness, whose proof under fairness and with `ENABLED`
is out of the prover's reach: `GateSettles`, `CallsReturn`, `NobodyIsStuck`, `EndsAreAnnounced`,
`StagedIsShown`, `DecisionsSettle`, `AppendReturns`, `OthersAnswered`,
`ShutdownReleases`, `CloseReturns`, `SidecarEnds`, `StatusCatchesUp`.
Every other property of a passing run, all its safety invariants and action
properties and both refinements, is stated by a theorem of the table.

## 6. What is not modelled

* Approval gate: the regular expressions of `rules.go`; a command is dangerous or
  not. The queries `approval.list` and `approval.getMode`.
* Peer: the handshake (`initialize`, `tools/list` of an upstream).
* RPC server: shutdown through the context of `Serve`, the text of lines (a
  line that does not parse is answered by an error), peer credentials.
* PTY: `pty.write` and `pty.resize`, which touch none of the state the properties
  relate, the tap that feeds the port detector, the environment. The notification
  path is one queue per session, which `QueueIsFaithful` justifies for a client
  that stays.
* Diff review: file permissions, directories, more than one file.
* Native file tools: `file_read` and the resolution of paths.
* Proxy: what `initialize` and `ping` answer; what a native handler computes is in
  the module of the component it calls. An agent that does not read its answers
  (`peer.go:185-187` writes them under a lock), and an upstream whose children keep its
  output open after it was killed, on which `cmd.Wait` may wait (`upstream.go:146`):
  in `McpProxy` an answer is written and a server that is closed is dead.
* Activity store: redaction, which changes the text of an event; `Close`;
  identifiers that differ and are stored under one file name (`safeKey`), which
  those the sidecar makes never are. Replay: the view, and the windows of
  file and console events, which are treated like those of commands.
* Registry: the parsing of git's output, the metadata file, `List` and `Get`, what a
  watcher that was stopped by the shutdown still stores and announces.
* Browser: the port detector, which looks at one chunk at a time (a URL that is
  split between two is not seen or seen in part), profile directories, scaling. Files that are removed are gone: the code ignores the
  errors of `os.Remove` and `RemoveAll` (`screenshot_store.go:85`, `:94-95`,
  `:155-158`). Each session has a directory of its own: two identifiers that
  `safeKey` (`:164-178`) turns into one name would share it, and clearing one would
  remove the files of the other.
* Lifecycle: errors at start, which end the process before it serves, and an error
  of `Serve`; the second socket, which is treated as the first; paths.
* The components marked `not_modelled` in `PROJECT.json`, with the reason there:
  one-shot copies between files of other programs, static tables, launching
  programs, argument handling, views.

## 7. Plan

In this order, most important first.

1. More abstract specifications and refinements: `NoteStream` (per emitter and
   client a FIFO that is lost as a whole when the client leaves), implemented by
   `RpcServer`; `ApprovalDesk` (ask, then approved, denied or expired),
   implemented by `ApprovalGate`.
2. `ModeSync` (the persisted modes pushed again after a reconnect, against the
   user's changes) and the life of `SidecarClient` (connect, pending requests,
   close).
3. The port detector over chunks, and the configuration files: preferences and
   the rewriting of the agents' configuration.
