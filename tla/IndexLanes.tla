----------------------------- MODULE IndexLanes -----------------------------
(***************************************************************************)
(* The two lanes to the code index, each with a SocratiCode server of its    *)
(* own behind a pair of pipes: the daemon that keeps the index fresh          *)
(* (scripts/socraticode-local-watch.mjs) and the proxy an agent's host talks  *)
(* through (scripts/socraticode-local-mcp-proxy.mjs).  The server is not in   *)
(* the repository: it starts a file watcher after every update, before the    *)
(* answer, and after a query some time later, and handles calls in order.     *)
(***************************************************************************)
EXTENDS Integers, Sequences, FiniteSets, SequencesExt

CONSTANTS
    Lane,          \* "daemon" or "proxy"
    OwnIds,        \* ids of its own calls: a counter, or strings with one (here used again)
    MaxCalls,      \* bound on the host's calls
    MaxPipe        \* bound on what is in a pipe

VARIABLES
    toServer, toClient,     \* the pipes
    running,       \* the updates the server is at
    late,          \* queries whose watcher is still to start
    watching,
    inFlight,      \* daemon: the id of the update it waits for, 0: none
    noted,         \* proxy, pendingUpdates: the host's updates without an answer
    injected,      \* proxy, injectedIds: the stops it sent itself
    open, heard,   \* the host's calls without an answer, and what it was sent
    life           \* up, stopping, gone

vars == <<toServer, toClient, running, late, watching, inFlight, noted, injected, open, heard, life>>
server == <<running, late, watching>>
lane == <<inFlight, noted, injected, open, heard>>

HostIds == 1..MaxCalls
Fresh == CHOOSE n \in OwnIds :
    /\ n # inFlight /\ n \notin injected \cup running
    /\ \A m \in Range(toServer) \cup Range(toClient) : m.id # n

Init ==
    /\ toServer = <<>> /\ toClient = <<>>
    /\ running = {} /\ late = {} /\ watching = FALSE
    /\ inFlight = 0 /\ noted = {} /\ injected = {}
    /\ open = {} /\ heard = <<>> /\ life = "up"

Call(id, what) == [id |-> id, call |-> what]

-----------------------------------------------------------------------------
(* The server (external) *)

Says(id) == toClient' = Append(toClient, Call(id, "answer"))

Handles ==
    /\ toServer # <<>> /\ life # "gone" /\ Len(toClient) < MaxPipe
    /\ toServer' = Tail(toServer)
    /\ LET m == Head(toServer)
       IN  \/ /\ m.call = "update"
              /\ running' = running \cup {m.id}
              /\ UNCHANGED <<toClient, late, watching>>
           \/ /\ m.call = "query"
              /\ Says(m.id) /\ late' = late \cup {m.id}
              /\ UNCHANGED <<running, watching>>
           \/ /\ m.call = "stop"
              /\ Says(m.id) /\ watching' = FALSE
              /\ UNCHANGED <<running, late>>
    /\ UNCHANGED <<lane, life>>

\* An update that fails does not start the watcher.
Updates(id, ok) ==
    /\ id \in running /\ life # "gone" /\ Len(toClient) < MaxPipe
    /\ running' = running \ {id}
    /\ watching' = (watching \/ ok)
    /\ Says(id)
    /\ UNCHANGED <<toServer, late, lane, life>>

WatcherStarts(id) ==
    /\ id \in late /\ life # "gone"
    /\ late' = late \ {id} /\ watching' = TRUE
    /\ UNCHANGED <<toServer, toClient, running, lane, life>>

-----------------------------------------------------------------------------
(* The daemon *)

Free == Len(toServer) < MaxPipe /\ life = "up"

\* Slip: a tick does not look whether an update is on its way.
AnyTick == Lane = "daemon" /\ Free

MayTick == Lane = "daemon" /\ Free /\ inFlight = 0

\* tick
Tick ==
    /\ MayTick
    /\ inFlight' = Fresh
    /\ toServer' = Append(toServer, Call(Fresh, "update"))
    /\ UNCHANGED <<toClient, server, noted, injected, open, heard, life>>

\* The answer it waits for frees the mutex and stops the watcher; any other is ignored.
DaemonReads ==
    /\ Lane = "daemon" /\ toClient # <<>> /\ life # "gone"
    /\ LET m == Head(toClient)
       IN  IF inFlight # 0 /\ m.id = inFlight
           THEN /\ inFlight' = 0
                /\ toServer' = Append(toServer, Call(Fresh, "stop"))
           ELSE UNCHANGED <<inFlight, toServer>>
    /\ toClient' = Tail(toClient)
    /\ UNCHANGED <<server, noted, injected, open, heard, life>>

-----------------------------------------------------------------------------
(* The proxy *)

\* One stop on its way at most (a bound of the model).
Sweeps == Lane = "proxy" /\ Free /\ injected = {}

\* The sweep of the proxy, and the daemon's watcherKiller.
Sweep ==
    /\ \/ Sweeps
       \/ Lane = "daemon" /\ Free /\ \A m \in Range(toServer) : m.call # "stop"
    /\ injected' = IF Lane = "proxy" THEN injected \cup {Fresh} ELSE injected
    /\ toServer' = Append(toServer, Call(Fresh, "stop"))
    /\ UNCHANGED <<toClient, server, inFlight, noted, open, heard, life>>

\* A call of the host, rewritten and noted on its way (forwardToChild).
HostCalls(id, what) ==
    /\ Lane = "proxy" /\ Free
    /\ id \notin open /\ id \notin Range(heard) /\ \A n \in 1..(id - 1) : n \in open \cup Range(heard)
    /\ open' = open \cup {id}
    /\ noted' = IF what = "update" THEN noted \cup {id} ELSE noted
    /\ toServer' = Append(toServer, Call(id, what))
    /\ UNCHANGED <<toClient, server, inFlight, injected, heard, life>>

Swallowed(m) == m.id \in injected

\* forwardToParent, stopWatcherAfterUpdate
ProxyReads ==
    /\ Lane = "proxy" /\ toClient # <<>> /\ life # "gone"
    /\ LET m == Head(toClient)
           stops == m.id \in noted /\ life = "up" /\ ~Swallowed(m)
       IN  /\ toClient' = Tail(toClient)
           /\ heard' = IF Swallowed(m) THEN heard ELSE Append(heard, m.id)
           /\ open' = open \ {m.id}
           /\ noted' = IF Swallowed(m) THEN noted ELSE noted \ {m.id}
           /\ injected' = (injected \ {m.id}) \cup (IF stops THEN {Fresh} ELSE {})
           /\ toServer' = IF stops THEN Append(toServer, Call(Fresh, "stop")) ELSE toServer
    /\ UNCHANGED <<server, inFlight, life>>

-----------------------------------------------------------------------------

\* stop: the server's input ends, and it is killed when it does not exit.
Stop ==
    /\ life = "up" /\ life' = "stopping"
    /\ UNCHANGED <<toServer, toClient, server, lane>>

\* The server exits, or is killed, and the lane with it.
Exits ==
    /\ life # "gone" /\ life' = "gone"
    /\ toServer' = <<>> /\ toClient' = <<>> /\ running' = {} /\ late' = {} /\ watching' = FALSE
    /\ UNCHANGED lane

Next ==
    \/ Handles \/ Tick \/ DaemonReads \/ Sweep \/ ProxyReads \/ Stop \/ Exits
    \/ \E id \in running, ok \in BOOLEAN : Updates(id, ok)
    \/ \E id \in late : WatcherStarts(id)
    \/ \E id \in HostIds, what \in {"update", "query"} : HostCalls(id, what)

Spec == Init /\ [][Next]_vars

\* The intervals of both lanes and their kill timers, the pipes, and that a late watcher starts.
FairSpec ==
    /\ Spec
    /\ WF_vars(Handles) /\ WF_vars(Sweep) /\ WF_vars(DaemonReads \/ ProxyReads)
    /\ WF_vars(\E id \in late : WatcherStarts(id)) /\ WF_vars(life = "stopping" /\ Exits)

-----------------------------------------------------------------------------

\* socraticode-local-watch.mjs 16-29: the daemon never has two updates embedding at once, nor
\* an update while the watcher an earlier one left is still on.
OneEmbeddingRun ==
    Lane = "daemon" =>
        /\ Cardinality(running) <= 1
        /\ running # {} => ~watching

\* socraticode-local-mcp-proxy.mjs 58-60: the host gets the answer to each of its calls once,
\* and nothing it did not ask for.
HostHearsItsOwn == IsInjective(heard) /\ Range(heard) \subseteq HostIds

\* Whatever starts the watcher, it is stopped again.
WatcherIsStopped == []<>~watching
=============================================================================
