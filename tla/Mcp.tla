--------------------------------- MODULE Mcp ---------------------------------
(***************************************************************************)
(* The MCP plugin (plugins/builtin/mcp/plugin.py): the first run of the    *)
(* agent connects to the servers, one after the other, and registers the   *)
(* tools they list; a server that cannot be reached fails the run and the  *)
(* next run begins again.  Nothing keeps a run that starts meanwhile from  *)
(* doing the same, so Overlapping says whether runs do.                    *)
(***************************************************************************)
EXTENDS Integers, SequencesExt

CONSTANTS Servers,       \* the configured servers, a sequence
          ToolsOf,       \* [server -> set of its tools that are allowed]
          McpRuns,
          RunsOverlap,   \* whether a run starts while another one connects
          MaxConnects    \* bound on the connections made

\* With no server configured a run starts at once, and nothing is modelled.
ASSUME McpAssumption ==
    /\ Servers \in Seq(DOMAIN ToolsOf) /\ Servers # <<>>
    /\ MaxConnects \in Nat

VARIABLES mcpReady, mcpTools, connections, openConns, registered, connecting, connects

mcpVars == <<mcpReady, mcpTools, connections, openConns, registered, connecting, connects>>

\* A run at a server of the list, with the connection it has opened, or 0.
At(phase, server, conn) == [phase |-> phase, server |-> server, conn |-> conn]

Connected(server, conn) ==
    [s \in DOMAIN connections \cup {server} |-> IF s = server THEN conn ELSE connections[s]]

McpInit == /\ mcpReady = FALSE /\ mcpTools = {} /\ connections = <<>> /\ openConns = {}
           /\ registered = {} /\ connects = 0
           /\ connecting = [r \in McpRuns |-> At("idle", 1, 0)]

\* The run that finds the servers connected goes on; another one begins with
\* an empty list of tools.
McpRunStarts(r) ==
    /\ connecting[r].phase \in {"idle", "failed"}
    /\ RunsOverlap \/ \A s \in McpRuns : connecting[s].phase # "connecting"
    /\ connecting' = [connecting EXCEPT ![r] = At(IF mcpReady THEN "running" ELSE "connecting", 1, 0)]
    /\ mcpTools' = IF mcpReady THEN mcpTools ELSE {}
    /\ UNCHANGED <<mcpReady, connections, openConns, registered, connects>>

ServerConnects(r) ==
    /\ connecting[r].phase = "connecting" /\ connecting[r].conn = 0
    /\ connects < MaxConnects
    /\ connects' = connects + 1
    /\ openConns' = openConns \cup {connects'}
    /\ connecting' = [connecting EXCEPT ![r].conn = connects']
    /\ UNCHANGED <<mcpReady, mcpTools, connections, registered>>

\* For a mutant: the plugin counts as ready once one server has answered.
ServerListsReady(r) ==
    LET me == connecting[r]
        server == Servers[me.server]
    IN /\ me.phase = "connecting" /\ me.conn # 0
       /\ mcpTools' = mcpTools \cup ToolsOf[server]
       /\ connections' = Connected(server, me.conn)
       /\ mcpReady' = TRUE
       /\ IF me.server = Len(Servers)
          THEN /\ registered' = registered \cup mcpTools'
               /\ connecting' = [connecting EXCEPT ![r].phase = "running"]
          ELSE /\ connecting' = [connecting EXCEPT ![r].server = @ + 1, ![r].conn = 0]
               /\ UNCHANGED registered
       /\ UNCHANGED <<openConns, connects>>

\* The tools of a server join the list together with its connection; after
\* the last server the list is registered, whoever has filled it.
ServerLists(r) ==
    LET me == connecting[r]
        server == Servers[me.server]
        last == me.server = Len(Servers)
    IN /\ me.phase = "connecting" /\ me.conn # 0
       /\ mcpTools' = mcpTools \cup ToolsOf[server]
       /\ connections' = Connected(server, me.conn)
       /\ mcpReady' = (mcpReady \/ last)
       /\ registered' = IF last THEN registered \cup mcpTools' ELSE registered
       /\ connecting' = [connecting EXCEPT ![r] = IF last THEN At("running", me.server, me.conn)
                                                  ELSE At("connecting", me.server + 1, 0)]
       /\ UNCHANGED <<openConns, connects>>

\* A server that does not connect, or lists the same tool twice: its own
\* connection is closed, those of the servers before it stay.
ServerFails(r) ==
    /\ connecting[r].phase = "connecting"
    /\ openConns' = openConns \ {connecting[r].conn}
    /\ connecting' = [connecting EXCEPT ![r].phase = "failed"]
    /\ UNCHANGED <<mcpReady, mcpTools, connections, registered, connects>>

McpCloses ==
    /\ \A r \in McpRuns : connecting[r].phase # "connecting"
    /\ openConns' = openConns \ ToSet([n \in DOMAIN Servers |-> IF Servers[n] \in DOMAIN connections
                                                               THEN connections[Servers[n]] ELSE 0])
    /\ connections' = <<>> /\ mcpReady' = FALSE
    /\ connecting' = [r \in McpRuns |-> At("idle", 1, 0)]
    /\ UNCHANGED <<mcpTools, registered, connects>>

McpNext == \/ \E r \in McpRuns : McpRunStarts(r) \/ ServerConnects(r) \/ ServerLists(r) \/ ServerFails(r)
           \/ McpCloses

McpSpec == McpInit /\ [][McpNext]_mcpVars

AllServers == ToSet(Servers)

\* The types of the variables.
McpTypeOK == /\ mcpReady \in BOOLEAN
             /\ DOMAIN connections \subseteq AllServers
             /\ openConns \subseteq 1..MaxConnects
             /\ mcpTools \subseteq UNION {ToolsOf[s] : s \in AllServers}

\* A run that goes on has every tool of every server registered, each with an
\* open connection, whatever failed in the runs before it.
RunsHaveAllTools ==
    \A r \in McpRuns : connecting[r].phase = "running" =>
        /\ \A s \in AllServers : ToolsOf[s] \subseteq registered
        /\ \A s \in AllServers : s \in DOMAIN connections /\ connections[s] \in openConns

\* Every open connection is one that closing the plugin closes, but for the
\* one a run is about to enter.
ConnectionsAreOwned ==
    openConns \subseteq {connections[s] : s \in DOMAIN connections} \cup {connecting[r].conn : r \in McpRuns}
=============================================================================
