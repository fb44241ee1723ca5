----------------------------- MODULE McpServers -----------------------------
(***************************************************************************)
(* One external MCP server under the control plane: its file in            *)
(* mcp-servers.d/, written by src/api/mcp-crud.ts through the registrar,   *)
(* and the tools src/mcp/mcp-client-plugin.ts registers for it.  Connecting*)
(* and listing tools are awaited, so an edit can overtake the connection   *)
(* of an earlier one.  An edit is a number, and stands for the client it   *)
(* connects and the tools that client lists.                               *)
(***************************************************************************)
EXTENDS Naturals, FiniteSets

CONSTANTS MaxEdits, MaxRestarts

VARIABLES
  saved,    \* the edit in the file, 0 without a file
  on,       \* the edits that mcpEnabled lets connect
  edits,    \* edits so far
  at,       \* of each edit: how far its registration is
  client,   \* the client in the plugin's map, 0 without one
  open,     \* the clients that are connected
  tools,    \* the edits whose tools are in the executor registry
  restarts

vars == <<saved, on, edits, at, client, open, tools, restarts>>
Edits == 1 .. MaxEdits

Init ==
  /\ saved = 0 /\ on = {} /\ edits = 0 /\ client = 0 /\ open = {} /\ tools = {} /\ restarts = 0
  /\ at = [n \in Edits |-> "none"]

\* _unregisterServer: the tools of every edit go, the client in the map is closed.
Unregister == tools' = {} /\ client' = 0 /\ open' = open \ {client}

\* POST and PUT: the file is written, then the registration begins afresh.
Upsert ==
  /\ edits < MaxEdits /\ edits' = edits + 1 /\ saved' = edits'
  /\ on' \in {on, on \union {edits'}} /\ Unregister
  /\ at' = [at EXCEPT ![edits'] = "closing"]
  /\ UNCHANGED restarts

\* DELETE answers 404 without a file.
Remove ==
  /\ saved # 0 /\ saved' = 0 /\ Unregister
  /\ UNCHANGED <<on, edits, at, restarts>>

\* The earlier client is closed; a server that is not enabled stays off.
Begin(n) ==
  /\ at[n] = "closing" /\ at' = [at EXCEPT ![n] = IF n \in on THEN "connect" ELSE "off"]
  /\ UNCHANGED <<saved, on, edits, client, open, tools, restarts>>

\* The catch of _connectAndRegister forgets the client in the map, whose ever it is.
FailClears(n) == client' = 0 /\ tools' = {}
Fail(n) == client' = 0 /\ UNCHANGED tools

\* connectMcp, bounded by CONNECT_TIMEOUT_MS.
Connect(n) ==
  /\ at[n] = "connect"
  /\ \/ /\ at' = [at EXCEPT ![n] = "list"] /\ client' = n /\ open' = open \union {n}
        /\ UNCHANGED tools
     \/ at' = [at EXCEPT ![n] = "failed"] /\ Fail(n) /\ UNCHANGED open
  /\ UNCHANGED <<saved, on, edits, restarts>>

\* listTools, refused once the client is closed; the tools are registered
\* without a look at what the file has become.
ListTools(n) ==
  /\ at[n] = "list"
  /\ \/ /\ n \in open /\ at' = [at EXCEPT ![n] = "done"] /\ tools' = tools \union {n}
        /\ UNCHANGED client
     \/ at' = [at EXCEPT ![n] = "failed"] /\ Fail(n)
  /\ UNCHANGED <<saved, on, edits, open, restarts>>

\* install registers what the files hold.
Restart ==
  /\ restarts < MaxRestarts /\ restarts' = restarts + 1
  /\ at' = [n \in Edits |-> IF n = saved THEN "closing" ELSE "none"]
  /\ client' = 0 /\ open' = {} /\ tools' = {} /\ UNCHANGED <<saved, on, edits>>

Register(n) == Begin(n) \/ Connect(n) \/ ListTools(n)
Next == Upsert \/ Remove \/ Restart \/ \E n \in Edits : Register(n)

Spec == Init /\ [][Next]_vars

-----------------------------------------------------------------------------
(* Properties. *)

TypeOK ==
  /\ saved \in 0 .. MaxEdits /\ edits \in 0 .. MaxEdits /\ client \in 0 .. MaxEdits
  /\ on \subseteq Edits /\ open \subseteq Edits /\ tools \subseteq Edits
  /\ at \in [Edits -> {"none", "closing", "off", "connect", "list", "done", "failed"}]
  /\ restarts \in 0 .. MaxRestarts

\* The tools of the saved edit, once listed, stay in the registry, whatever the
\* connections of earlier edits come to in the meantime.
CurrentServed == saved # 0 /\ at[saved] = "done" => saved \in tools

=============================================================================
