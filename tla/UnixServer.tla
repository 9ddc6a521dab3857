----------------------------- MODULE UnixServer ------------------------------
(***************************************************************************)
(* The UNIX socket server of control_main_air.c: local applications        *)
(* (plugins) connect to it, get the telemetry of the flight controller and *)
(* send commands to it.  It runs in the loop that also sends the telemetry *)
(* to the ground (ControlAir, transparent mode).                           *)
(*                                                                         *)
(* A plugin connects once; one that comes back is another plugin.  Its     *)
(* commands are counted.  A write to a plugin that has closed its socket   *)
(* raises SIGPIPE, which control_main_air.c does not catch.  A recv() that *)
(* fails is only logged; the next one returns 0.                           *)
(***************************************************************************)
EXTENDS ControlAir, FiniteSets, Functions

CONSTANTS
    Plugins,      \* bound: the plugins that ever connect
    MaxClients,   \* DB_MAX_UNIX_TCP_CLIENTS
    MaxCommands   \* bound: commands the plugins send

NoPlugin == "none"

ASSUME UnixAssumption ==
    /\ MaxClients \in Nat \ {0} /\ MaxCommands \in Nat
    /\ NoPlugin \notin Plugins

VARIABLES
    unix_server_clients,  \* slot -> plugin or NoPlugin (client_sock = -1)
    backlog,     \* connections not accepted yet
    connected,   \* plugins that called connect()
    left,        \* plugins that closed their socket
    noticed,     \* plugins whose slot was freed
    pending,     \* commands of a plugin not read yet
    running,     \* FALSE: SIGPIPE ended the process
    commands,    \* history: commands written to the flight controller
    got,         \* history: what a plugin was sent, as <<first, last>> byte
    writes,      \* history: calls of write_to_unix
    joined,      \* history: value of writes when a plugin was accepted
    crowded      \* history: more than MaxClients plugins were there at a time

unixVars == <<controlVars, unix_server_clients, backlog, connected, left, noticed,
              pending, running, commands, got, writes, joined, crowded>>
serverVars == <<unix_server_clients, noticed, commands, joined>>
pluginVars == <<backlog, connected, left, pending, crowded>>

ClientSlots == 1 .. MaxClients
Stored == {unix_server_clients[t] : t \in ClientSlots} \ {NoPlugin}

UnixInit ==
    /\ ControlInit
    /\ unix_server_clients = [t \in ClientSlots |-> NoPlugin]
    /\ backlog = <<>>
    /\ connected = {} /\ left = {} /\ noticed = {}
    /\ pending = [p \in Plugins |-> 0]
    /\ running = TRUE
    /\ commands = [p \in Plugins |-> 0]
    /\ got = [p \in Plugins |-> <<>>]
    /\ writes = 0
    /\ joined = [p \in Plugins |-> 0]
    /\ crowded = FALSE

-----------------------------------------------------------------------------
(* The plugins *)

PluginConnects(p) ==
    /\ p \notin connected
    /\ connected' = connected \cup {p}
    /\ backlog' = Append(backlog, p)
    /\ crowded' = (crowded \/ Cardinality(connected' \ noticed) > MaxClients)
    /\ UNCHANGED <<controlVars, serverVars, left, pending, running, got, writes>>

PluginSends(p) ==
    /\ p \in connected \ left
    /\ FoldFunction(+, 0, pending) + FoldFunction(+, 0, commands) < MaxCommands
    /\ pending' = [pending EXCEPT ![p] = @ + 1]
    /\ UNCHANGED <<controlVars, serverVars, backlog, connected, left, crowded, running, got, writes>>

PluginLeaves(p) ==
    /\ p \in connected \ left
    /\ left' = left \cup {p}
    /\ UNCHANGED <<controlVars, serverVars, backlog, connected, pending, crowded, running, got, writes>>

-----------------------------------------------------------------------------
(* The loop of control_main_air.c *)

\* Mutant: the search goes on after the slot is found.
TakenWithoutBreak(p) ==
    [t \in ClientSlots |->
        IF unix_server_clients[t] = NoPlugin \/ t = MaxClients THEN p ELSE unix_server_clients[t]]

\* The first free slot, or the last slot whoever has it: that socket stays open
\* and is never read or written again.
Taken(p) ==
    LET usable == {t \in ClientSlots : unix_server_clients[t] = NoPlugin \/ t = MaxClients}
        slot == CHOOSE t \in usable : \A u \in usable : t <= u
    IN [unix_server_clients EXCEPT ![slot] = p]

AcceptPlugin ==
    /\ running /\ copies_left = 0
    /\ backlog # <<>>
    /\ backlog' = Tail(backlog)
    /\ unix_server_clients' = Taken(Head(backlog))
    /\ joined' = [joined EXCEPT ![Head(backlog)] = writes]
    /\ UNCHANGED <<controlVars, connected, left, noticed, pending, running, commands, got, writes, crowded>>

\* recv() returns n commands, written to the serial port at once.
ServeCommands(t, n) ==
    LET p == unix_server_clients[t] IN
    /\ running /\ copies_left = 0
    /\ p # NoPlugin
    /\ n \in 1 .. pending[p]
    /\ pending' = [pending EXCEPT ![p] = @ - n]
    /\ commands' = [commands EXCEPT ![p] = @ + n]
    /\ UNCHANGED <<controlVars, unix_server_clients, backlog, connected, left, noticed,
                   running, got, writes, joined, crowded>>

\* Mutant: the socket is closed but its slot is not freed.
FreedNever(t) == unix_server_clients

Freed(t) == [unix_server_clients EXCEPT ![t] = NoPlugin]

\* recv() returns 0: the plugin is gone and everything it sent was read.
ServeGone(t) ==
    LET p == unix_server_clients[t] IN
    /\ running /\ copies_left = 0
    /\ p \in left
    /\ pending[p] = 0
    /\ unix_server_clients' = Freed(t)
    /\ noticed' = noticed \cup {p}
    /\ UNCHANGED <<controlVars, backlog, connected, left, pending, running, commands,
                   got, writes, joined, crowded>>

ReadSerialPort(n) ==
    /\ running
    /\ ReadSerial(n)
    /\ UNCHANGED <<serverVars, pluginVars, running, got, writes>>

\* write_to_unix follows the copies of every adapter, not of the last one only.
WritesNow == (copies_left - 1) % Retransmissions = 0

\* The chunk is written slot by slot: SIGPIPE ends the process at the first
\* plugin that has left, and those behind it get nothing.
Reached == {t \in ClientSlots : \A u \in 1 .. t : unix_server_clients[u] \notin left}
Sent(p) ==
    LET times == Cardinality({t \in Reached : unix_server_clients[t] = p})
    IN got[p] \o [i \in 1 .. times |-> <<Chunk[1], Chunk[Len(Chunk)]>>]

SendCopyAndServe ==
    /\ running
    /\ SendCopy
    /\ IF WritesNow
       THEN /\ got' = [p \in Plugins |-> Sent(p)]
            /\ writes' = writes + 1
            /\ running' = (Reached = ClientSlots)
       ELSE UNCHANGED <<got, writes, running>>
    /\ UNCHANGED <<serverVars, pluginVars>>

UnixNext ==
    \/ \E p \in Plugins : PluginConnects(p) \/ PluginSends(p) \/ PluginLeaves(p)
    \/ AcceptPlugin
    \/ \E t \in ClientSlots : ServeGone(t) \/ \E n \in 1 .. MaxCommands : ServeCommands(t, n)
    \/ \E n \in 1 .. ReadBuf : ReadSerialPort(n)
    \/ SendCopyAndServe

UnixSpec == UnixInit /\ [][UnixNext]_unixVars

-----------------------------------------------------------------------------
\* As long as no more than MaxClients plugins are there at a time, a plugin
\* that was accepted keeps its place until it leaves, whoever came and went
\* before: the slot of a plugin that left is given to the next one (the accept
\* and the recv() = 0 branches of control_main_air.c).
PluginKeepsPlace ==
    ~crowded => \A p \in connected \ left :
        p \in Stored \/ \E i \in 1 .. Len(backlog) : backlog[i] = p

\* A plugin that has a slot and has not left gets the bytes of the flight
\* controller from the chunk on that follows its accept(), without a gap, and
\* every chunk exactly once for every adapter (write_to_unix is called in the
\* loop over the adapters), also while other plugins come, leave and are
\* replaced.
PluginGetsStream ==
    running => \A p \in Stored \ left :
        /\ Len(got[p]) = writes - joined[p]
        /\ joined[p] % NumAir = 0
        /\ \A i \in 1 .. Len(got[p]) - 1 :
              IF i % NumAir = 0 THEN got[p][i + 1][1] = got[p][i][2] + 1
                                ELSE got[p][i + 1] = got[p][i]
        /\ got[p] # <<>> => got[p][Len(got[p])][2] = IF writes % NumAir = 0 THEN chunked ELSE serial
=============================================================================
