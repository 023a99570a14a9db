---------------------------- MODULE WorkspaceStartup ----------------------------
(* The attachment of the window to the Workspace Core (workspace-startup.ts).     *)
(*                                                                                *)
(* start() asks the native host for a connection, opens a client on it, performs  *)
(* the handshake and loads the directory and the active Workspace. Each of these  *)
(* awaits, and meanwhile the effect that called start() may be torn down (stop),  *)
(* started again, or the socket may close: an epoch tells a step whether it is    *)
(* still the one that counts. Opens are numbered; the client of an open has its   *)
(* number.                                                                        *)
EXTENDS Naturals

CONSTANT MaxOpens   \* bound on the calls of open()

ASSUME WorkspaceStartupAssumption == MaxOpens \in Nat

VARIABLES
  epoch,      \* this.epoch
  phase,      \* view.phase
  model,      \* view.model: the open that made it, or 0
  client,     \* this.client: the open that made it, or 0
  pending,    \* this.pending: the open it is the promise of, or 0
  opens,      \* each open: the epoch it captured, and the step it is at
  sockets     \* each client's socket; a socket that closes announces it once

startupVars == <<epoch, phase, model, client, pending, opens, sockets>>

Opens == 1..MaxOpens
Steps == {"none", "connecting", "handshake", "loading", "ended"}

StartupTypeOK ==
  /\ epoch \in Nat
  /\ phase \in {"connecting", "handshake", "loading", "ready", "failed", "disconnected"}
  /\ {model, client, pending} \subseteq 0..MaxOpens
  /\ opens \in [Opens -> [epoch : Nat, step : Steps]]
  /\ sockets \in [Opens -> {"none", "open", "closing", "closed"}]

InitStartup ==
  /\ epoch = 0 /\ phase = "connecting"
  /\ model = 0 /\ client = 0 /\ pending = 0
  /\ opens = [i \in Opens |-> [epoch |-> 0, step |-> "none"]]
  /\ sockets = [i \in Opens |-> "none"]

Current(i) == opens[i].epoch = epoch
\* client.close(): the close event follows, and rejects what the client awaits.
Closing(c) == [i \in Opens |-> IF i = c /\ sockets[i] = "open" THEN "closing" ELSE sockets[i]]
At(i, step) == opens' = [opens EXCEPT ![i].step = step]
\* request.finally() of the open that ends here.
Ended(i) == At(i, "ended") /\ pending' = IF pending = i THEN 0 ELSE pending

--------------------------------------------------------------------------------
\* The effect mounts, or the user reconnects; a start that is pending is shared.
Start(i) ==
  /\ pending = 0
  /\ opens[i].step = "none" /\ \A j \in Opens : j < i => opens[j].step # "none"
  /\ epoch' = epoch + 1
  /\ sockets' = Closing(client) /\ client' = 0
  /\ phase' = "connecting" /\ model' = 0
  /\ opens' = [opens EXCEPT ![i] = [epoch |-> epoch + 1, step |-> "connecting"]]
  /\ pending' = i

\* The effect is torn down.
Stop ==
  /\ epoch < 2 * MaxOpens
  /\ epoch' = epoch + 1
  /\ sockets' = Closing(client) /\ client' = 0 /\ pending' = 0
  /\ UNCHANGED <<phase, model, opens>>

\* The host answers with a connection: the client is made, and is the current one.
Connected(i) ==
  /\ opens[i].step = "connecting"
  /\ IF Current(i)
     THEN /\ sockets' = [sockets EXCEPT ![i] = "open"] /\ client' = i
          /\ phase' = "handshake" /\ At(i, "handshake") /\ UNCHANGED pending
     ELSE Ended(i) /\ UNCHANGED <<sockets, client, phase>>
  /\ UNCHANGED <<epoch, model>>

\* initialize() is answered; the model of the Workspace is made and loaded.
Initialized(i) ==
  /\ opens[i].step = "handshake" /\ sockets[i] = "open"
  /\ IF Current(i) THEN phase' = "loading" /\ At(i, "loading") /\ UNCHANGED <<pending, sockets>>
                   ELSE Ended(i) /\ sockets' = Closing(i) /\ UNCHANGED phase
  /\ UNCHANGED <<epoch, model, client>>

\* The directory and the active Workspace are there.
Loaded(i) ==
  /\ opens[i].step = "loading" /\ sockets[i] = "open"
  /\ Ended(i)
  /\ IF Current(i) THEN phase' = "ready" /\ model' = i /\ UNCHANGED sockets
                   ELSE sockets' = Closing(i) /\ UNCHANGED <<phase, model>>
  /\ UNCHANGED <<epoch, client>>

\* A step is refused, times out, or is rejected by the close of the socket.
Failed(i) ==
  /\ opens[i].step \in {"connecting", "handshake", "loading"}
  /\ Ended(i)
  /\ IF Current(i) THEN /\ epoch' = epoch + 1 /\ sockets' = Closing(i)
                        /\ client' = 0 /\ phase' = "failed" /\ model' = 0
                   ELSE UNCHANGED <<epoch, sockets, client, phase, model>>

\* The Core or the transport closes the socket.
SocketCloses(i) ==
  /\ sockets[i] = "open"
  /\ sockets' = [sockets EXCEPT ![i] = "closing"]
  /\ UNCHANGED <<epoch, phase, model, client, pending, opens>>

\* What the callback of open i does, without asking whose socket it is.
AnyDisconnect(i) ==
  IF model # 0 THEN phase' = "disconnected" /\ UNCHANGED <<epoch, client, pending, model>>
               ELSE /\ epoch' = epoch + 1 /\ client' = 0 /\ pending' = 0
                    /\ phase' = "failed" /\ model' = 0
\* The callback, which counts only for the open whose epoch is current.
Disconnect(i) ==
  IF Current(i) THEN AnyDisconnect(i) ELSE UNCHANGED <<epoch, phase, model, client, pending>>

\* The close event of the socket is dispatched.
SocketClosed(i) ==
  /\ sockets[i] = "closing"
  /\ sockets' = [sockets EXCEPT ![i] = "closed"]
  /\ Disconnect(i)
  /\ UNCHANGED opens

NextStartup ==
  \/ Stop
  \/ \E i \in Opens : \/ Start(i) \/ Connected(i) \/ Initialized(i) \/ Loaded(i) \/ Failed(i)
                      \/ SocketCloses(i) \/ SocketClosed(i)

SpecStartup == InitStartup /\ [][NextStartup]_startupVars

--------------------------------------------------------------------------------
\* However starts, stops and closing sockets overlap, at most the current client is
\* connected, so that no client of an abandoned start stays attached to the Core; and a
\* model that is shown as ready reads from that client, or its socket's close is due.
OneConnection ==
  /\ \A i \in Opens : sockets[i] = "open" => client = i
  /\ phase = "ready" /\ client # 0 => model = client /\ sockets[client] \in {"open", "closing"}
================================================================================
