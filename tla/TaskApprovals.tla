----------------------------- MODULE TaskApprovals -----------------------------
(***************************************************************************)
(* What the renderer shows of the task permissions an Engine has granted   *)
(* (src/task-approval-state.ts and its uses in src/App.tsx).               *)
(*                                                                         *)
(* Serve announces every change of a session's grant as an event, and the  *)
(* answers to session.resume, approval.reply and                           *)
(* session.task-approval.revoke carry the grant as it was when Serve       *)
(* served the call.  An answer may be overtaken by events, so the renderer *)
(* keeps a revision clock: a receipt is projected only if the session's    *)
(* revision is still the one captured when the call was made.  The clock   *)
(* and the projection both forget their oldest sessions at a limit.        *)
(*                                                                         *)
(* A connection is reduced to what matters here: a snapshot, and then, in  *)
(* order, the events after it (module EventStream is about how the client  *)
(* gets there).  setState's updater runs with the call that queues it: an  *)
(* updater that ran later would see a newer revision only together with    *)
(* the later updater that overwrites it.                                   *)
(***************************************************************************)
EXTENDS Integers, Sequences, FiniteSets, SequencesExt

CONSTANTS
  Sessions,      \* session ids
  Grants,        \* the active permission states a session can have
  NoGrant,       \* inactiveTaskApprovalState(), or an answer without the state
  None,          \* no call, no answer yet, no snapshot
  Requests,      \* the calls that can be in flight at once
  StateLimit,    \* TASK_APPROVAL_STATE_LIMIT
  MaxEvents,     \* bound: grant changes Serve makes
  MaxConnects,   \* bound: connections the renderer opens
  MaxSwitches    \* bound: Space and route transitions on an open connection

ASSUME StateLimitAssumption == StateLimit \in Nat \ {0}
ASSUME SessionsAssumption == IsFiniteSet(Sessions)
ASSUME BoundsAssumption == {MaxEvents, MaxConnects, MaxSwitches} \subseteq Nat
ASSUME NoGrantAssumption == NoGrant \notin Grants
ASSUME NoneAssumption ==
  None \notin Grants \cup {NoGrant} /\ None \notin [Sessions -> Grants \cup {NoGrant}]

VARIABLES
  serial,        \* the clock: the newest revision
  order,         \* the clock: the sessions it remembers, oldest first
  revisionOf,    \* the clock: their revisions
  shown,         \* taskApprovalStates, oldest first
  requests,      \* the calls in flight
  granted,       \* Serve: each session's grant
  wire,          \* Serve's events on their way to the renderer
  snapshot,      \* the grants of an events.snapshot answer not yet applied
  phase,         \* the connection: "closed", "connecting" or "ready"
  client,        \* the number of the current client
  emitted,       \* grant changes so far
  switches       \* transitions so far

clock == <<serial, order, revisionOf>>
serve == <<granted, emitted>>
vars == <<clock, shown, requests, serve, wire, snapshot, phase, client, switches>>

States == Grants \cup {NoGrant}
Kinds == {"open", "retry", "approve", "revoke"}

(* overtaken is a history variable: an event for the session, or a reset,   *)
(* came after the call was made.                                            *)
Calls == [session : Sessions, kind : Kinds, client : Nat, revision : Nat,
          answer : States \cup {None}, overtaken : BOOLEAN]
Entries == [session : Sessions, grant : Grants]
Events == [session : Sessions, grant : States]

InFlight == {r \in Requests : requests[r] # None}

-------------------------------------------------------------------------------
(* createTaskApprovalRevisionClock *)

Remembered(s) == \E i \in 1..Len(order) : order[i] = s

(* Mutant: a forgotten session starts over. *)
CurrentOrZero(s) == IF Remembered(s) THEN revisionOf[s] ELSE 0

(* Mutant: one revision for all sessions. *)
CurrentOfAll(s) == serial

Current(s) == IF Remembered(s) THEN revisionOf[s] ELSE serial

Without(q, s) ==
  LET i == CHOOSE j \in 1..Len(q) : q[j] = s
  IN  IF \E j \in 1..Len(q) : q[j] = s THEN RemoveAt(q, i) ELSE q

(* Mutant: nothing is forgotten. *)
NewestAll(q) == q

Newest(q) == IF Len(q) > StateLimit THEN Tail(q) ELSE q

Bound(s, revision) ==
  /\ order' = Newest(Append(Without(order, s), s))
  /\ revisionOf' = [revisionOf EXCEPT ![s] = revision]

Overtake(S) ==
  requests' = [r \in Requests |->
                 IF r \in InFlight /\ requests[r].session \in S
                 THEN [requests[r] EXCEPT !.overtaken = TRUE] ELSE requests[r]]

Advance(s) == serial' = serial + 1 /\ Bound(s, serial + 1) /\ Overtake({s})

(* Mutant: a reset forgets the sessions and keeps the revision. *)
AdvanceAllSameSerial ==
  /\ order' = <<>>
  /\ UNCHANGED <<serial, revisionOf>>
  /\ Overtake(Sessions)

AdvanceAll ==
  /\ serial' = serial + 1
  /\ order' = <<>>
  /\ UNCHANGED revisionOf
  /\ Overtake(Sessions)

-------------------------------------------------------------------------------
(* projectTaskApprovalState and restoreTaskApprovalStates *)

Entry(s, g) == [session |-> s, grant |-> g]

Places(s) == {i \in 1..Len(shown) : shown[i].session = s}
Place(s) == CHOOSE i \in Places(s) : TRUE

Grant(s) == IF Places(s) = {} THEN NoGrant ELSE shown[Place(s)].grant

Project(s, g) ==
  IF Places(s) = {} THEN IF g = NoGrant THEN shown ELSE Newest(Append(shown, Entry(s, g)))
  ELSE IF g = NoGrant THEN RemoveAt(shown, Place(s))
  ELSE [shown EXCEPT ![Place(s)] = Entry(s, g)]

Cap(kept) == IF Cardinality(kept) > StateLimit THEN StateLimit ELSE Cardinality(kept)

(* Mutant: the snapshot's grants are not restored. *)
RestorableNothing(grants) == {<<>>}

(* Serve lists the grants in an order of its own; the last ones are kept.   *)
Restorable(grants) ==
  LET kept == {e \in Entries : grants[e.session] = e.grant}
  IN  {SubSeq(q, 1 + Cardinality(kept) - Cap(kept), Cardinality(kept)) :
         q \in SetToSeqs(kept)}

-------------------------------------------------------------------------------
Init ==
  /\ serial = 0 /\ order = <<>> /\ revisionOf = [s \in Sessions |-> 0]
  /\ shown = <<>> /\ requests = [r \in Requests |-> None]
  /\ granted = [s \in Sessions |-> NoGrant]
  /\ wire = <<>> /\ snapshot = None
  /\ phase = "closed" /\ client = 0 /\ emitted = 0 /\ switches = 0

(* Serve changes the grant of s and says so. *)
Change(s, g) ==
  /\ emitted < MaxEvents /\ emitted' = emitted + 1
  /\ granted' = [granted EXCEPT ![s] = g]
  /\ wire' = IF phase = "closed" THEN wire
             ELSE Append(wire, [session |-> s, grant |-> g])

(* A grant runs out, its task ends (event.task_state, event.turn_end), or   *)
(* another client changes it.                                               *)
GrantChanges(s, g) ==
  /\ g # granted[s]
  /\ Change(s, g)
  /\ UNCHANGED <<clock, shown, requests, snapshot, phase, client, switches>>

(* openSession, retryQueuedInput, the task choice of an approval card, and  *)
(* revokeCurrentTaskApproval: capture the revision and call.                *)
Submit(r, s, kind) ==
  /\ requests[r] = None
  /\ phase # "closed"
  /\ kind = "revoke" => Grant(s) # NoGrant
  /\ requests' = [requests EXCEPT ![r] =
       [session |-> s, kind |-> kind, client |-> client, revision |-> Current(s),
        answer |-> None, overtaken |-> FALSE]]
  /\ Bound(s, Current(s))
  /\ UNCHANGED <<serial, shown, serve, wire, snapshot, phase, client, switches>>

Requested(r) ==
  CASE requests[r].kind = "approve" -> Grants
    [] requests[r].kind = "revoke" -> {NoGrant}
    [] OTHER -> {granted[requests[r].session]}

(* Serve serves the call; its answer comes later. *)
ServeCall(r) ==
  /\ requests[r] # None /\ requests[r].answer = None
  /\ \E g \in Requested(r) :
       /\ requests' = [requests EXCEPT ![r].answer = g]
       /\ IF g = granted[requests[r].session] THEN UNCHANGED <<serve, wire>>
          ELSE Change(requests[r].session, g)
  /\ UNCHANGED <<clock, shown, snapshot, phase, client, switches>>

(* Only openSession projects the receipt of a client that was replaced.  The *)
(* other early returns decide nothing here: where a transition has begun the *)
(* call is overtaken, and an answer of the wrong Space is a CallFails.       *)
ReceiptWanted(call) ==
  \/ call.kind = "open"
  \/ phase # "closed" /\ call.client = client

(* Mutant: the receipt is projected whatever came meanwhile. *)
ReceiptAlways(call) ==
  IF ReceiptWanted(call) THEN Project(call.session, call.answer) ELSE shown

(* projectTaskApprovalReceipt *)
Receipt(call) ==
  IF ReceiptWanted(call) /\ call.revision = Current(call.session)
  THEN Project(call.session, call.answer) ELSE shown

Answered(r) ==
  /\ requests[r] # None /\ requests[r].answer # None
  /\ shown' = Receipt(requests[r])
  /\ requests' = [requests EXCEPT ![r] = None]
  /\ UNCHANGED <<clock, serve, wire, snapshot, phase, client, switches>>

(* The call is rejected, or its answer has no valid state. *)
CallFails(r) ==
  /\ requests[r] # None
  /\ requests' = [requests EXCEPT ![r] = None]
  /\ UNCHANGED <<clock, shown, serve, wire, snapshot, phase, client, switches>>

(* handleEvent: event.task_approval_state, and the ends of a task or turn. *)
EventArrives ==
  /\ phase # "closed" /\ snapshot = None /\ wire # <<>>
  /\ Advance(Head(wire).session)
  /\ shown' = Project(Head(wire).session, Head(wire).grant)
  /\ wire' = Tail(wire)
  /\ UNCHANGED <<serve, snapshot, phase, client, switches>>

ClearSurfaces == AdvanceAll /\ shown' = <<>>

(* connect(): also while an earlier client is still connected.  Calls start a *)
(* little later in the code, when the client has its socket.                  *)
Connect ==
  /\ client < MaxConnects
  /\ client' = client + 1 /\ phase' = "connecting"
  /\ wire' = <<>> /\ snapshot' = None
  /\ ClearSurfaces
  /\ UNCHANGED <<serve, switches>>

(* onClose of the current client. *)
Disconnected ==
  /\ phase # "closed" /\ phase' = "closed"
  /\ wire' = <<>> /\ snapshot' = None
  /\ ClearSurfaces
  /\ UNCHANGED <<serve, client, switches>>

(* Serve takes the events.snapshot; it covers the events so far. *)
SnapshotTaken ==
  /\ phase = "connecting" /\ snapshot = None
  /\ snapshot' = granted /\ wire' = <<>>
  /\ UNCHANGED <<clock, shown, requests, serve, phase, client, switches>>

SnapshotApplied ==
  /\ snapshot # None
  /\ AdvanceAll
  /\ shown' \in Restorable(snapshot)
  /\ snapshot' = None /\ phase' = "ready"
  /\ UNCHANGED <<serve, wire, client, switches>>

(* switchSpace, runEngineRouteMutation: the connection stays open. *)
SwitchSpace ==
  /\ phase = "ready" /\ switches < MaxSwitches
  /\ switches' = switches + 1
  /\ ClearSurfaces
  /\ UNCHANGED <<serve, wire, snapshot, phase, client>>

Next ==
  \/ \E s \in Sessions, g \in States : GrantChanges(s, g)
  \/ \E r \in Requests, s \in Sessions, kind \in Kinds : Submit(r, s, kind)
  \/ \E r \in Requests : ServeCall(r)
  \/ \E r \in Requests : Answered(r)
  \/ \E r \in Requests : CallFails(r)
  \/ EventArrives
  \/ Connect
  \/ Disconnected
  \/ SnapshotTaken
  \/ SnapshotApplied
  \/ SwitchSpace

Spec == Init /\ [][Next]_vars

-------------------------------------------------------------------------------
(* Every variable has its type, and the clock and the projection keep to    *)
(* TASK_APPROVAL_STATE_LIMIT sessions, each once.                           *)
TypeOK ==
  /\ serial \in Nat
  /\ order \in Seq(Sessions) /\ IsInjective(order) /\ Len(order) <= StateLimit
  /\ revisionOf \in [Sessions -> Nat]
  /\ shown \in Seq(Entries) /\ Len(shown) <= StateLimit
  /\ \A i, j \in 1..Len(shown) : shown[i].session = shown[j].session => i = j
  /\ requests \in [Requests -> Calls \cup {None}]
  /\ granted \in [Sessions -> States]
  /\ wire \in Seq(Events)
  /\ snapshot \in [Sessions -> States] \cup {None}
  /\ phase \in {"closed", "connecting", "ready"}
  /\ client \in 0..MaxConnects
  /\ emitted \in 0..MaxEvents
  /\ switches \in 0..MaxSwitches

(* "A delayed RPC response may not overwrite a newer event or terminal-     *)
(* state projection": no receipt an event or a reset overtook is current    *)
(* again, whatever the clock has forgotten since.                           *)
ReceiptsExpire ==
  \A r \in InFlight :
    requests[r].overtaken => requests[r].revision # Current(requests[r].session)

(* Every event of s has arrived. *)
Silent(s) == \A i \in 1..Len(wire) : wire[i].session # s

(* A permission the renderer shows is the one the Engine grants, as soon as *)
(* the events of that session have arrived: calls in flight, evictions and  *)
(* reconnects may hide a grant but never show one that is gone.             *)
ShownIsGranted ==
  phase = "ready" =>
    \A s \in Sessions : Silent(s) => Grant(s) \in {granted[s], NoGrant}

(* Revisions never run backwards on either side of an eviction: once a      *)
(* revision of a session has passed, the clock never names it again.        *)
RevisionsAdvance ==
  [][\A s \in Sessions : Current(s) <= Current(s)']_vars

(* "Per-session event epochs keep unrelated Agent events from discarding a  *)
(* valid server receipt": below the limit a receipt nothing overtook counts. *)
ReceiptsCount ==
  \A r \in InFlight :
    ~requests[r].overtaken => requests[r].revision = Current(requests[r].session)

(* Below the limit, and with no transition that clears the surfaces of an   *)
(* open connection, every live grant is shown (and can be revoked) once the *)
(* session's events have arrived.                                           *)
GrantIsShown ==
  phase = "ready" =>
    \A s \in Sessions : Silent(s) => Grant(s) = granted[s]

(* Both: with room for every session nothing that is valid gets lost.       *)
PermissionsAreTrue == ReceiptsCount /\ GrantIsShown

===============================================================================
