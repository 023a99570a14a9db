----------------------------- MODULE RemoteCommands -----------------------------
(* Commands to external sessions, and the ids under which Desktop repeats them.  *)
(*                                                                               *)
(* remote-command-retry.ts keeps, for every command whose outcome is not known,  *)
(* the id it was sent with, in memory and in localStorage. A repetition of the   *)
(* same method, session and payload (an intent) finds that id again, so that     *)
(* Serve, which remembers ids, does not run the command twice. App.tsx begins an *)
(* id before each submit, steer and interrupt, and settles it when the outcome   *)
(* is known: by an answer, by an error that says so, or by a command event.      *)
(*                                                                               *)
(* An attempt is one call of submitSelectedExternalSession, steer or interrupt;  *)
(* attempts are numbered, and an id is the number of the attempt that made it.   *)
EXTENDS Naturals, FiniteSets

CONSTANTS
  Intents,        \* method, session and payload of a command
  MaxAttempts,    \* bound on the attempts of the user
  MaxPending,     \* MAX_PENDING_COMMANDS
  MaxAge,         \* MAX_PENDING_AGE_MS
  MaxClock,       \* bound on the wall clock, which may be set back
  MaxLosses       \* bound on the losses of the connection or of the renderer

ASSUME CommandsAssumption ==
  MaxPending \in Nat \ {0} /\ {MaxAttempts, MaxAge, MaxClock, MaxLosses} \subseteq Nat

VARIABLES
  clock,      \* Date.now()
  commands,   \* RemoteCommandRetryTracker.commands
  stored,     \* what localStorage holds of them
  tries,      \* the attempts made so far
  online,     \* the client is connected
  inbox,      \* attempts whose frame Serve has not read
  receipts,   \* what Serve remembers of an id
  answers,    \* attempts whose answer the renderer has not read
  notices,    \* ids with a command_committed or command_failed event under way
  known,      \* history: ids whose outcome the renderer has learned
  meant,      \* history: the attempt that first meant what this one means
  pruned,     \* history: ids that prune() has dropped, and that are not found again
  revived,    \* history: ids that a reload has found again after their outcome was known
  left        \* losses left

commandVars == <<clock, commands, stored, tries, online, inbox, receipts, answers,
                 notices, known, meant, pruned, revived, left>>

Attempts == 1..MaxAttempts
\* An uncertain attempt, whose command stays in the tracker, and one that has
\* reached its end.
Phases == {"idle", "hashing", "sent", "unknown", "done"}
\* What Serve has answered an id: with an outcome (a result, or a refusal), or with an
\* error that says that the outcome is not known.
Receipts == {"none", "settled", "unsure"}
Command == [intent: Intents, id: Attempts, at: 0..MaxClock]

CommandsTypeOK ==
  /\ clock \in 0..MaxClock
  /\ commands \subseteq Command /\ stored \subseteq Command
  /\ tries \in [Attempts -> [intent: Intents \union {"none"}, phase: Phases, id: 0..MaxAttempts]]
  /\ online \in BOOLEAN
  /\ inbox \subseteq Attempts /\ answers \subseteq Attempts /\ notices \subseteq Attempts
  /\ receipts \in [Attempts -> Receipts]
  /\ meant \in [Attempts -> 0..MaxAttempts]
  /\ known \subseteq Attempts /\ pruned \subseteq Attempts /\ revived \subseteq known
  /\ left \in 0..MaxLosses

--------------------------------------------------------------------------------
(* The tracker. *)

\* The order of prune(): by time, and by insertion at equal times.
Newer(c, d) == c.at > d.at \/ (c.at = d.at /\ c.id > d.id)
\* prune(): not older than a day, and the newest of those.
Prune(cs, now) ==
  LET young == {c \in cs : c.at + MaxAge >= now}
  IN  {c \in young : Cardinality({d \in young : Newer(d, c)}) < MaxPending}
Matching(cs, intent) == {c \in cs : c.intent = intent}
Ids(cs) == {c.id : c \in cs}
\* settle(id): nothing is written when the id is not there.
Settled(cs, id) == {c \in cs : c.id # id}
Settle(id) ==
  /\ commands' = Settled(commands, id)
  /\ stored' = IF id \in Ids(commands) THEN Settled(commands, id) ELSE stored
  /\ known' = known \union {id}

InitCommands ==
  /\ clock = 0
  /\ commands = {} /\ stored = {}
  /\ tries = [a \in Attempts |-> [intent |-> "none", phase |-> "idle", id |-> 0]]
  /\ online = TRUE
  /\ inbox = {} /\ answers = {} /\ notices = {}
  /\ receipts = [a \in Attempts |-> "none"]
  /\ meant = [a \in Attempts |-> 0]
  /\ known = {} /\ pruned = {} /\ revived = {}
  /\ left = MaxLosses

--------------------------------------------------------------------------------
(* App *)

\* The user submits, steers or interrupts: beginExternalCommand awaits the fingerprint.
Begin(a, intent) ==
  /\ tries[a].phase = "idle"
  /\ \A b \in Attempts : b < a => tries[b].phase # "idle"
  /\ online
  /\ tries' = [tries EXCEPT ![a] = [@ EXCEPT !.intent = intent, !.phase = "hashing"]]
  /\ UNCHANGED <<clock, commands, stored, online, inbox, receipts, answers, notices, known, meant,
                 pruned, revived, left>>

\* The attempts of the same intent whose outcome is not known when this one gets its
\* id, and whose command is not forgotten: too old, or one of too many.
Uncertain(a, forgotten) == {b \in Attempts : /\ b # a /\ tries[b].intent = tries[a].intent
                                  /\ tries[b].phase \in {"sent", "unknown"}
                                  /\ tries[b].id \notin known \union forgotten}
Same(a, forgotten) ==
  LET before == Uncertain(a, forgotten) IN IF before = {} THEN a ELSE meant[CHOOSE b \in before : TRUE]

\* A begin() that leaves the writing to settle().
TrackedUnsaved(a) ==
  LET kept == Prune(commands, clock)
      new  == Prune(kept \union {[intent |-> tries[a].intent, id |-> a, at |-> clock]}, clock)
      prior == Matching(kept, tries[a].intent)
  IN  IF prior # {} THEN [id |-> (CHOOSE c \in prior : TRUE).id, commands |-> kept, stored |-> stored]
      ELSE [id |-> a, commands |-> new, stored |-> stored]

\* What begin() does with the fingerprint, found in the commands as they are by then.
Tracked(a) ==
  LET kept == Prune(commands, clock)
      new  == Prune(kept \union {[intent |-> tries[a].intent, id |-> a, at |-> clock]}, clock)
      prior == Matching(kept, tries[a].intent)
  IN  IF prior # {} THEN [id |-> (CHOOSE c \in prior : TRUE).id, commands |-> kept, stored |-> stored]
      ELSE [id |-> a, commands |-> new, stored |-> new]

\* The fingerprint is there: an id is found or made, and the command is sent, or
\* rejected at once because the connection has gone meanwhile.
Fingerprinted(a) ==
  /\ tries[a].phase = "hashing"
  /\ LET t == Tracked(a) IN
     /\ commands' = t.commands /\ stored' = t.stored
     /\ tries' = [tries EXCEPT ![a] = [@ EXCEPT !.id = t.id, !.phase = IF online THEN "sent" ELSE "unknown"]]
     /\ pruned' = pruned \union ((Ids(commands) \union {t.id}) \ Ids(t.commands))
  /\ inbox' = IF online THEN inbox \union {a} ELSE inbox
  /\ meant' = [meant EXCEPT ![a] = Same(a, pruned')]
  /\ UNCHANGED <<clock, online, receipts, answers, notices, known, revived, left>>

\* The answer of Serve: a result and an error that is not about the outcome settle
\* the command, "inspect the provider-native session" does not.
ReadAnswer(a) ==
  /\ a \in answers
  /\ answers' = answers \ {a}
  /\ LET kind == receipts[tries[a].id] IN
     /\ tries' = [tries EXCEPT ![a].phase = IF kind = "settled" THEN "done" ELSE "unknown"]
     /\ IF kind = "unsure" THEN UNCHANGED <<commands, stored, known>> ELSE Settle(tries[a].id)
  /\ UNCHANGED <<clock, online, inbox, receipts, notices, meant, pruned, revived, left>>

\* external.event.command_committed and command_failed.
ReadNotice(id) ==
  /\ online
  /\ id \in notices
  /\ notices' = notices \ {id}
  /\ Settle(id)
  /\ UNCHANGED <<clock, tries, online, inbox, receipts, answers, meant, pruned, revived, left>>

\* The socket closes: every call in flight is rejected, its outcome unknown.
Close ==
  /\ online
  /\ left > 0 /\ left' = left - 1
  /\ online' = FALSE
  /\ answers' = {}
  /\ \E lost \in SUBSET inbox : inbox' = inbox \ lost
  /\ tries' = [a \in Attempts |->
                 IF tries[a].phase = "sent" THEN [tries[a] EXCEPT !.phase = "unknown"] ELSE tries[a]]
  /\ UNCHANGED <<clock, commands, stored, receipts, notices, known, meant, pruned, revived>>

Reconnect ==
  /\ ~online
  /\ online' = TRUE
  /\ UNCHANGED <<clock, commands, stored, tries, inbox, receipts, answers, notices, known, meant, pruned,
                 revived, left>>

\* The window is replaced: the tracker is read again from localStorage and pruned.
Reload ==
  /\ left > 0 /\ left' = left - 1
  /\ online' = FALSE
  /\ answers' = {}
  /\ commands' = Prune(stored, clock)
  /\ pruned' = (pruned \union Ids(stored)) \ Ids(Prune(stored, clock))
  /\ revived' = revived \union (known \intersect Ids(Prune(stored, clock)))
  /\ tries' = [a \in Attempts |->
                 CASE tries[a].phase = "hashing" -> [tries[a] EXCEPT !.phase = "done"]
                   [] tries[a].phase = "sent" -> [tries[a] EXCEPT !.phase = "unknown"]
                   [] OTHER -> tries[a]]
  /\ UNCHANGED <<clock, stored, inbox, receipts, notices, known, meant>>

--------------------------------------------------------------------------------
(* Serve and the wall clock, as src/ relies on them. *)

\* Serve reads a command: the first frame of an id decides, the others repeat its receipt.
ServeReads(a) ==
  /\ a \in inbox
  /\ inbox' = inbox \ {a}
  /\ \E kind \in Receipts \ {"none"} :
       LET id == tries[a].id IN
       /\ receipts[id] \in {"none", kind}
       /\ receipts' = [receipts EXCEPT ![id] = kind]
       /\ notices' = IF receipts[id] = "none" /\ kind # "unsure" THEN notices \union {id} ELSE notices
  /\ answers' = IF tries[a].phase = "sent" THEN answers \union {a} ELSE answers
  /\ UNCHANGED <<clock, commands, stored, tries, online, known, meant, pruned, revived, left>>

ClockMoves ==
  /\ clock' \in 0..MaxClock
  /\ clock' # clock
  /\ UNCHANGED <<commands, stored, tries, online, inbox, receipts, answers, notices, known, meant, pruned,
                 revived, left>>

NextCommands ==
  \/ \E a \in Attempts : \/ \E i \in Intents : Begin(a, i)
                         \/ Fingerprinted(a) \/ ReadAnswer(a) \/ ServeReads(a) \/ ReadNotice(a)
  \/ Close \/ Reconnect \/ Reload \/ ClockMoves

SpecCommands == InitCommands /\ [][NextCommands]_commandVars

--------------------------------------------------------------------------------
\* What overlaps, is lost or is reloaded between the attempts of one intention, they
\* carry one id, so that Serve runs the command once; and an attempt that follows a
\* known outcome carries an id of its own, so that Serve does not answer it from the
\* receipt of the earlier one. Excepted is an id that came back from localStorage: it was
\* dropped for its age, its outcome came, which settle() does not write for an id it does
\* not hold, and a reload found it there after the wall clock had been set back.
OneIdPerIntention ==
  \A a, b \in Attempts :
    meant[a] # 0 /\ meant[b] # 0 /\ {tries[a].id, tries[b].id} \intersect revived = {} =>
      (meant[a] = meant[b] <=> tries[a].id = tries[b].id)
================================================================================
