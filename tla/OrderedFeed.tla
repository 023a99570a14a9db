------------------------------ MODULE OrderedFeed ------------------------------
(* What the event stream promises to the rest of the renderer: a view of Serve's *)
(* log that is either out of sync, or a prefix of the log that only grows. It    *)
(* comes into sync by a snapshot of some prefix, moves on by whole runs of       *)
(* events, and goes out of sync with the connection; the log itself may only be  *)
(* cut or replaced while nobody is in sync with it.                              *)
EXTENDS Naturals, Sequences

CONSTANT Entry      \* what a log holds

VARIABLES
  log,      \* Serve's log of the current stream
  inSync,   \* the view is the renderer's truth
  view      \* the prefix of the log the renderer shows, when inSync

vars == <<log, inSync, view>>

Prefixes == {SubSeq(log, 1, n) : n \in 0..Len(log)}

Init == log = <<>> /\ inSync = FALSE /\ view = <<>>

Log == \E e \in Entry : log' = Append(log, e) /\ UNCHANGED <<inSync, view>>

\* Another Serve, or the same one without the end of its log
Replace ==
  /\ log' \in Prefixes
  /\ inSync' = FALSE
  /\ view' = <<>>

Synchronize ==
  /\ ~inSync
  /\ inSync' = TRUE
  /\ view' \in Prefixes
  /\ UNCHANGED log

Advance ==
  /\ inSync
  /\ view' \in {SubSeq(log, 1, n) : n \in Len(view) + 1 .. Len(log)}
  /\ UNCHANGED <<log, inSync>>

Disconnect ==
  /\ inSync' = FALSE
  /\ view' = <<>>
  /\ UNCHANGED log

Next == Log \/ Replace \/ Synchronize \/ Advance \/ Disconnect

Spec == Init /\ [][Next]_vars
================================================================================
