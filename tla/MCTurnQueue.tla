------------------------------ MODULE MCTurnQueue ------------------------------
(* Engines of the releases the renderer still talks to: one without             *)
(* session.submit, one with it, and a current one; with a connection that is    *)
(* lost or a refusal, and with updaters that React runs in the call or later.   *)
EXTENDS TurnQueue

LegacyEngine == {}
SubmitEngine == {"atomic"}
CurrentEngine == {"atomic", "durable"}
ForgetfulEngines == {LegacyEngine, SubmitEngine}

WorldsOf(engines, lazy, loses, closes, faults) ==
  [features : engines, lazy : {lazy}, loses : {loses}, closes : {closes}, faults : {faults}]

\* A lost connection; refusals; a lost receipt; updaters that React runs later.
MCClosing == WorldsOf(ForgetfulEngines \cup {CurrentEngine}, FALSE, FALSE, 1, 0)
MCRefusing == WorldsOf(ForgetfulEngines \cup {CurrentEngine}, FALSE, FALSE, 0, 2)
MCLazy == WorldsOf(ForgetfulEngines, TRUE, FALSE, 0, 1)
MCLosing == WorldsOf({CurrentEngine}, FALSE, TRUE, 0, 1)
MCGenerations == MCClosing \cup MCRefusing \cup MCLosing \cup MCLazy
MCSubmitEngine == WorldsOf({SubmitEngine}, TRUE, FALSE, 0, 1)
MCCurrentEngine == WorldsOf({CurrentEngine}, FALSE, FALSE, 0, 0)
================================================================================
