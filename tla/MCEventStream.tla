----------------------------- MODULE MCEventStream -----------------------------
(* Engines of the releases the renderer still talks to: one without numbered     *)
(* events, one that can be resumed but not snapshotted, a current one.           *)
EXTENDS EventStream

NoCursorEngine == {}
ReplayOnlyEngine == {"cursor", "replay"}
SnapshotOnlyEngine == {"cursor", "snapshot"}
CurrentEngine == {"cursor", "replay", "snapshot"}

MCEngines == {NoCursorEngine, ReplayOnlyEngine, SnapshotOnlyEngine, CurrentEngine}
MCCurrentEngine == {CurrentEngine}

\* Sockets are superseded under an Engine without numbered events; what they do under
\* the others is EventStreamSuperseded.cfg's and MCLive's.
OnlyLegacySupersedes == superseded' # {} => serve.features = NoCursorEngine
================================================================================
