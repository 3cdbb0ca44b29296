------------------------------ MODULE Protocol ------------------------------
(* protocol/src/lib.rs: the kinds of message a session is made of, and the   *)
(* three predicates by which an agent follows whose turn it is.              *)

ClientKinds == {"Probe", "Manifest", "FileData", "SyncDone", "TipRequest"}

DaemonKinds == {"ProbeAccepted", "ProbeMiss", "NeedFiles", "SyncAck",
                "SlotsBusy", "BuildStdout", "BuildStderr", "Executable",
                "BuildFinished", "Tip"}

(* The client has finished its half and now waits for the daemon.            *)
EndsClientTurn(kind) == kind \in {"Probe", "Manifest", "SyncDone", "TipRequest"}

(* The daemon asks for something and will speak again after the client.      *)
YieldsToClient(kind) == kind \in {"ProbeMiss", "NeedFiles"}

(* Variant: only a build ends a session.                                     *)
EndsBuild(kind) == kind = "BuildFinished"

(* The daemon's last word on a session.                                      *)
EndsSession(kind) == kind \in {"BuildFinished", "SlotsBusy", "Tip"}
=============================================================================
