-------------------------- MODULE MCNetelipCalls --------------------------
(* Small instances of the Netelip calls for TLC. *)
EXTENDS NetelipCalls, TLC

(* Executions of the transcription task are interchangeable. *)
Alike == Permutations(Workers)
=============================================================================
