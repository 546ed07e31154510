------------------------- MODULE MCExternalServices -------------------------
(***************************************************************************)
(* Small instances for TLC of what follows the services outside the        *)
(* backend: the telephone centre, with the controller of its calls in      *)
(* progress; Evolution, which receives a WhatsApp group; and the counters  *)
(* of a group, which follow its phone. A behaviour is of one of them, the  *)
(* part, while the others stand still with nothing to do.                  *)
(***************************************************************************)
EXTENDS NetelipControl, UnreadCounters, EvolutionReception

CONSTANTS first, second, inbound, outbound

VARIABLE part

allVars == <<part, vars, receptionVars, counterVars>>

-----------------------------------------------------------------------------
NoControl ==
  /\ setting = [stereo |-> FALSE, announce |-> FALSE]
  /\ entry = <<>> /\ command = <<>> /\ disturbed = {} /\ faults = 0
  /\ heard = {} /\ recorded = {} /\ connected = {} /\ noticed = {}
  /\ events = [c \in Calls |-> 0]

MCInit ==
  /\ ReceptionInit /\ CountersInit
  /\ \/ part = "control" /\ Init
     \/ part \in {"group", "counters"} /\ NoControl

MCNext ==
  \/ part = "control"  /\ Next          /\ UNCHANGED <<part, receptionVars, counterVars>>
  \/ part = "group"    /\ ReceptionNext /\ UNCHANGED <<part, vars, counterVars>>
  \/ part = "counters" /\ CountersNext  /\ UNCHANGED <<part, vars, receptionVars>>

(* What each module assumes, in the behaviours of its part. *)
GroupIsFair ==
  /\ WF_receptionVars(part = "group" /\ HandleEvent)
  /\ WF_receptionVars(part = "group" /\ Answer)
  /\ WF_receptionVars(part = "group" /\ Tick)
  /\ WF_receptionVars(part = "group" /\ \E c \in Requesters : RequestStep(c))
  /\ WF_receptionVars(part = "group" /\ AskSync(TRUE))
  /\ WF_receptionVars(part = "group" /\ SyncStep)
CountersAreFair ==
  \A s \in Sources :
    /\ WF_counterVars(part = "counters" /\ Take(s))
    /\ WF_counterVars(part = "counters" /\ Apply(s))

MCFairSpec ==
  MCInit /\ [][MCNext]_allVars /\ GroupIsFair /\ CountersAreFair

=============================================================================
