--------------------------- MODULE NetelipControl ---------------------------
(***************************************************************************)
(* The controller of the calls in progress: at each step of a call Netelip *)
(* posts the result of the last command and gets the next one, announce,   *)
(* record, dial; and posts once more for each file it recorded.  What the  *)
(* controller knows of a call is in memory until it has made the event of  *)
(* its recording.                                                          *)
(***************************************************************************)
EXTENDS Naturals

CONSTANTS
  Calls,
  Outbound    \* those from an extension to a number

CONSTANTS MaxFaults  \* bound of the model

VARIABLES
  setting,    \* ControlConfig of the process
  entry,      \* controlCalls: the state of each call, Blank when it has none
  command,    \* what Netelip is doing for the call, or is to post
  heard,      \* calls whose other party was told of the recording
  recorded,   \* calls Netelip records
  connected,  \* calls whose parties talked
  noticed,    \* files Netelip has posted
  events,     \* events generated for each call
  disturbed,  \* calls whose state was lost or whose event was not stored
  faults

facts == <<heard, recorded, connected>>
vars  == <<setting, entry, command, facts, noticed, events, disturbed, faults>>

Settings == [aviso : BOOLEAN, announce : BOOLEAN, callerid : BOOLEAN, stereo : BOOLEAN, route : BOOLEAN]
Blank    == [recording |-> FALSE, file |-> FALSE, answered |-> FALSE]

(* The commands, with the step that comes back in userfield. *)
Reply(c, next) == command' = [command EXCEPT ![c] = next]
Keep(c, state) == entry' = [entry EXCEPT ![c] = state]

DialInbound(isRecorded) ==
  IF ~setting.route THEN "hangup" ELSE IF isRecorded THEN "dial" ELSE "dial_norec"

StartOutbound == IF setting.announce THEN "record" ELSE "dial_norec"

FirstCommand(c) ==
  IF c \in Outbound THEN IF setting.callerid THEN "callerid" ELSE StartOutbound
  ELSE IF ~setting.route THEN "hangup"
  ELSE IF setting.aviso THEN "speak" ELSE DialInbound(FALSE)

-----------------------------------------------------------------------------
Starts(c) ==
  /\ command[c] = "none"
  /\ Reply(c, FirstCommand(c))
  /\ UNCHANGED <<setting, entry, facts, noticed, events, disturbed, faults>>

(* The caller hung up before anything was connected. *)
CallerGone(c) ==
  /\ command[c] \in {"callerid", "speak", "record"}
  /\ Reply(c, "hangup")
  /\ UNCHANGED <<setting, entry, facts, noticed, events, disturbed, faults>>

(* The identifier is shown, or could not be. *)
CallerIdShown(c) ==
  /\ command[c] = "callerid"
  /\ Reply(c, StartOutbound)
  /\ UNCHANGED <<setting, entry, facts, noticed, events, disturbed, faults>>

AvisoSpoken(c) ==
  /\ command[c] = "speak"
  /\ heard' = heard \cup {c}
  /\ Reply(c, "record")
  /\ UNCHANGED <<setting, entry, recorded, connected, noticed, events, disturbed, faults>>

MutAvisoFails(c) ==
  /\ command[c] = "speak"
  /\ Reply(c, "record")
  /\ UNCHANGED <<setting, entry, facts, noticed, events, disturbed, faults>>
AvisoFails(c) ==
  /\ command[c] = "speak"
  /\ Reply(c, DialInbound(FALSE))
  /\ UNCHANGED <<setting, entry, facts, noticed, events, disturbed, faults>>

(* After the record, with the path of its file or without it yet. *)
AfterRecord(c, state) ==
  /\ Keep(c, state)
  /\ Reply(c, IF c \in Outbound THEN "dial" ELSE DialInbound(state.recording))
  /\ UNCHANGED <<setting, heard, connected, noticed, events, disturbed, faults>>

RecordStarts(c) ==
  /\ command[c] = "record"
  /\ recorded' = recorded \cup {c}
  /\ \E path \in BOOLEAN :
       AfterRecord(c, [entry[c] EXCEPT !.recording = TRUE, !.file = @ \/ path])

RecordFails(c) ==
  /\ command[c] = "record"
  /\ UNCHANGED recorded
  /\ AfterRecord(c, entry[c])

(* The event of a recording: the state of the call goes, and the event is  *)
(* stored in the inbox, or only logged when that fails.                    *)
MakeEvent(c) ==
  /\ entry' = [entry EXCEPT ![c] = Blank]
  /\ \/ /\ events' = [events EXCEPT ![c] = @ + 1]
        /\ UNCHANGED <<disturbed, faults>>
     \/ /\ faults < MaxFaults /\ faults' = faults + 1
        /\ disturbed' = disturbed \cup {c}
        /\ UNCHANGED events

MutKeepWithoutEvent(c, state) ==
  /\ Keep(c, IF command[c] \in {"dial", "dial_norec"} THEN Blank ELSE state)
  /\ UNCHANGED <<events, disturbed, faults>>
KeepWithoutEvent(c, state) ==
  /\ Keep(c, state)
  /\ UNCHANGED <<events, disturbed, faults>>

(* The dial ends: answered, as its description or the seconds of talk tell *)
(* (who calls may hang up without a description), or not. In a dial with   *)
(* an announcement the other party hears it before the parties talk.       *)
DialEnds(c, talked, described, path) ==
  /\ command[c] \in {"dial", "dial_norec"}
  /\ described => talked
  /\ connected' = IF talked THEN connected \cup {c} ELSE connected
  /\ heard' = IF talked /\ command[c] = "dial" /\ c \in Outbound /\ setting.announce
              THEN heard \cup {c} ELSE heard
  /\ LET step  == command[c]
         state == [entry[c] EXCEPT !.file = @ \/ path,
                                   !.answered = @ \/ (step = "dial" /\ talked)]
     IN  IF step = "dial" /\ state.recording /\ described /\ state.file
         THEN MakeEvent(c) ELSE KeepWithoutEvent(c, state)
  /\ Reply(c, "hangup")
  /\ UNCHANGED <<setting, recorded, noticed>>

(* The files of a recorded call: the call alone, and with the announcement *)
(* when there was one; in stereo only the second.                          *)
Files(c) ==
  {file \in {"call", "announced"} :
     IF file = "call" THEN ~setting.stereo ELSE c \in Outbound /\ setting.announce}

Wanted(file) == (file = "announced") = setting.stereo

Notice(c, file) ==
  /\ command[c] = "hangup"
  /\ c \in recorded /\ file \in Files(c) /\ <<c, file>> \notin noticed
  /\ noticed' = noticed \cup {<<c, file>>}
  /\ IF Wanted(file) /\ entry[c].recording /\ entry[c].answered
     THEN MakeEvent(c) ELSE KeepWithoutEvent(c, entry[c])
  /\ UNCHANGED <<setting, command, facts>>

-----------------------------------------------------------------------------
(* The backend restarts, or an entry is dropped three hours after the last *)
(* post of its call.                                                       *)
Restart ==
  /\ faults < MaxFaults /\ faults' = faults + 1
  /\ disturbed' = disturbed \cup {c \in Calls : entry[c] # Blank}
  /\ entry' = [c \in Calls |-> Blank]
  /\ UNCHANGED <<setting, command, facts, noticed, events>>

Expires(c) ==
  /\ faults < MaxFaults /\ faults' = faults + 1
  /\ command[c] = "hangup" /\ entry[c] # Blank
  /\ disturbed' = disturbed \cup {c}
  /\ entry' = [entry EXCEPT ![c] = Blank]
  /\ UNCHANGED <<setting, command, facts, noticed, events>>

Init ==
  /\ setting \in Settings
  /\ entry = [c \in Calls |-> Blank]
  /\ command = [c \in Calls |-> "none"]
  /\ heard = {} /\ recorded = {} /\ connected = {} /\ noticed = {}
  /\ events = [c \in Calls |-> 0]
  /\ disturbed = {} /\ faults = 0

CallStep(c) ==
  \/ Starts(c) \/ CallerGone(c) \/ CallerIdShown(c)
  \/ AvisoSpoken(c) \/ AvisoFails(c)
  \/ RecordStarts(c) \/ RecordFails(c)
  \/ \E talked, described, path \in BOOLEAN : DialEnds(c, talked, described, path)
  \/ \E file \in {"call", "announced"} : Notice(c, file)

Next ==
  \/ \E c \in Calls : CallStep(c) \/ Expires(c)
  \/ Restart

Spec == Init /\ [][Next]_vars

-----------------------------------------------------------------------------
Commands == {"none", "callerid", "speak", "record", "dial", "dial_norec", "hangup"}

TypeOK ==
  /\ setting \in Settings
  /\ entry \in [Calls -> [recording : BOOLEAN, file : BOOLEAN, answered : BOOLEAN]]
  /\ command \in [Calls -> Commands]
  /\ heard \subseteq Calls /\ recorded \subseteq Calls /\ connected \subseteq Calls
  /\ noticed \subseteq Calls \X {"call", "announced"}
  /\ events \in [Calls -> Nat]
  /\ disturbed \subseteq Calls
  /\ faults \in Nat

(* What the header of control.ts guarantees: whatever fails, is set up or  *)
(* is lost in a restart, no conversation is recorded unless the other      *)
(* party was told of it before.                                            *)
RecordedIsAnnounced == recorded \cap connected \subseteq heard

(* A recorded conversation makes one event, whichever comes with its file, *)
(* the end of the dial, the notice or both: none is made twice or without  *)
(* a conversation, and after its notice only one that a failure took is    *)
(* missing.                                                                *)
ReportedOnce ==
  \A c \in Calls :
    /\ events[c] <= 1
    /\ events[c] = 1 => c \in recorded \cap connected
    /\ c \in connected \ disturbed =>
         \A file \in Files(c) : Wanted(file) /\ <<c, file>> \in noticed => events[c] = 1

-----------------------------------------------------------------------------
(* What the proofs add about one call: a recording begins only once it is  *)
(* announced, or where the dial will announce it; and until it is reported *)
(* or disturbed the controller knows what happened to the call.            *)
Announced(c) == IF c \in Outbound THEN setting.announce ELSE c \in heard

Followed(c) ==
  /\ command[c] = "callerid" => c \in Outbound
  /\ command[c] = "speak" => c \notin Outbound
  /\ command[c] \notin {"dial", "hangup"} => c \notin recorded
  /\ command[c] # "hangup" => /\ c \notin connected /\ events[c] = 0
                             /\ \A file \in {"call", "announced"} : <<c, file>> \notin noticed
  /\ command[c] = "record" \/ c \in recorded => Announced(c)
  /\ c \in recorded /\ c \in connected => c \in heard

Known(c) ==
  /\ events[c] \in {0, 1}
  /\ events[c] = 1 => c \in recorded /\ c \in connected /\ ~entry[c].recording
  /\ entry[c].recording => c \in recorded
  /\ entry[c].answered => c \in connected
  /\ c \in recorded /\ c \notin disturbed /\ events[c] = 0 =>
       /\ entry[c].recording
       /\ c \in connected => /\ entry[c].answered
                             /\ \A file \in Files(c) : Wanted(file) => <<c, file>> \notin noticed

NoticedAreRecorded == \A c \in Calls, file \in {"call", "announced"} : <<c, file>> \in noticed => c \in recorded

ControlInv == TypeOK /\ NoticedAreRecorded /\ \A c \in Calls : Followed(c) /\ Known(c)
=============================================================================
