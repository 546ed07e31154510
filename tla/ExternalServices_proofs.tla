---------------------- MODULE ExternalServices_proofs ----------------------
(***************************************************************************)
(* Proofs about three parts that follow services outside the backend and   *)
(* share nothing: the controller of the calls in progress, for any calls   *)
(* and any number of failures; the counters of a WhatsApp group, for any   *)
(* messages, sources, copies and losses; and the requests of its older     *)
(* history to the phone, for any calls and any history.                    *)
(***************************************************************************)
EXTENDS NetelipControl, UnreadCounters, EvolutionReception, FiniteSetTheorems, TLAPS

Entries == [recording : BOOLEAN, file : BOOLEAN, answered : BOOLEAN]
Kinds   == {"call", "announced"}

(* Nothing of the call changes in the step. *)
Untouched(d) ==
  /\ setting' = setting /\ entry'[d] = entry[d] /\ command'[d] = command[d]
  /\ d \in heard' <=> d \in heard
  /\ d \in recorded' <=> d \in recorded
  /\ d \in connected' <=> d \in connected
  /\ \A file \in Kinds : <<d, file>> \in noticed' <=> <<d, file>> \in noticed
  /\ events'[d] = events[d]
  /\ d \in disturbed' <=> d \in disturbed

LEMMA Commanded ==
  ASSUME NEW c \in Calls, NEW isRecorded \in BOOLEAN
  PROVE  /\ FirstCommand(c) \in {"callerid", "record", "dial_norec", "hangup", "speak"}
         /\ FirstCommand(c) = "callerid" => c \in Outbound
         /\ FirstCommand(c) = "speak" => c \notin Outbound
         /\ FirstCommand(c) = "record" => c \in Outbound /\ setting.announce
         /\ StartOutbound \in {"record", "dial_norec"}
         /\ StartOutbound = "record" => setting.announce
         /\ DialInbound(isRecorded) \in {"hangup", "dial", "dial_norec"}
         /\ isRecorded => DialInbound(isRecorded) # "dial_norec"
         /\ ~isRecorded => DialInbound(isRecorded) # "dial"
BY DEF FirstCommand, StartOutbound, DialInbound

LEMMA WhatIsUntouched ==
  ASSUME NEW d \in Calls, Followed(d), Known(d), Untouched(d)
  PROVE  Followed(d)' /\ Known(d)'
<1>1. Files(d) \subseteq Kinds /\ Files(d)' = Files(d)
  BY DEF Files, Kinds, Untouched
<1>2. Announced(d)' <=> Announced(d)
  BY DEF Announced, Untouched
<1>3. Followed(d)'
  BY <1>2 DEF Followed, Untouched, Kinds
<1>4. Known(d)'
  BY <1>1 DEF Known, Untouched, Wanted
<1> QED
  BY <1>3, <1>4

(* The invariant of the proofs holds at the start. *)
LEMMA InitControl == Init => ControlInv
<1> SUFFICES ASSUME Init PROVE ControlInv
  OBVIOUS
<1>1. TypeOK
  BY DEF Init, TypeOK, Blank, Commands
<1>2. ASSUME NEW c \in Calls PROVE Followed(c) /\ Known(c)
  BY DEF Init, Followed, Known, Blank
<1> QED
  BY <1>1, <1>2 DEF Init, ControlInv, NoticedAreRecorded

(* A step of a call keeps the invariant when it keeps the types and what   *)
(* is known of its own call, and touches no other.                         *)
LEMMA OneCall ==
  ASSUME ControlInv, NEW c \in Calls, TypeOK', NoticedAreRecorded', Followed(c)', Known(c)',
         \A d \in Calls : d # c => Untouched(d)
  PROVE  ControlInv'
<1>1. ASSUME NEW d \in Calls, d # c PROVE Followed(d)' /\ Known(d)'
  BY <1>1, WhatIsUntouched DEF ControlInv
<1>2. \A d \in Calls : Followed(d)' /\ Known(d)'
  BY <1>1
<1> QED
  BY <1>2 DEF ControlInv

LEMMA StartsKeeps ==
  ASSUME ControlInv, NEW c \in Calls, Starts(c)
  PROVE  ControlInv'
<1> USE DEF Starts, Reply, facts
<1>1. TypeOK'
  BY Commanded DEF ControlInv, TypeOK, Commands
<1>2. NoticedAreRecorded'
  BY DEF ControlInv, NoticedAreRecorded
<1>3. \A d \in Calls : d # c => Untouched(d)
  BY DEF ControlInv, TypeOK, Untouched
<1>4. Followed(c) /\ Known(c) /\ command \in [Calls -> Commands]
  BY DEF ControlInv, TypeOK
<1>5. Followed(c)'
  BY <1>4, Commanded DEF Followed, Announced
<1>6. Known(c)'
  BY <1>4 DEF Known, Files, Wanted
<1> QED
  BY <1>1, <1>2, <1>3, <1>5, <1>6, OneCall

LEMMA CallerGoneKeeps ==
  ASSUME ControlInv, NEW c \in Calls, CallerGone(c)
  PROVE  ControlInv'
<1> USE DEF CallerGone, Reply, facts
<1>1. TypeOK'
  BY Commanded DEF ControlInv, TypeOK, Commands
<1>2. NoticedAreRecorded'
  BY DEF ControlInv, NoticedAreRecorded
<1>3. \A d \in Calls : d # c => Untouched(d)
  BY DEF ControlInv, TypeOK, Untouched
<1>4. Followed(c) /\ Known(c) /\ command \in [Calls -> Commands]
  BY DEF ControlInv, TypeOK
<1>5. Followed(c)'
  BY <1>4, Commanded DEF Followed, Announced
<1>6. Known(c)'
  BY <1>4 DEF Known, Files, Wanted
<1> QED
  BY <1>1, <1>2, <1>3, <1>5, <1>6, OneCall

LEMMA CallerIdShownKeeps ==
  ASSUME ControlInv, NEW c \in Calls, CallerIdShown(c)
  PROVE  ControlInv'
<1> USE DEF CallerIdShown, Reply, facts
<1>1. TypeOK'
  BY Commanded DEF ControlInv, TypeOK, Commands
<1>2. NoticedAreRecorded'
  BY DEF ControlInv, NoticedAreRecorded
<1>3. \A d \in Calls : d # c => Untouched(d)
  BY DEF ControlInv, TypeOK, Untouched
<1>4. Followed(c) /\ Known(c) /\ command \in [Calls -> Commands]
  BY DEF ControlInv, TypeOK
<1>5. Followed(c)'
  BY <1>4, Commanded DEF Followed, Announced
<1>6. Known(c)'
  BY <1>4 DEF Known, Files, Wanted
<1> QED
  BY <1>1, <1>2, <1>3, <1>5, <1>6, OneCall

LEMMA AvisoSpokenKeeps ==
  ASSUME ControlInv, NEW c \in Calls, AvisoSpoken(c)
  PROVE  ControlInv'
<1> USE DEF AvisoSpoken, Reply, facts
<1>1. TypeOK'
  BY Commanded DEF ControlInv, TypeOK, Commands
<1>2. NoticedAreRecorded'
  BY DEF ControlInv, NoticedAreRecorded
<1>3. \A d \in Calls : d # c => Untouched(d)
  BY DEF ControlInv, TypeOK, Untouched
<1>4. Followed(c) /\ Known(c) /\ command \in [Calls -> Commands]
  BY DEF ControlInv, TypeOK
<1>5. Followed(c)'
  BY <1>4, Commanded DEF Followed, Announced
<1>6. Known(c)'
  BY <1>4 DEF Known, Files, Wanted
<1> QED
  BY <1>1, <1>2, <1>3, <1>5, <1>6, OneCall

LEMMA AvisoFailsKeeps ==
  ASSUME ControlInv, NEW c \in Calls, AvisoFails(c)
  PROVE  ControlInv'
<1> USE DEF AvisoFails, Reply, facts
<1>1. TypeOK'
  BY Commanded DEF ControlInv, TypeOK, Commands
<1>2. NoticedAreRecorded'
  BY DEF ControlInv, NoticedAreRecorded
<1>3. \A d \in Calls : d # c => Untouched(d)
  BY DEF ControlInv, TypeOK, Untouched
<1>4. Followed(c) /\ Known(c) /\ command \in [Calls -> Commands]
  BY DEF ControlInv, TypeOK
<1>5. Followed(c)'
  BY <1>4, Commanded DEF Followed, Announced
<1>6. Known(c)'
  BY <1>4 DEF Known, Files, Wanted
<1> QED
  BY <1>1, <1>2, <1>3, <1>5, <1>6, OneCall

(* Recording: after the announcement of an incoming call, or before a dial *)
(* that makes it. *)
LEMMA RecordKeeps ==
  ASSUME ControlInv, NEW c \in Calls, RecordStarts(c) \/ RecordFails(c)
  PROVE  ControlInv'
<1> USE DEF AfterRecord, Reply, Keep
<1>1. PICK state \in Entries, began \in BOOLEAN :
        /\ command[c] = "record" /\ AfterRecord(c, state)
        /\ recorded' = IF began THEN recorded \cup {c} ELSE recorded
        /\ state.recording = (entry[c].recording \/ began) /\ state.answered = entry[c].answered
  <2>1. entry[c] \in Entries
    BY DEF ControlInv, TypeOK, Entries
  <2>2. CASE RecordFails(c)
    BY <2>1, <2>2 DEF RecordFails, Entries
  <2>3. CASE RecordStarts(c)
    <3>1. PICK path \in BOOLEAN : AfterRecord(c, [entry[c] EXCEPT !.recording = TRUE, !.file = @ \/ path])
      BY <2>3 DEF RecordStarts
    <3>2. [entry[c] EXCEPT !.recording = TRUE, !.file = @ \/ path] \in Entries
      BY <2>1 DEF Entries
    <3> QED
      BY <2>1, <2>3, <3>1, <3>2 DEF RecordStarts, Entries
  <2> QED
    BY <2>2, <2>3
<1>2. Followed(c) /\ Known(c) /\ TypeOK
  BY DEF ControlInv
<1>3. /\ DialInbound(state.recording) \in {"hangup", "dial", "dial_norec"}
      /\ state.recording => DialInbound(state.recording) # "dial_norec"
      /\ ~state.recording => DialInbound(state.recording) # "dial"
  BY Commanded DEF Entries
<1>4. TypeOK'
  BY <1>1, <1>2, <1>3 DEF TypeOK, Commands, Entries
<1>5. NoticedAreRecorded'
  BY <1>1 DEF ControlInv, NoticedAreRecorded
<1>6. \A d \in Calls : d # c => Untouched(d)
  BY <1>1, <1>2 DEF TypeOK, Untouched
<1>7. /\ entry'[c] = state
      /\ command'[c] = IF c \in Outbound THEN "dial" ELSE DialInbound(state.recording)
  BY <1>1, <1>2 DEF TypeOK
<1>8. Followed(c)'
  BY <1>1, <1>2, <1>3, <1>7 DEF Followed, Announced, Known
<1>9. Known(c)'
  BY <1>1, <1>2, <1>7 DEF Followed, Known, Files, Wanted
<1> QED
  BY <1>4, <1>5, <1>6, <1>8, <1>9, OneCall

(* An event is made, or lost and the call disturbed; and the entry goes. *)
LEMMA EventMade ==
  ASSUME TypeOK, NEW c \in Calls, MakeEvent(c)
  PROVE  /\ entry' \in [Calls -> Entries] /\ entry'[c] = Blank
         /\ events' \in [Calls -> Nat] /\ disturbed' \subseteq Calls /\ faults' \in Nat
         /\ \/ events'[c] = events[c] + 1 /\ disturbed' = disturbed
            \/ events'[c] = events[c] /\ c \in disturbed'
         /\ c \in disturbed => c \in disturbed'
         /\ \A d \in Calls : d # c =>
              /\ entry'[d] = entry[d] /\ events'[d] = events[d]
              /\ d \in disturbed' <=> d \in disturbed
BY DEF MakeEvent, TypeOK, Blank, Entries

LEMMA EventNotMade ==
  ASSUME TypeOK, NEW c \in Calls, NEW state \in Entries, KeepWithoutEvent(c, state)
  PROVE  /\ entry' \in [Calls -> Entries] /\ entry'[c] = state
         /\ events' = events /\ disturbed' = disturbed /\ faults' = faults
         /\ \A d \in Calls : d # c => entry'[d] = entry[d]
BY DEF KeepWithoutEvent, Keep, TypeOK, Entries

LEMMA DialEndsKeeps ==
  ASSUME ControlInv, NEW c \in Calls,
         NEW talked \in BOOLEAN, NEW described \in BOOLEAN, NEW path \in BOOLEAN,
         DialEnds(c, talked, described, path)
  PROVE  ControlInv'
<1> DEFINE step  == command[c]
           state == [entry[c] EXCEPT !.file = @ \/ path,
                                     !.answered = @ \/ (step = "dial" /\ talked)]
           made  == step = "dial" /\ state.recording /\ described /\ state.file
<1>1. Followed(c) /\ Known(c) /\ TypeOK
  BY DEF ControlInv
<1>2. /\ state \in Entries /\ state.recording = entry[c].recording
      /\ state.answered <=> (entry[c].answered \/ (step = "dial" /\ talked))
  BY <1>1 DEF TypeOK, Entries
<1>3. /\ step \in {"dial", "dial_norec"} /\ (described => talked)
      /\ connected' = IF talked THEN connected \cup {c} ELSE connected
      /\ heard' = IF talked /\ step = "dial" /\ c \in Outbound /\ setting.announce
                  THEN heard \cup {c} ELSE heard
      /\ IF made THEN MakeEvent(c) ELSE KeepWithoutEvent(c, state)
      /\ command' = [command EXCEPT ![c] = "hangup"]
      /\ UNCHANGED <<setting, recorded, noticed>>
  BY DEF DialEnds, Reply
<1> HIDE DEF step, state
<1>4. /\ entry' \in [Calls -> Entries] /\ events' \in [Calls -> Nat]
      /\ disturbed' \subseteq Calls /\ faults' \in Nat
      /\ c \in disturbed => c \in disturbed'
      /\ \A d \in Calls : d # c =>
           /\ entry'[d] = entry[d] /\ events'[d] = events[d]
           /\ d \in disturbed' <=> d \in disturbed
  BY <1>1, <1>2, <1>3, EventMade, EventNotMade DEF TypeOK
<1>5. made => /\ entry'[c] = Blank
              /\ \/ events'[c] = events[c] + 1
                 \/ events'[c] = events[c] /\ c \in disturbed'
  BY <1>1, <1>3, EventMade
<1>6. ~made => entry'[c] = state /\ events' = events
  BY <1>1, <1>2, <1>3, EventNotMade
<1>7. step = command[c] /\ (made => step = "dial" /\ state.recording /\ described)
  BY DEF step
<1> HIDE DEF made
<1>8. TypeOK'
  BY <1>1, <1>3, <1>4 DEF TypeOK, Entries, Commands
<1>9. NoticedAreRecorded'
  BY <1>3 DEF ControlInv, NoticedAreRecorded
<1>10. \A d \in Calls : d # c => Untouched(d)
  BY <1>1, <1>3, <1>4 DEF TypeOK, Untouched
<1>11. command'[c] = "hangup"
  BY <1>1, <1>3 DEF TypeOK
<1>12. Followed(c)'
  BY <1>1, <1>3, <1>7, <1>11 DEF Followed, Announced
<1>13. Known(c)'
  <2>1. events[c] = 0 /\ \A file \in Kinds : <<c, file>> \notin noticed'
    BY <1>1, <1>3, <1>7 DEF Followed, Kinds
  <2>2. Files(c)' \subseteq Kinds
    BY DEF Files, Kinds
  <2>3. CASE made
    BY <1>1, <1>2, <1>3, <1>5, <1>7, <2>1, <2>2, <2>3 DEF Known, Blank
  <2>4. CASE ~made
    BY <1>1, <1>2, <1>3, <1>4, <1>6, <1>7, <2>1, <2>2, <2>4 DEF Known, Followed
  <2> QED
    BY <2>3, <2>4
<1> QED
  BY <1>8, <1>9, <1>10, <1>12, <1>13, OneCall

LEMMA NoticeKeeps ==
  ASSUME ControlInv, NEW c \in Calls, NEW file \in Kinds, Notice(c, file)
  PROVE  ControlInv'
<1> DEFINE made == Wanted(file) /\ entry[c].recording /\ entry[c].answered
<1>1. Followed(c) /\ Known(c) /\ TypeOK /\ entry[c] \in Entries
  BY DEF ControlInv, TypeOK, Entries
<1>2. /\ command[c] = "hangup" /\ c \in recorded
      /\ file \in Files(c) /\ noticed' = noticed \cup {<<c, file>>}
      /\ IF made THEN MakeEvent(c) ELSE KeepWithoutEvent(c, entry[c])
      /\ UNCHANGED <<setting, command, heard, recorded, connected>>
  BY DEF Notice, facts
<1>3. /\ entry' \in [Calls -> Entries] /\ events' \in [Calls -> Nat]
      /\ disturbed' \subseteq Calls /\ faults' \in Nat
      /\ c \in disturbed => c \in disturbed'
      /\ \A d \in Calls : d # c =>
           /\ entry'[d] = entry[d] /\ events'[d] = events[d]
           /\ d \in disturbed' <=> d \in disturbed
  BY <1>1, <1>2, EventMade, EventNotMade DEF TypeOK
<1>4. made => /\ entry'[c] = Blank
              /\ \/ events'[c] = events[c] + 1
                 \/ events'[c] = events[c] /\ c \in disturbed'
  BY <1>1, <1>2, EventMade
<1>5. ~made => entry'[c] = entry[c] /\ events' = events
  BY <1>1, <1>2, EventNotMade
<1>6. TypeOK'
  BY <1>1, <1>2, <1>3 DEF TypeOK, Entries, Kinds
<1>7. NoticedAreRecorded'
  BY <1>2 DEF ControlInv, NoticedAreRecorded
<1>8. \A d \in Calls : d # c => Untouched(d)
  BY <1>1, <1>2, <1>3 DEF TypeOK, Untouched
<1>9. Followed(c)'
  BY <1>1, <1>2 DEF Followed, Announced
<1>10. Known(c)'
  <2>1. CASE made
    BY <1>1, <1>2, <1>3, <1>4, <2>1 DEF Known, Blank
  <2>2. CASE ~made
    <3>1. Files(c)' = Files(c) /\ \A f : Wanted(f)' <=> Wanted(f)
      BY <1>2 DEF Files, Wanted
    <3> QED
      BY <1>1, <1>2, <1>3, <1>5, <2>2, <3>1 DEF Known
  <2> QED
    BY <2>1, <2>2
<1> QED
  BY <1>6, <1>7, <1>8, <1>9, <1>10, OneCall

(* A restart and an entry that expires only lose what disturbed records. *)
LEMMA LossKeeps ==
  ASSUME ControlInv, Restart \/ \E c \in Calls : Expires(c)
  PROVE  ControlInv'
<1>1. PICK lost \in SUBSET Calls :
        /\ disturbed' = disturbed \cup lost
        /\ entry' = [c \in Calls |-> IF c \in lost THEN Blank ELSE entry[c]]
        /\ faults' = faults + 1
        /\ UNCHANGED <<setting, command, heard, recorded, connected, noticed, events>>
  <2>1. CASE Restart
    <3>1. [c \in Calls |-> Blank]
            = [c \in Calls |-> IF c \in {d \in Calls : entry[d] # Blank} THEN Blank ELSE entry[c]]
      OBVIOUS
    <3> QED
      BY <2>1, <3>1 DEF Restart, facts
  <2>2. CASE \E c \in Calls : Expires(c)
    <3>1. PICK c \in Calls : Expires(c)
      BY <2>2
    <3>2. [entry EXCEPT ![c] = Blank] = [d \in Calls |-> IF d \in {c} THEN Blank ELSE entry[d]]
      BY DEF ControlInv, TypeOK
    <3> QED
      BY <3>1, <3>2 DEF Expires, facts
  <2> QED
    BY <2>1, <2>2
<1>2. TypeOK /\ TypeOK'
  BY <1>1 DEF ControlInv, TypeOK, Blank
<1>3. NoticedAreRecorded'
  BY <1>1 DEF ControlInv, NoticedAreRecorded
<1>4. ASSUME NEW d \in Calls PROVE Followed(d)' /\ Known(d)'
  <2>1. Followed(d) /\ Known(d)
    BY DEF ControlInv
  <2>2. CASE d \notin lost
    <3>1. Untouched(d)
      BY <1>1, <2>2 DEF Untouched
    <3> QED
      BY <2>1, <3>1, WhatIsUntouched
  <2>3. CASE d \in lost
    <3>1. Followed(d)'
      BY <1>1, <2>1 DEF Followed, Announced
    <3>2. Known(d)'
      BY <1>1, <2>1, <2>3 DEF Known, Blank
    <3> QED
      BY <3>1, <3>2
  <2> QED
    BY <2>2, <2>3
<1> QED
  BY <1>2, <1>3, <1>4 DEF ControlInv

LEMMA NextControl == ControlInv /\ [Next]_vars => ControlInv'
<1> SUFFICES ASSUME ControlInv, [Next]_vars PROVE ControlInv'
  OBVIOUS
<1>1. CASE UNCHANGED vars
  <2>1. \A d \in Calls : Untouched(d)
    BY <1>1 DEF vars, facts, Untouched
  <2>2. TypeOK' /\ NoticedAreRecorded'
    BY <1>1 DEF vars, facts, ControlInv, TypeOK, NoticedAreRecorded
  <2> QED
    BY <2>1, <2>2, WhatIsUntouched DEF ControlInv
<1>2. CASE Restart \/ \E c \in Calls : Expires(c)
  BY <1>2, LossKeeps
<1>3. ASSUME NEW c \in Calls, CallStep(c) PROVE ControlInv'
  <2>1. CASE Starts(c) \/ CallerGone(c) \/ CallerIdShown(c) \/ AvisoSpoken(c) \/ AvisoFails(c)
    BY <2>1, StartsKeeps, CallerGoneKeeps, CallerIdShownKeeps, AvisoSpokenKeeps, AvisoFailsKeeps
  <2>2. CASE RecordStarts(c) \/ RecordFails(c)
    BY <2>2, RecordKeeps
  <2>3. CASE \E talked, described, path \in BOOLEAN : DialEnds(c, talked, described, path)
    BY <2>3, DialEndsKeeps
  <2>4. CASE \E file \in {"call", "announced"} : Notice(c, file)
    BY <2>4, NoticeKeeps DEF Kinds
  <2> QED
    BY <1>3, <2>1, <2>2, <2>3, <2>4 DEF CallStep
<1> QED
  BY <1>1, <1>2, <1>3 DEF Next

(* What the controller knows of every call, at all times. *)
THEOREM ControlAlways == Spec => []ControlInv
<1> QED
  BY InitControl, NextControl, PTL DEF Spec

(* The types of the state. *)
THEOREM ControlTypes == Spec => []TypeOK
<1>1. ControlInv => TypeOK
  BY DEF ControlInv
<1> QED
  BY <1>1, ControlAlways, PTL

(* No conversation is recorded before the other party is told, whatever is *)
(* set up, fails or is lost. *)
THEOREM RecordingsAnnounced == Spec => []RecordedIsAnnounced
<1>1. ControlInv => RecordedIsAnnounced
  BY DEF ControlInv, TypeOK, RecordedIsAnnounced, Followed
<1> QED
  BY <1>1, ControlAlways, PTL

(* Of a recorded conversation one event is made, and none is missing that  *)
(* was not lost in a failure. *)
THEOREM RecordingsReported == Spec => []ReportedOnce
<1>1. ControlInv => ReportedOnce
  <2> SUFFICES ASSUME ControlInv, NEW c \in Calls
               PROVE  /\ events[c] <= 1
                      /\ events[c] = 1 => c \in recorded \cap connected
                      /\ c \in connected \ disturbed =>
                           \A file \in Files(c) :
                             Wanted(file) /\ <<c, file>> \in noticed => events[c] = 1
    BY DEF ReportedOnce
  <2>1. Known(c) /\ Files(c) \subseteq {"call", "announced"}
    BY DEF ControlInv, Files
  <2>2. \A file \in Files(c) : <<c, file>> \in noticed => c \in recorded
    BY <2>1 DEF ControlInv, NoticedAreRecorded
  <2> QED
    BY <2>1, <2>2 DEF Known
<1> QED
  BY <1>1, ControlAlways, PTL

-----------------------------------------------------------------------------
(* The counters of a group. *)
CountersTypeOK ==
  /\ received \in Nat /\ opened \in Nat /\ opened <= received
  /\ told \in [Messages -> Nat]
  /\ whatsapp \in Nat /\ baseline \in Nat /\ unread \in Nat
  /\ forgiven \in Nat
  /\ taken \in [Sources -> Nat \cup {NoCount}]

(* Only stored texts are selected or reviewed. *)
TextsAreStored ==
  /\ IsFiniteSet(stored)
  /\ reviewed \subseteq stored
  /\ captured \subseteq stored /\ reading \subseteq stored

CountersInv == CountersTypeOK /\ TextsAreStored /\ DiscountsAreEarned

-----------------------------------------------------------------------------
(* What helps with numbers. *)
LEMMA Numbers ==
  ASSUME NEW x \in Nat, NEW y \in Nat
  PROVE  /\ Least(x, y) \in Nat /\ Least(x, y) <= x /\ Least(x, y) <= y
         /\ x <= y => Least(x, y) = x
         /\ Excess(x, y) \in Nat
  BY DEF Least, Excess

(* A review discounts no more texts than it makes reviewed. *)
LEMMA DiscountIsBounded ==
  ASSUME TextsAreStored, NEW ms \in SUBSET stored
  PROVE  /\ Cardinality(reviewed) \in Nat
         /\ Discount(ms) \in Nat
         /\ Cardinality(reviewed \cup ms) \in Nat
         /\ Cardinality(reviewed) + Discount(ms) <= Cardinality(reviewed \cup ms)
<1> DEFINE fresh == ms \ reviewed
<1> DEFINE counted == Latest(stored, whatsapp) \cap fresh
<1>1. /\ IsFiniteSet(reviewed) /\ IsFiniteSet(fresh)
      /\ Cardinality(reviewed) \in Nat /\ Cardinality(fresh) \in Nat
  BY FS_Subset, FS_CardinalityType DEF TextsAreStored
<1>2. /\ IsFiniteSet(counted) /\ Cardinality(counted) \in Nat
      /\ Cardinality(counted) <= Cardinality(fresh)
  BY <1>1, FS_Subset, FS_CardinalityType, counted \in SUBSET fresh
<1>3. reviewed \cup ms = reviewed \cup fresh /\ reviewed \cap fresh = {}
  OBVIOUS
<1>4. counted = Latest(stored, whatsapp) \cap (ms \ reviewed)
  OBVIOUS
<1> HIDE DEF fresh, counted
<1>5. Cardinality(reviewed \cup ms) = Cardinality(reviewed) + Cardinality(fresh)
  <2>1. Cardinality(reviewed \cup fresh)
          = Cardinality(reviewed) + Cardinality(fresh) - Cardinality(reviewed \cap fresh)
    BY <1>1, FS_Union
  <2>2. Cardinality(reviewed \cap fresh) = 0
    BY <1>3, FS_EmptySet, Zenon
  <2> QED BY <1>1, <1>3, <2>1, <2>2
<1> QED BY <1>1, <1>2, <1>4, <1>5 DEF Discount

LEMMA ReviewKeeps ==
  ASSUME CountersInv, NEW ms \in SUBSET stored, Review(ms)
  PROVE  /\ whatsapp' \in Nat /\ baseline' \in Nat /\ unread' \in Nat
         /\ reviewed' \subseteq stored
         /\ baseline' <= whatsapp' /\ baseline' <= forgiven + Cardinality(reviewed')
<1> DEFINE read == Least(whatsapp, baseline + Discount(ms))
<1> USE DEF CountersInv, CountersTypeOK
<1>1. /\ whatsapp' = whatsapp /\ baseline' = read /\ unread' = Excess(whatsapp, read)
      /\ reviewed' = reviewed \cup ms
  BY DEF Review
<1>2. /\ Discount(ms) \in Nat
      /\ Cardinality(reviewed) \in Nat /\ Cardinality(reviewed \cup ms) \in Nat
      /\ Cardinality(reviewed) + Discount(ms) <= Cardinality(reviewed \cup ms)
  BY DiscountIsBounded
<1>3. read \in Nat /\ read <= whatsapp /\ read <= baseline + Discount(ms)
  <2> DEFINE earned == baseline + Discount(ms)
  <2>1. whatsapp \in Nat /\ earned \in Nat
    BY <1>2
  <2> HIDE DEF earned
  <2>2. Least(whatsapp, earned) \in Nat /\ Least(whatsapp, earned) <= whatsapp
        /\ Least(whatsapp, earned) <= earned
    BY <2>1, Numbers
  <2> QED BY <2>2 DEF earned
<1>4. Excess(whatsapp, read) \in Nat
  BY <1>3, Numbers
<1>5. baseline <= forgiven + Cardinality(reviewed)
  BY DEF DiscountsAreEarned
<1>6. read <= forgiven + Cardinality(reviewed \cup ms)
  BY <1>2, <1>3, <1>5
<1> HIDE DEF read
<1> QED BY <1>1, <1>3, <1>4, <1>6 DEF TextsAreStored

-----------------------------------------------------------------------------
LEMMA CountersStart == CountersInit => CountersInv
<1> SUFFICES ASSUME CountersInit PROVE CountersInv OBVIOUS
<1>1. IsFiniteSet({}) /\ Cardinality({}) = 0
  BY FS_EmptySet
<1> QED BY <1>1 DEF CountersInit, CountersInv, CountersTypeOK, TextsAreStored, DiscountsAreEarned

LEMMA CountersKept == CountersInv /\ [CountersNext]_counterVars => CountersInv'
<1> SUFFICES ASSUME CountersInv, [CountersNext]_counterVars PROVE CountersInv' OBVIOUS
<1> USE DEF CountersInv
<1>0. Cardinality(reviewed) \in Nat
  BY FS_Subset, FS_CardinalityType DEF TextsAreStored
<1>1. ASSUME Receive PROVE CountersInv'
  <2>1. received + 1 \in Nat /\ opened <= received + 1 /\ Unread + 1 \in Nat
    BY DEF CountersTypeOK, Unread
  <2>2. told' \in [Messages -> Nat]
    BY <1>1, <2>1 DEF Receive, CountersTypeOK
  <2> QED BY <1>1, <2>1, <2>2
          DEF Receive, CountersTypeOK, TextsAreStored, DiscountsAreEarned, counters, texts
<1>2. ASSUME Open PROVE CountersInv'
  BY <1>2 DEF Open, CountersTypeOK, TextsAreStored, DiscountsAreEarned, counters, texts
<1>3. ASSUME MarkRead PROVE CountersInv'
  BY <1>0, <1>3 DEF MarkRead, CountersTypeOK, TextsAreStored, DiscountsAreEarned, phone, texts
<1>4. ASSUME NEW m \in Messages, Persist(m) PROVE CountersInv'
  <2>1. Counted(m) \in Nat
    BY DEF Counted, CountersTypeOK
  <2>2. IsFiniteSet(stored \cup {m})
    BY FS_AddElement DEF TextsAreStored
  <2> QED BY <1>4, <2>1, <2>2 DEF Persist, CountersTypeOK, TextsAreStored, DiscountsAreEarned, phone, texts
<1>5. ASSUME NEW m \in Messages, PersistHistory(m) PROVE CountersInv'
  <2>1. IsFiniteSet(stored \cup {m})
    BY FS_AddElement DEF TextsAreStored
  <2> QED BY <1>5, <2>1
          DEF PersistHistory, CountersTypeOK, TextsAreStored, DiscountsAreEarned, phone, counters, texts
<1>6. ASSUME NEW s \in Sources, Take(s) PROVE CountersInv'
  BY <1>6 DEF Take, CountersTypeOK, TextsAreStored, DiscountsAreEarned, phone, counters, texts, Unread
<1>7. ASSUME NEW s \in Sources, Apply(s) PROVE CountersInv'
  <2> DEFINE n == taken[s]
  <2>1. n \in Nat
    BY <1>7 DEF Apply, CountersTypeOK
  <2>2. /\ Least(baseline, n) \in Nat /\ Least(baseline, n) <= n /\ Least(baseline, n) <= baseline
        /\ Excess(n, Least(baseline, n)) \in Nat
    BY <2>1, Numbers DEF CountersTypeOK
  <2> HIDE DEF n
  <2>3. /\ whatsapp' = n /\ baseline' = Least(baseline, n) /\ unread' = Excess(n, Least(baseline, n))
        /\ taken' = [taken EXCEPT ![s] = NoCount]
        /\ UNCHANGED <<received, opened, told, stored, reviewed, captured, reading, forgiven>>
    BY <1>7 DEF Apply, SetCount, n, phone, texts
  <2> QED BY <1>0, <2>1, <2>2, <2>3 DEF CountersTypeOK, TextsAreStored, DiscountsAreEarned
<1>8. ASSUME NEW s \in Sources, Lose(s) PROVE CountersInv'
  BY <1>8 DEF Lose, CountersTypeOK, TextsAreStored, DiscountsAreEarned, phone, counters, texts
<1>9. ASSUME Capture \/ Read \/ Drop PROVE CountersInv'
  BY <1>9 DEF Capture, Read, Drop, Pending, CountersTypeOK, TextsAreStored, DiscountsAreEarned,
              phone, counters, texts
<1>10. ASSUME SaveReport PROVE CountersInv'
  <2>1. PICK ms \in SUBSET captured : Review(ms)
    BY <1>10 DEF SaveReport
  <2>2. ms \in SUBSET stored
    BY <2>1 DEF TextsAreStored
  <2> QED BY <1>10, <2>1, <2>2, ReviewKeeps
          DEF SaveReport, CountersTypeOK, TextsAreStored, DiscountsAreEarned, phone
<1>11. ASSUME SaveSummary PROVE CountersInv'
  <2>1. reading \in SUBSET stored /\ Review(reading)
    BY <1>11 DEF SaveSummary, TextsAreStored
  <2> QED BY <1>11, <2>1, ReviewKeeps
          DEF SaveSummary, CountersTypeOK, TextsAreStored, DiscountsAreEarned, phone
<1>12. ASSUME BackendRestart PROVE CountersInv'
  <2>1. whatsapp' \in Nat /\ whatsapp <= whatsapp'
    BY <1>12 DEF BackendRestart, CountersTypeOK
  <2>2. baseline <= whatsapp /\ baseline \in Nat /\ whatsapp \in Nat
    BY DEF CountersTypeOK, DiscountsAreEarned
  <2>3. baseline' = baseline
    <3>1. baseline' = Least(baseline, whatsapp') /\ baseline <= whatsapp'
      BY <1>12, <2>1, <2>2 DEF BackendRestart
    <3> QED BY <2>1, <2>2, <3>1, Numbers
  <2>4. baseline <= whatsapp'
    BY <2>1, <2>2
  <2> QED BY <1>12, <2>1, <2>3, <2>4 DEF BackendRestart, CountersTypeOK, TextsAreStored, DiscountsAreEarned, phone
<1>13. ASSUME UNCHANGED counterVars PROVE CountersInv'
  BY <1>13 DEF counterVars, CountersTypeOK, TextsAreStored, DiscountsAreEarned, phone, counters, texts, Unread
<1> QED BY <1>1, <1>2, <1>3, <1>4, <1>5, <1>6, <1>7, <1>8, <1>9, <1>10, <1>11, <1>12, <1>13 DEF CountersNext

-----------------------------------------------------------------------------
(* What the phone has unread, what is discounted and what is shown are      *)
(* numbers, whatever reports of them come late, are lost or overlap.        *)
THEOREM CountersAreTyped == CountersSpec => []CountersTypeOK
<1>1. CountersInv => CountersTypeOK
  BY DEF CountersInv
<1> QED BY <1>1, CountersStart, CountersKept, PTL DEF CountersSpec

(* No count of messages goes below what the summaries and the user earned:  *)
(* whatever selections overlap and counts come late.                        *)
THEOREM DiscountsEarned == CountersSpec => []DiscountsAreEarned
<1>1. CountersInv => DiscountsAreEarned
  BY DEF CountersInv
<1> QED BY <1>1, CountersStart, CountersKept, PTL DEF CountersSpec

-----------------------------------------------------------------------------
(* The requests for older history *)

(* One call executes, and what it is about to ask for is not waited for. *)
RecoveryInv ==
  /\ call \in [Requesters -> {"idle", "joined", "oldest", "request"}]
  /\ anchor = [c \in Requesters |-> anchor[c]]
  /\ requests # None => requests = [anchor |-> requests.anchor, age |-> requests.age]
  /\ \A c \in Requesters : call[c] \in {"oldest", "request"} => running = c
  /\ \A c \in Requesters : call[c] = "request" => ~Waiting(anchor[c])

LEMMA RequestsUntouched ==
  ASSUME RecoveryInv, UNCHANGED requestVars
  PROVE  RecoveryInv'
BY DEF RecoveryInv, requestVars, Waiting

(* Whoever ends was the one that executed. *)
LEMMA EndLeavesNobody ==
  ASSUME RecoveryInv, NEW c \in Requesters, call[c] \in {"oldest", "request"}, EndCall(c)
  PROVE  /\ call' \in [Requesters -> {"idle", "joined", "oldest", "request"}]
         /\ anchor' = [d \in Requesters |-> anchor'[d]]
         /\ \A d \in Requesters : call'[d] = "idle"
<1>1. /\ call' = [d \in Requesters |-> IF d = c \/ call[d] = "joined" THEN "idle" ELSE call[d]]
      /\ anchor' = [anchor EXCEPT ![c] = None]
  BY DEF EndCall
<1>2. \A d \in Requesters : call[d] \in {"oldest", "request"} => d = c
  BY DEF RecoveryInv
<1>3. \A d \in Requesters : call[d] \in {"idle", "joined", "oldest", "request"}
  BY DEF RecoveryInv
<1>4. \A d \in Requesters : call'[d] = "idle"
  BY <1>1, <1>2, <1>3
<1>5. anchor' = [d \in Requesters |-> anchor'[d]]
  BY <1>1 DEF RecoveryInv
<1> QED
  BY <1>1, <1>4, <1>5

LEMMA StartKeepsRecovery ==
  ASSUME RecoveryInv, NEW c \in Requesters, StartCall(c), requests' = requests, anchor' = anchor
  PROVE  RecoveryInv'
<1>1. CASE Free
  <2>1. running' = c /\ call' = [call EXCEPT ![c] = "oldest"]
    BY <1>1 DEF StartCall
  <2>2. \A d \in Requesters : call[d] \notin {"oldest", "request"}
    BY <1>1, ReceptionAssumption DEF RecoveryInv, Free
  <2> QED
    BY <2>1, <2>2 DEF RecoveryInv, Waiting
<1>2. CASE ~Free
  <2>1. running' = running /\ call' = [call EXCEPT ![c] = "joined"]
    BY <1>2 DEF StartCall
  <2> QED
    BY <2>1 DEF RecoveryInv, Waiting
<1> QED
  BY <1>1, <1>2

LEMMA RequestKeepsRecovery ==
  ASSUME RecoveryInv, NEW c \in Requesters, RequestStep(c) \/ RequestFails(c)
  PROVE  RecoveryInv'
<1>1. CASE FindOldest(c) /\ EndCall(c)
  BY <1>1, EndLeavesNobody DEF FindOldest, RecoveryInv, Waiting
<1>2. CASE FindOldest(c) /\ ~EndCall(c)
  <2>1. PICK a \in Oldest : /\ ~Waiting(a)
                            /\ anchor' = [anchor EXCEPT ![c] = a]
                            /\ call' = [call EXCEPT ![c] = "request"]
                            /\ UNCHANGED <<running, requests>>
    BY <1>2 DEF FindOldest
  <2>2. call[c] = "oldest" /\ running = c
    BY <1>2 DEF FindOldest, RecoveryInv
  <2>3. anchor'[c] = a /\ \A d \in Requesters : call[d] \in {"oldest", "request"} => d = c
    BY <2>1, <2>2 DEF RecoveryInv
  <2> QED
    BY <2>1, <2>2, <2>3 DEF RecoveryInv, Waiting
<1>3. CASE Acknowledge(c)
  <2>1. requests' = [anchor |-> anchor[c], age |-> 0] /\ EndCall(c) /\ call[c] = "request"
    BY <1>3 DEF Acknowledge
  <2> QED
    BY <2>1, EndLeavesNobody DEF RecoveryInv, Waiting
<1>4. CASE RequestFails(c)
  BY <1>4, EndLeavesNobody DEF RequestFails, RecoveryInv, Waiting
<1> QED
  BY <1>1, <1>2, <1>3, <1>4 DEF RequestStep

(* A reference that is not waited for is not because time passes. *)
LEMMA TickKeepsRecovery ==
  ASSUME RecoveryInv, Tick
  PROVE  RecoveryInv'
<1>1. /\ requests # None /\ requests.age < RetryAge
      /\ requests' = [requests EXCEPT !.age = @ + 1]
      /\ UNCHANGED <<running, call, anchor>>
  BY DEF Tick
<1>2. /\ requests' = [anchor |-> requests'.anchor, age |-> requests'.age]
      /\ requests'.anchor = requests.anchor
  BY <1>1 DEF RecoveryInv
<1>3. \A c \in Requesters : call[c] = "request" => requests.anchor # anchor[c]
  BY <1>1 DEF RecoveryInv, Waiting
<1> QED
  BY <1>1, <1>2, <1>3 DEF RecoveryInv, Waiting

LEMMA RestKeepsRecovery ==
  ASSUME RecoveryInv,
         \/ Write \/ WriteUnseen \/ Answer \/ AnswerLost
         \/ \E m \in (Old + 1)..Newest : Redeliver(m) \/ Edit(m)
         \/ HandleEvent \/ EventFails
         \/ \E full \in BOOLEAN : AskSync(full)
         \/ SyncChats \/ CountRows \/ WalkPage \/ GapsRecorded \/ SyncFails \/ BackendRestarts
  PROVE  RecoveryInv'
<1>1. UNCHANGED requestVars
  BY DEF Write, WriteUnseen, Answer, AnswerLost, Redeliver, Edit, HandleEvent, TakeEvent, CreateMessage,
         SendUpsert, ApplyEdit, SendHistory, CreateMany, EventFails, AskSync, SyncChats, CountRows,
         WalkPage, GapsRecorded, SyncFails, BackendRestarts
<1> QED
  BY <1>1, RequestsUntouched

(* Whoever asks at the same time, whatever fails or restarts. *)
THEOREM RecoveryInvariant == ReceptionSpec => []RecoveryInv
<1>1. ReceptionInit => RecoveryInv
  BY DEF ReceptionInit, RecoveryInv
<1>2. RecoveryInv /\ [ReceptionNext]_receptionVars => RecoveryInv'
  <2> SUFFICES ASSUME RecoveryInv, [ReceptionNext]_receptionVars PROVE RecoveryInv'
    OBVIOUS
  <2>1. CASE \E c \in Requesters : RequestStep(c) \/ RequestFails(c)
    BY <2>1, RequestKeepsRecovery
  <2>2. CASE Tick
    BY <2>2, TickKeepsRecovery
  <2>3. CASE AskHistory
    <3>1. CASE Missing
      <4> DEFINE c == CHOOSE c \in Requesters : call[c] = "idle"
      <4>1. c \in Requesters /\ StartCall(c) /\ requests' = requests /\ anchor' = anchor
        BY <2>3, <3>1 DEF AskHistory
      <4> QED
        BY <4>1, StartKeepsRecovery
    <3>2. CASE ~Missing
      BY <2>3, <3>2, RequestsUntouched DEF AskHistory, requestVars
    <3> QED
      BY <3>1, <3>2
  <2>4. CASE EvolutionRestarts
    BY <2>4 DEF EvolutionRestarts, RecoveryInv
  <2>5. CASE UNCHANGED receptionVars
    BY <2>5, RequestsUntouched DEF receptionVars
  <2>6. CASE \/ Write \/ WriteUnseen \/ Answer \/ AnswerLost
             \/ \E m \in (Old + 1)..Newest : Redeliver(m) \/ Edit(m)
             \/ HandleEvent \/ EventFails
             \/ \E full \in BOOLEAN : AskSync(full)
             \/ SyncChats \/ CountRows \/ WalkPage \/ GapsRecorded \/ SyncFails \/ BackendRestarts
    BY <2>6, RestKeepsRecovery
  <2> QED
    BY <2>1, <2>2, <2>3, <2>4, <2>5, <2>6 DEF ReceptionNext, SyncStep
<1> QED
  BY <1>1, <1>2, PTL DEF ReceptionSpec

(* The reference acknowledged last is asked of the phone again only after  *)
(* ten minutes.                                                            *)
THEOREM RecoveryWaits == ReceptionSpec => RecoveryIsNotRepeated
<1>1. RecoveryInv /\ [ReceptionNext]_receptionVars =>
        [\A c \in Requesters : Acknowledge(c) => ~Waiting(anchor[c])]_receptionVars
  BY DEF RecoveryInv, Acknowledge
<1> QED
  BY <1>1, RecoveryInvariant, PTL DEF ReceptionSpec, RecoveryIsNotRepeated
=============================================================================
