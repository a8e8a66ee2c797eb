------------------------------ MODULE Dashboard ------------------------------
(***************************************************************************)
(* The terminal interface's state and what an event does to it.  Wording,  *)
(* progress figures, the activity log and drawing are left out; Message    *)
(* and Log events change nothing else, so there are none.                  *)
(***************************************************************************)
EXTENDS Integers, Sequences, SequencesExt

CONSTANT MaxRows  \* MAX_TRANSFERS

ASSUME MaxRowsAssumption == MaxRows \in Nat \ {0}

\* TransferStage.
Stage == {"Discovering", "Connecting", "Authenticating", "ReceivingManifest",
          "Transferring", "Verifying", "Complete", "Failed"}

Final == {"Complete", "Failed"}

\* PeerlineEvent.  A StageChanged does not say which transfer it is about.
Event == [type : {"Shutdown", "Progress"}]
         \cup [type : {"StageChanged"}, stage : Stage]
         \cup [type : {"TransferStarted"}, id : Nat]

Shutdown == [type |-> "Shutdown"]
Progress == [type |-> "Progress"]
StageChanged(s) == [type |-> "StageChanged", stage |-> s]
TransferStarted(i) == [type |-> "TransferStarted", id |-> i]

NoTransfer == 0

\* A Dashboard: the stage in its header, the active transfer, its table.
DashboardState ==
  [stage : Stage, active : Nat, rows : Seq([id : Nat, stage : Stage])]

NewDashboard == [stage |-> "Discovering", active |-> NoTransfer, rows |-> << >>]

\* transfer_mut: the first row with the id.
RowOf(d, i) == SelectInSeq(d.rows, LAMBDA r : r.id = i)

\* Mutant of ApplyStage: the transfer that ended stays the active one.
ApplyStageActiveKept(d, s) ==
  LET row == RowOf(d, d.active)
  IN  [d EXCEPT !.stage = s,
                !.rows = IF row = 0 THEN @ ELSE [@ EXCEPT ![row].stage = s]]

\* apply_event, StageChanged.
ApplyStage(d, s) ==
  LET row == RowOf(d, d.active)
  IN  [d EXCEPT !.stage = s,
                !.rows = IF row = 0 THEN @ ELSE [@ EXCEPT ![row].stage = s],
                !.active = IF s \in Final THEN NoTransfer ELSE @]

\* apply_event, TransferStarted: the oldest row makes room.
ApplyStarted(d, i) ==
  LET rows == Append(d.rows, [id |-> i, stage |-> d.stage])
  IN  [d EXCEPT !.active = i,
                !.rows = IF Len(rows) > MaxRows THEN Tail(rows) ELSE rows]

\* apply_event.
ApplyEvent(d, e) ==
  CASE e.type = "StageChanged" -> ApplyStage(d, e.stage)
    [] e.type = "TransferStarted" -> ApplyStarted(d, e.id)
    [] OTHER -> d

\* Mutant of ShouldExit: only Shutdown ends the interface of a sender.
ShouldExitOnShutdown(sends, e) == e.type = "Shutdown"

\* Does apply_event end the interface of a command that sends?
ShouldExit(sends, e) ==
  \/ e.type = "Shutdown"
  \/ sends /\ e.type = "StageChanged" /\ e.stage = "Complete"

\* retry_available.
RetryAvailable(sends, d) == sends /\ d.stage = "Failed"
===============================================================================
