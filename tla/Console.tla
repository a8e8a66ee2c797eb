------------------------------- MODULE Console -------------------------------
(***************************************************************************)
(* One `peerline recv` or `peerline send` as its user sees it.  Its parts  *)
(* run at the same time and meet in channels:                              *)
(*                                                                         *)
(*   main     recv: optional services, then rounds of wait_for_receiver    *)
(*            send: attempts, then the question whether to retry           *)
(*   fanout   hands the events of the paths to the interface, and an empty *)
(*            message to the activity channel for those that are activity  *)
(*   ui       run_dashboard: events, and the keys q and r                  *)
(*                                                                         *)
(* What a path does is reduced to the events it emits.  A tick of the      *)
(* clock is longer than it takes a task that is ready to run; only         *)
(* unpacking an archive, which blocks main, lasts longer.                  *)
(***************************************************************************)
EXTENDS Dashboard

CONSTANTS
  Commands,       \* the commands to look at, see CommandsOver
  Services,       \* sequences of services a receiver may have to start first
  Peers,          \* the peers there are on the libp2p path
  RetryAttempts,  \* --retry-attempts
  MaxStarts,      \* bound on the transfers begun
  MaxRounds,      \* bound on the rounds of a send, and on r keys
  MaxBacklog,     \* bound on the events that wait when a path emits more
  Faults          \* may the terminal fail ("terminal")?

\* A command: its name, its idle timeout in ticks, 0 for none, and the peers
\* that come to it.
CommandsOver == [name : {"recv", "direct", "named"}, idle : Nat, peers : SUBSET Peers]

ASSUME ConsoleAssumption ==
  /\ Commands \subseteq CommandsOver
  /\ \A c \in Commands : c.name # "recv" => c.idle = 0
  /\ Services \subseteq Seq({"tunnel", "tor", "required tor", "i2p"})
  /\ Peers # {} /\ "direct" \notin Peers
  /\ {RetryAttempts, MaxStarts, MaxRounds, MaxBacklog} \subseteq Nat
  /\ Faults \subseteq {"terminal"}

VARIABLES
  cmd,       \* the command and its arguments
  main,      \* state of main
  path,      \* what the round receives on its paths
  net,       \* network_events
  activity,  \* messages in the activity channel
  ui,        \* the interface and its event channel
  quit,      \* the watch channel of the q key
  retry,     \* the channel of the r key
  left,      \* ticks until idle_deadline
  hist       \* history, see TypeOK

vars == <<cmd, main, path, net, activity, ui, quit, retry, left, hist>>

\* The direct path, like the tunnels, serves one connection at a time and returns
\* with Complete.  The libp2p path keeps a session for each of its peers; it
\* returns when the response to one of them is out, and says Complete again.
Path == {"direct"} \cup Peers

\* The futures of wait_for_receiver, each with the sessions it serves.
Routes == {{"direct"}, Peers}

PathState == {"waiting", "started", "receiving", "unpacking", "answering", "stopped"}

\* A transfer is under way.
Open(p) == path[p] \notin {"waiting", "stopped"}

Sends == cmd.name # "recv"

TypeOK ==
  /\ cmd \in Commands
  /\ main.pc \in {"starting", "waiting", "finishing",
                  "building", "trying", "delay", "asking", "joining", "ended"}
  /\ main.result \in {"none", "ok", "quit", "idle", "error"}
  /\ main.attempt \in 0..RetryAttempts /\ main.round \in 1..MaxRounds
  /\ path \in [Path -> PathState]
  /\ \A i \in DOMAIN net : net[i] \in Event
  /\ activity \in Nat
  /\ ui.pc \in {"none", "on", "closed", "quit", "broken"}
  /\ ui.dash \in DashboardState
  /\ Len(ui.dash.rows) <= MaxRows
  /\ \A i \in DOMAIN ui.queue : ui.queue[i] \in Event
  /\ quit \in [sent : BOOLEAN, rx : BOOLEAN]
  /\ retry \in [queue : Nat, rx : BOOLEAN]
  /\ left \in 0..cmd.idle
  \* ends: how the transfers ended; order: mixed, when events of one session may
  \* have come into the transfer of another, or a failure into one that goes on;
  \* keys: r keys; gap: ticks since
  \* activity in an earlier tick; tick: was there activity in this one; inbox:
  \* late, when a message waits in the activity channel since an earlier tick
  /\ hist.ends \in Seq({"open", "Complete", "Failed"}) /\ Len(hist.ends) <= MaxStarts
  /\ hist.order \in {"kept", "mixed"} /\ hist.keys \in Nat
  /\ hist.gap \in 0..cmd.idle /\ hist.tick \in {"quiet", "active"}
  /\ hist.inbox \in {"fresh", "late"}

Init ==
  /\ cmd \in Commands
  /\ \E services \in Services :
       /\ Sends => services = << >>
       /\ main = [pc |-> IF Sends THEN "building" ELSE "starting", todo |-> services,
                  result |-> "none", attempt |-> 0, round |-> 1]
  /\ path = [p \in Path |-> "waiting"]
  /\ net = << >>
  /\ activity = 0
  /\ \E shown \in BOOLEAN :
       /\ ui = [pc |-> IF shown THEN "on" ELSE "none", dash |-> NewDashboard, queue |-> << >>]
       /\ quit = [sent |-> FALSE, rx |-> shown]
       /\ retry = [queue |-> 0, rx |-> shown /\ Sends]
  /\ left = cmd.idle
  /\ hist = [ends |-> << >>, order |-> "kept", keys |-> 0,
             gap |-> 0, tick |-> "quiet", inbox |-> "fresh"]

-------------------------------------------------------------------------------
(* The fanout and the interface. *)

\* Mutant of IsActivity: progress is none.
IsActivityButProgress(e) ==
  \/ e.type = "TransferStarted"
  \/ /\ e.type = "StageChanged"
     /\ e.stage \in {"ReceivingManifest", "Transferring", "Verifying", "Complete", "Failed"}

\* is_recv_activity_event.
IsActivity(e) ==
  \/ e.type \in {"TransferStarted", "Progress"}
  \/ /\ e.type = "StageChanged"
     /\ e.stage \in {"ReceivingManifest", "Transferring", "Verifying", "Complete", "Failed"}

\* What the interface's channel holds after a send to it.
Sent(events) == IF ui.pc = "on" THEN ui.queue \o events ELSE << >>

\* spawn_event_fanout, one event.
Fanout ==
  /\ net # << >>
  /\ net' = Tail(net)
  /\ activity' = IF IsActivity(Head(net)) THEN activity + 1 ELSE activity
  /\ ui' = [ui EXCEPT !.queue = Sent(<<Head(net)>>)]
  /\ UNCHANGED <<cmd, main, path, quit, retry, left, hist>>

\* run_dashboard ends: its end of the channels is dropped.
UiOver(pc) == [pc |-> pc, dash |-> NewDashboard, queue |-> << >>]

\* run_dashboard, an event.
UiEvent ==
  /\ ui.pc = "on" /\ ui.queue # << >>
  /\ LET e == Head(ui.queue)
         next == [ui EXCEPT !.dash = ApplyEvent(@, e), !.queue = Tail(@)]
     IN  ui' = IF ShouldExit(Sends, e) THEN UiOver("closed") ELSE next
  /\ UNCHANGED <<cmd, main, path, net, activity, quit, retry, left, hist>>

\* Mutant of QuitKey: the interface closes and tells nobody.
QuitKeySilent ==
  /\ ui.pc = "on"
  /\ ui' = UiOver("quit")
  /\ UNCHANGED <<cmd, main, path, net, activity, quit, retry, left, hist>>

\* run_dashboard, q, Esc or Ctrl-C.
QuitKey ==
  /\ ui.pc = "on"
  /\ ui' = UiOver("quit")
  /\ quit' = [quit EXCEPT !.sent = TRUE]
  /\ UNCHANGED <<cmd, main, path, net, activity, retry, left, hist>>

\* run_dashboard, r.
RetryKey ==
  /\ ui.pc = "on" /\ RetryAvailable(Sends, ui.dash)
  /\ hist.keys < MaxRounds - 1
  /\ hist' = [hist EXCEPT !.keys = @ + 1]
  /\ retry' = [retry EXCEPT !.queue = @ + 1]
  /\ UNCHANGED <<cmd, main, path, net, activity, ui, quit, left>>

\* run_dashboard returns an error: the terminal cannot be read or drawn on.
TerminalFails ==
  /\ "terminal" \in Faults /\ ui.pc = "on"
  /\ ui' = UiOver("broken")
  /\ UNCHANGED <<cmd, main, path, net, activity, quit, retry, left, hist>>

-------------------------------------------------------------------------------
(* wait_for_quit on quit_rx: TRUE when q was pressed, FALSE when the
   interface is gone without. *)

Quits == quit.rx /\ quit.sent

QuitClosed == quit.rx /\ ~quit.sent /\ ui.pc # "on"

\* The states in which main listens to quit_rx with nothing but to give up or
\* go on: wait_with_quit, wait_for_recv_activity, named_send_attempt.  The
\* delay between two attempts of a named send does not listen.
ListensToQuit ==
  \/ main.pc \in {"starting", "waiting", "trying"}
  \/ main.pc = "delay" /\ cmd.name = "direct"

\* Unpacking is a call without an await: it holds main.
Blocked == \E p \in Path : path[p] = "unpacking"

\* Mutant of Finish: the senders are dropped, which the log layer's clone of
\* the interface's sender outlives.
FinishSilently(result, events) ==
  /\ main' = [main EXCEPT !.pc = "finishing", !.result = result, !.todo = << >>]
  /\ path' = [p \in Path |-> "waiting"]
  /\ net' = net \o events

\* The end of recv, up to where finish_recv waits for the other tasks.
Finish(result, events) ==
  /\ main' = [main EXCEPT !.pc = "finishing", !.result = result, !.todo = << >>]
  /\ path' = [p \in Path |-> "waiting"]
  /\ net' = net \o Append(events, Shutdown)

StopOnQuit ==
  /\ ListensToQuit /\ Quits /\ ~Blocked
  /\ IF Sends
     THEN /\ main' = [main EXCEPT !.pc = "joining", !.result = "quit"]
          /\ UNCHANGED <<path, net>>
     ELSE Finish("quit", << >>)
  /\ UNCHANGED <<cmd, activity, ui, quit, retry, left, hist>>

DropQuit ==
  /\ ListensToQuit /\ QuitClosed /\ ~Blocked
  /\ quit' = [quit EXCEPT !.rx = FALSE]
  /\ UNCHANGED <<cmd, main, path, net, activity, ui, retry, left, hist>>

-------------------------------------------------------------------------------
(* recv: the services. *)

\* The next service runs, or recv does without it; after the last one the
\* first round begins.
ServiceDone ==
  /\ main.pc = "starting"
  /\ IF main.todo = << >>
     THEN main' = [main EXCEPT !.pc = "waiting"] /\ left' = cmd.idle
     ELSE main' = [main EXCEPT !.todo = Tail(@)] /\ UNCHANGED left
  /\ UNCHANGED <<cmd, path, net, activity, ui, quit, retry, hist>>

\* The tunnel's error ends recv at once, that of a required Tor after
\* finish_recv.
ServiceFails ==
  /\ main.pc = "starting" /\ main.todo # << >>
  /\ \/ /\ Head(main.todo) = "tunnel"
        /\ main' = [main EXCEPT !.pc = "ended", !.result = "error"]
        /\ UNCHANGED <<path, net>>
     \/ /\ Head(main.todo) = "required tor"
        /\ Finish("error", << >>)
  /\ UNCHANGED <<cmd, activity, ui, quit, retry, left, hist>>

-------------------------------------------------------------------------------
(* recv: the sessions of a round's paths, polled by main. *)

Polled == main.pc = "waiting" /\ ~Blocked

Backlog == Len(net) + Len(ui.queue) + activity

\* A session in state `from` emits events and goes on in state `to`.
PathStep(p, from, to, events) ==
  /\ Polled /\ path[p] = from /\ Backlog <= MaxBacklog
  /\ path' = [path EXCEPT ![p] = to]
  /\ net' = net \o events
  /\ UNCHANGED <<cmd, main, activity, ui, quit, retry, left>>

Acts(h) == [h EXCEPT !.tick = "active"]

\* The transfer of the session ends like this.  Each session's transfer is the
\* last one begun, unless transfers overlap.
Ends(h, how) == [h EXCEPT !.ends[Len(h.ends)] = how, !.tick = "active"]

OtherOpen(p) == \E q \in Path \ {p} : Open(q)

\* The order of the events after one of session p.
Order(p) == IF OtherOpen(p) THEN "mixed" ELSE hist.order

\* On the libp2p path a sender may also come where another was and went away
\* in the middle of its session, of which nothing more is heard.
Start(p) ==
  /\ Len(hist.ends) < MaxStarts
  /\ p \in {"direct"} \cup cmd.peers
  /\ path[p] \in (IF p = "direct" THEN {"waiting"} ELSE {"waiting", "started", "receiving"})
  /\ PathStep(p, path[p], "started",
       <<TransferStarted(Len(hist.ends) + 1), StageChanged("Authenticating")>>)
  /\ hist' = Acts([hist EXCEPT !.ends = Append(@, "open"), !.order = Order(p)])

Header(p) ==
  /\ PathStep(p, "started", "receiving", <<StageChanged("ReceivingManifest")>>)
  /\ hist' = Acts(hist)

Chunk(p) ==
  /\ PathStep(p, "receiving", "receiving", <<Progress>>)
  /\ hist' = Acts(hist)

Verify(p) ==
  /\ PathStep(p, "receiving", "unpacking", <<StageChanged("Verifying")>>)
  /\ hist' = Acts(hist)

\* The direct path reports an error, of a connection or before one begins, and
\* goes on.
Fail ==
  LET p == "direct" IN
  /\ path[p] \in {"waiting", "started", "receiving"}
  /\ PathStep(p, path[p], "waiting", <<StageChanged("Failed")>>)
  /\ hist' = LET h == IF Open(p) THEN Ends(hist, "Failed") ELSE Acts(hist)
             IN  [h EXCEPT !.order = Order(p)]

\* InboundFailure on the libp2p path, of whichever request.  The session stays:
\* its sender goes on, or nothing more is heard of it.  Once the response to Done
\* has failed, the result is never returned.
RequestFails(p) ==
  /\ p \in Peers /\ path[p] \in {"waiting", "started", "receiving", "answering"}
  /\ \E to \in {path[p], "waiting"} :
       /\ PathStep(p, path[p], to, <<StageChanged("Failed")>>)
       /\ hist' = LET fails == path[p] \in {"started", "receiving"}
                      h == IF fails THEN Ends(hist, "Failed") ELSE Acts(hist)
                  IN  [h EXCEPT !.order = IF fails /\ to # "waiting" THEN "mixed" ELSE Order(p)]

\* The archive is unpacked, or refused.
Unpacked(p) ==
  /\ main.pc = "waiting" /\ path[p] = "unpacking"
  /\ \/ /\ path' = [path EXCEPT ![p] = "waiting"]
        /\ net' = Append(net, StageChanged("Failed"))
        /\ hist' = [Ends(hist, "Failed") EXCEPT !.order = Order(p)]
        /\ UNCHANGED left
     \/ /\ p \in Peers
        /\ path' = [path EXCEPT ![p] = "answering"]
        /\ net' = Append(net, StageChanged("Complete"))
        /\ hist' = Ends(hist, "Complete")
        /\ UNCHANGED left
     \/ /\ p = "direct"
        /\ path' = [q \in Path |-> "waiting"]
        /\ net' = net \o <<StageChanged("Complete"), StageChanged("Discovering")>>
        /\ left' = cmd.idle
        /\ hist' = Ends(hist, "Complete")
  /\ UNCHANGED <<cmd, main, activity, ui, quit, retry>>

\* The response is out: the round is over and all paths begin anew.
Answered(p) ==
  /\ Polled /\ p \in Peers /\ path[p] = "answering"
  /\ path' = [q \in Path |-> "waiting"]
  /\ net' = net \o <<StageChanged("Complete"), StageChanged("Discovering")>>
  /\ left' = cmd.idle
  /\ hist' = Acts(hist)
  /\ UNCHANGED <<cmd, main, activity, ui, quit, retry>>

\* wait_for_receiver: a path returns an error, its sessions with it; recv does
\* when it is the last.
PathStops(route) ==
  /\ Polled /\ \A p \in route : path[p] # "stopped"
  /\ IF \A q \in Path \ route : path[q] = "stopped"
     THEN Finish("error", <<StageChanged("Failed")>>)
     ELSE /\ path' = [p \in Path |-> IF p \in route THEN "stopped" ELSE path[p]]
          /\ UNCHANGED <<main, net>>
  /\ hist' = [hist EXCEPT !.order = IF \E p \in route : Open(p) THEN "mixed" ELSE @]
  /\ UNCHANGED <<cmd, activity, ui, quit, retry, left>>

-------------------------------------------------------------------------------
(* recv: wait_for_recv_activity.  select! has no order: of an activity message
   and a deadline that is due, either may be taken. *)

TakeActivity ==
  /\ Polled /\ activity > 0
  /\ activity' = activity - 1
  /\ left' = cmd.idle
  /\ hist' = [hist EXCEPT !.inbox = "fresh"]
  /\ UNCHANGED <<cmd, main, path, net, ui, quit, retry>>

IdleTimeout ==
  /\ Polled /\ cmd.idle > 0 /\ left = 0
  /\ Finish("idle", <<Shutdown>>)
  /\ UNCHANGED <<cmd, activity, ui, quit, retry, left, hist>>

\* finish_recv: the fanout has nothing left, the interface is closed.
Finished ==
  /\ main.pc = "finishing" /\ net = << >> /\ ui.pc # "on"
  /\ main' = [main EXCEPT !.pc = "ended"]
  /\ UNCHANGED <<cmd, path, net, activity, ui, quit, retry, left, hist>>

Tick ==
  /\ main.pc = "waiting" /\ left > 0
  /\ net = << >>
  /\ activity > 0 => Blocked
  /\ left' = left - 1
  /\ hist' = [hist EXCEPT !.gap = IF hist.tick = "active" THEN 1
                                  ELSE IF @ < cmd.idle THEN @ + 1 ELSE @,
                          !.tick = "quiet",
                          !.inbox = IF activity > 0 THEN "late" ELSE "fresh"]
  /\ UNCHANGED <<cmd, main, path, net, activity, ui, quit, retry>>

-------------------------------------------------------------------------------
(* send: rounds of attempts.  A sender's events go to the interface directly. *)

Emit(events) == ui' = [ui EXCEPT !.queue = Sent(events)]

SendRests == UNCHANGED <<cmd, path, net, activity, left>>

\* The round fails: without an interface the command does, with one it asks.
RoundFails ==
  IF ui.pc = "none"
  THEN /\ main' = [main EXCEPT !.pc = "ended", !.result = "error"]
       /\ UNCHANGED ui
  ELSE /\ main' = [main EXCEPT !.pc = "asking"]
       /\ Emit(<<StageChanged("Failed")>>)

\* create_archive.
Build ==
  /\ main.pc = "building"
  /\ \/ RoundFails
     \/ /\ main' = [main EXCEPT !.pc = "trying", !.attempt = 1]
        /\ Emit(<<StageChanged("Connecting")>>)
  /\ SendRests /\ UNCHANGED <<quit, retry, hist>>

\* A route of the attempt gets through to the receiver.  All attempts of a
\* round, and all routes of an attempt, are the same transfer.
StartSending ==
  /\ main.pc = "trying" /\ Len(hist.ends) < MaxStarts
  /\ Emit(<<StageChanged("Authenticating"), TransferStarted(main.round),
            StageChanged("Transferring")>>)
  /\ hist' = [hist EXCEPT !.ends = Append(@, "open")]
  /\ SendRests /\ UNCHANGED <<main, quit, retry>>

\* Every route says Complete last, then the command waits for the interface.
AttemptSucceeds ==
  /\ main.pc = "trying"
  /\ main' = [main EXCEPT !.pc = "joining", !.result = "ok"]
  /\ Emit(<<StageChanged("Complete")>>)
  /\ SendRests /\ UNCHANGED <<quit, retry, hist>>

\* is_fatal_error, or the last attempt.
AttemptFails(fatal) ==
  /\ main.pc = "trying"
  /\ IF fatal \/ main.attempt = RetryAttempts
     THEN RoundFails
     ELSE main' = [main EXCEPT !.pc = "delay"] /\ UNCHANGED ui
  /\ SendRests /\ UNCHANGED <<quit, retry, hist>>

\* retry_delay is over.
NextAttempt ==
  /\ main.pc = "delay"
  /\ main' = [main EXCEPT !.pc = "trying", !.attempt = @ + 1]
  /\ Emit(<<StageChanged("Connecting")>>)
  /\ SendRests /\ UNCHANGED <<quit, retry, hist>>

\* The loop of send_direct_mode and send_named_mode goes around: r keys of
\* the past do not count, unless the interface has yet to see Discovering.
NextRound ==
  /\ main.round < MaxRounds
  /\ main' = [main EXCEPT !.pc = "building", !.attempt = 0, !.round = @ + 1]
  /\ Emit(<<StageChanged("Discovering")>>)
  /\ retry' = [retry EXCEPT !.queue = 0]

GiveUp == main' = [main EXCEPT !.pc = "joining", !.result = "error"]

\* wait_for_retry_or_quit.
AskQuit ==
  /\ main.pc = "asking"
  /\ \/ Quits /\ GiveUp /\ UNCHANGED quit
     \/ QuitClosed /\ quit' = [quit EXCEPT !.rx = FALSE] /\ UNCHANGED main
  /\ SendRests /\ UNCHANGED <<ui, retry, hist>>

AskRetry ==
  /\ main.pc = "asking" /\ retry.rx /\ retry.queue > 0
  /\ NextRound
  /\ SendRests /\ UNCHANGED <<quit, hist>>

RetryClosed == retry.rx /\ retry.queue = 0 /\ ui.pc # "on"

\* Mutant of AskClosed: a channel that is closed counts as the r key.
AskClosedRetries ==
  /\ main.pc = "asking" /\ RetryClosed
  /\ NextRound
  /\ SendRests /\ UNCHANGED <<quit, hist>>

\* The r key's channel is closed: the end, if the q key's is known to be.
AskClosed ==
  /\ main.pc = "asking" /\ RetryClosed
  /\ retry' = [retry EXCEPT !.rx = FALSE]
  /\ IF quit.rx THEN UNCHANGED main ELSE GiveUp
  /\ SendRests /\ UNCHANGED <<ui, quit, hist>>

\* The command waits for the interface's task.
Joined ==
  /\ main.pc = "joining" /\ ui.pc # "on"
  /\ main' = [main EXCEPT !.pc = "ended"]
  /\ SendRests /\ UNCHANGED <<ui, quit, retry, hist>>

-------------------------------------------------------------------------------
Ui == UiEvent \/ QuitKey \/ RetryKey \/ TerminalFails

Recv ==
  \/ ServiceDone \/ ServiceFails
  \/ \E p \in Path : \/ Start(p) \/ Header(p) \/ Chunk(p) \/ Verify(p)
                     \/ RequestFails(p) \/ Unpacked(p) \/ Answered(p)
  \/ Fail \/ \E route \in Routes : PathStops(route)
  \/ TakeActivity \/ IdleTimeout \/ Finished

Send ==
  \/ Build \/ StartSending \/ AttemptSucceeds \/ NextAttempt
  \/ \E fatal \in BOOLEAN : AttemptFails(fatal)
  \/ AskQuit \/ AskRetry \/ AskClosed \/ Joined

\* Main waits for a user who is still there, or has come to its end.
Rests ==
  \/ main.pc = "ended"
  \/ main.pc = "asking" /\ ~quit.rx /\ ~retry.rx

Next ==
  \/ Fanout \/ Ui \/ StopOnQuit \/ DropQuit \/ Tick \/ Recv \/ Send
  \/ Rests /\ UNCHANGED vars

\* Tasks that are ready run, and time passes.  The user presses no key and no
\* peer shows up unless they like to.  An attempt ends (DirectTransfer and
\* NamedTransfer say why), a service starts or gives up.
Fairness ==
  /\ WF_vars(Fanout) /\ WF_vars(UiEvent) /\ WF_vars(Tick)
  /\ WF_vars(StopOnQuit) /\ WF_vars(DropQuit)
  /\ WF_vars(ServiceDone) /\ WF_vars(\E p \in Path : Unpacked(p))
  /\ WF_vars(TakeActivity) /\ WF_vars(IdleTimeout) /\ WF_vars(Finished)
  /\ WF_vars(Build) /\ WF_vars(NextAttempt) /\ WF_vars(AttemptFails(FALSE))
  /\ WF_vars(AskQuit) /\ WF_vars(AskRetry) /\ WF_vars(AskClosed) /\ WF_vars(Joined)

Spec == Init /\ [][Next]_vars /\ Fairness

-------------------------------------------------------------------------------
(* Properties. *)

\* The receiver gives up for being idle (IdleTimeout of wait_for_recv_activity)
\* only when no transfer showed activity for that long, or when unpacking kept
\* main from the activity channel beyond the deadline.
IdleMeansQuiet ==
  main.result = "idle" => hist.gap = cmd.idle \/ hist.inbox = "late"

\* Once the interface has seen all events, its table shows the transfers of
\* the receiver, the latest MaxRows of them, and as complete (or failed) those
\* that were, unless events of two sessions came in between each other, on two
\* paths or on the libp2p path, or a transfer went on after a request of it had
\* been reported as failed (Dashboard::apply_event: stages do not say whose
\* they are).
DashboardAgrees ==
  LET rows == ui.dash.rows
      dropped == Len(hist.ends) - Len(rows)
  IN  ~Sends /\ ui.pc = "on" /\ net = << >> /\ ui.queue = << >> /\ hist.order = "kept"
      => /\ dropped = IF Len(hist.ends) > MaxRows THEN Len(hist.ends) - MaxRows ELSE 0
         /\ \A i \in DOMAIN rows :
              /\ rows[i].id = dropped + i
              /\ IF hist.ends[rows[i].id] = "open" THEN rows[i].stage \notin Final
                 ELSE rows[i].stage = hist.ends[rows[i].id]

\* The user is asked before a send is repeated: there are no more rounds than
\* r keys that asked for them (wait_for_retry_or_quit, drain_retry_signals).
RoundsNeedKeys == main.round <= 1 + hist.keys

\* A receiver with an idle timeout stops, whatever happens to its interface,
\* unless transfers keep showing activity.
IdleReceiverStops ==
  ~Sends /\ cmd.idle > 0
  => []<>(main.pc = "waiting" /\ hist.tick = "active") \/ <>(main.pc = "ended")

\* A send comes to an end, or waits for a key of a user whose interface still
\* runs, or lost its interface to an error of the terminal while it was asking
\* (then wait_for_retry_or_quit may wait for two channels it has given up).
SendReturns ==
  Sends => <>[](\/ main.pc = "ended"
                \/ main.pc = "asking" /\ ui.pc \in {"on", "broken"})

\* The q key ends both commands (wait_for_quit, wherever main is).
QuitEnds == ui.pc = "quit" ~> main.pc = "ended"
===============================================================================
