----------------------------- MODULE ConsoleProofs -----------------------------
(***************************************************************************)
(* Proofs about Console: a send is repeated only when the user asks for    *)
(* it, a receiver gives up for being idle only when it was, or when        *)
(* unpacking kept it from hearing of the activity, and the interface's     *)
(* table shows the transfers as they went.                                 *)
(*                                                                         *)
(* All three follow from invariants that account for what is on its way in *)
(* the channels: r keys that wait in the retry channel have been counted,  *)
(* activity since the deadline was last moved is still an event for the    *)
(* fanout or a message for main, and the events that the interface has yet *)
(* to see lead it, one by one, to a table that agrees with the transfers.  *)
(***************************************************************************)
EXTENDS Console, SequenceTheorems, TLAPS

\* The types that matter here.
Service == {"tunnel", "tor", "required tor", "i2p"}

End == {"open", "Complete", "Failed"}

Pc == {"starting", "waiting", "finishing", "building", "trying", "delay", "asking", "joining",
       "ended"}

Result == {"none", "ok", "quit", "idle", "error"}

MainType ==
  [pc : Pc, todo : Seq(Service), result : Result,
   attempt : Nat,
   round : Nat]

HistType ==
  [ends : Seq(End), order : {"kept", "mixed"}, keys : Nat, gap : Nat,
   tick : {"quiet", "active"}, inbox : {"fresh", "late"}]

RetryType == [queue : Nat, rx : BOOLEAN]

Types ==
  /\ main \in MainType
  /\ hist \in HistType
  /\ retry \in RetryType

\* A round that has begun took an r key, and those still in the channel have
\* begun none.
KeysInv == Types /\ main.round + retry.queue <= 1 + hist.keys

\* Activity that main has not heard of.
Pending == activity > 0 \/ \E i \in 1..Len(net) : IsActivity(net[i])

\* While the receiver waits, the deadline is no nearer than the last activity
\* is far, but for activity that is on its way; or a message waited while main
\* was blocked.
WaitInv ==
  \/ hist.inbox = "late" /\ activity > 0
  \/ /\ cmd.idle <= hist.gap + left
     /\ hist.tick = "active" => left = cmd.idle \/ Pending

IdleInv ==
  /\ Types
  /\ cmd.idle \in Nat
  /\ left \in 0..cmd.idle
  /\ hist.gap \in 0..cmd.idle
  /\ activity \in Nat
  /\ net \in Seq(Event)
  /\ main.pc = "waiting" => WaitInv
  /\ main.result = "idle" =>
       main.pc \in {"finishing", "ended"} /\ (hist.gap = cmd.idle \/ hist.inbox = "late")

-------------------------------------------------------------------------------
(* What the steps do to the records. *)

\* main with some of its fields replaced.
At(m, pc) == [m EXCEPT !.pc = pc]
With(m, pc, result) == [m EXCEPT !.pc = pc, !.result = result]
Tries(m, pc, n) == [m EXCEPT !.pc = pc, !.attempt = n]
Again(m, pc, n, k) == [m EXCEPT !.pc = pc, !.attempt = n, !.round = k]
Over(m, pc, result) == [m EXCEPT !.pc = pc, !.result = result, !.todo = << >>]
NextService(m) == [m EXCEPT !.todo = Tail(m.todo)]

\* main goes to another place.
LEMMA MainAt ==
  ASSUME NEW m \in MainType, NEW pc \in Pc
  PROVE  /\ At(m, pc) \in MainType
         /\ At(m, pc).round = m.round
         /\ At(m, pc).pc = pc
         /\ At(m, pc).result = m.result
  BY DEF MainType, At

\* ... with a result.
LEMMA MainWith ==
  ASSUME NEW m \in MainType, NEW pc \in Pc, NEW result \in Result
  PROVE  /\ With(m, pc, result) \in MainType
         /\ With(m, pc, result).round = m.round
         /\ With(m, pc, result).pc = pc
         /\ With(m, pc, result).result = result
  BY DEF MainType, With

\* ... with nothing left to do.
LEMMA MainOver ==
  ASSUME NEW m \in MainType, NEW pc \in Pc, NEW result \in Result
  PROVE  /\ Over(m, pc, result) \in MainType
         /\ Over(m, pc, result).round = m.round
         /\ Over(m, pc, result).pc = pc
         /\ Over(m, pc, result).result = result
<1>1. PICK todo \in Seq(Service) : todo = << >>
  <2>1. << >> \in Seq(Service)
    OBVIOUS
  <2> QED
    BY <2>1
<1>2. /\ [m EXCEPT !.pc = pc, !.result = result, !.todo = todo] \in MainType
      /\ [m EXCEPT !.pc = pc, !.result = result, !.todo = todo].round = m.round
      /\ [m EXCEPT !.pc = pc, !.result = result, !.todo = todo].pc = pc
      /\ [m EXCEPT !.pc = pc, !.result = result, !.todo = todo].result = result
  BY DEF MainType
<1> QED
  BY <1>1, <1>2 DEF Over

\* main goes on with the next service.
LEMMA MainNext ==
  ASSUME NEW m \in MainType, m.todo # << >>
  PROVE  /\ NextService(m) \in MainType
         /\ NextService(m).round = m.round
         /\ NextService(m).pc = m.pc
         /\ NextService(m).result = m.result
<1>1. PICK todo \in Seq(Service) : todo = Tail(m.todo)
  <2>1. m.todo \in Seq(Service)
    BY DEF MainType
  <2>2. Tail(m.todo) \in Seq(Service)
    BY <2>1
  <2> QED
    BY <2>2
<1>2. /\ [m EXCEPT !.todo = todo] \in MainType
      /\ [m EXCEPT !.todo = todo].round = m.round
      /\ [m EXCEPT !.todo = todo].pc = m.pc
      /\ [m EXCEPT !.todo = todo].result = m.result
  BY DEF MainType
<1> QED
  BY <1>1, <1>2 DEF NextService

\* Activity in the history.
LEMMA HistActs ==
  ASSUME NEW h \in HistType
  PROVE  /\ Acts(h) \in HistType
         /\ Acts(h).keys = h.keys /\ Acts(h).gap = h.gap /\ Acts(h).inbox = h.inbox
         /\ Acts(h).tick = "active"
  BY DEF Acts, HistType

\* The end of a transfer in the history.
LEMMA HistEnds ==
  ASSUME NEW h \in HistType, NEW how \in End
  PROVE  /\ Ends(h, how) \in HistType
         /\ Ends(h, how).keys = h.keys /\ Ends(h, how).gap = h.gap
         /\ Ends(h, how).inbox = h.inbox /\ Ends(h, how).tick = "active"
<1>1. h.ends \in Seq(End)
  BY DEF HistType
<1>2. [h.ends EXCEPT ![Len(h.ends)] = how] \in Seq(End)
  <2>1. CASE h.ends = << >>
    <3>1. [h.ends EXCEPT ![Len(h.ends)] = how] = << >>
      BY <2>1
    <3> QED
      BY <1>1, <2>1, <3>1
  <2>2. CASE h.ends # << >>
    <3>1. Len(h.ends) \in 1..Len(h.ends)
      BY <1>1, <2>2
    <3> QED
      BY <1>1, <3>1, ExceptSeq
  <2> QED
    BY <2>1, <2>2
<1>3. PICK ends \in Seq(End) : ends = [h.ends EXCEPT ![Len(h.ends)] = how]
  BY <1>2
<1>4. Ends(h, how) = [h EXCEPT !.ends = ends, !.tick = "active"]
  BY <1>3 DEF Ends
<1> QED
  BY <1>4 DEF HistType

\* Transfers that overlap in the history.
LEMMA HistOrder ==
  ASSUME NEW h \in HistType, NEW o \in {"kept", "mixed"}
  PROVE  /\ [h EXCEPT !.order = o] \in HistType
         /\ [h EXCEPT !.order = o].keys = h.keys /\ [h EXCEPT !.order = o].gap = h.gap
         /\ [h EXCEPT !.order = o].inbox = h.inbox /\ [h EXCEPT !.order = o].tick = h.tick
  BY DEF HistType

-------------------------------------------------------------------------------
(* Rounds and keys. *)

\* What a step does to the counts: nothing, an r key, or a round that takes
\* the keys there are.
Counted ==
  \/ main'.round = main.round /\ retry'.queue = retry.queue /\ hist'.keys = hist.keys
  \/ main'.round = main.round /\ retry'.queue = retry.queue + 1 /\ hist'.keys = hist.keys + 1
  \/ /\ main'.round = main.round + 1 /\ retry.queue > 0 /\ retry'.queue = 0
     /\ hist'.keys = hist.keys

\* The interface, and what main hears of it.
LEMMA UiTypes ==
  ASSUME Types, Fanout \/ Ui \/ StopOnQuit \/ DropQuit \/ Tick
  PROVE  Types' /\ Counted
<1>1. CASE Fanout \/ UiEvent \/ QuitKey \/ TerminalFails \/ DropQuit
  BY <1>1 DEF Fanout, UiEvent, QuitKey, TerminalFails, DropQuit, Types, Counted
<1>2. CASE RetryKey
  <2>1. PICK keys \in Nat, queue \in Nat : keys = hist.keys + 1 /\ queue = retry.queue + 1
    BY DEF Types, HistType, RetryType
  <2>2. hist' = [hist EXCEPT !.keys = keys] /\ retry' = [retry EXCEPT !.queue = queue]
        /\ main' = main
    BY <1>2, <2>1 DEF RetryKey
  <2>3. hist' \in HistType /\ hist'.keys = keys
    BY <2>2 DEF Types, HistType
  <2>4. retry' \in RetryType /\ retry'.queue = queue
    BY <2>2 DEF Types, RetryType
  <2> QED
    BY <2>1, <2>2, <2>3, <2>4 DEF Types, Counted
<1>3. CASE StopOnQuit
  <2>1. main' \in MainType /\ main'.round = main.round
    <3>1. main \in MainType /\ {"joining", "finishing"} \subseteq Pc /\ "quit" \in Result
      BY DEF Types, Pc, Result
    <3>2. \/ main' = With(main, "joining", "quit")
          \/ main' = Over(main, "finishing", "quit")
      BY <1>3 DEF StopOnQuit, Finish, With, Over
    <3> QED
      BY <3>1, <3>2, MainWith, MainOver
  <2>2. retry' = retry /\ hist' = hist
    BY <1>3 DEF StopOnQuit
  <2> QED
    BY <2>1, <2>2 DEF Types, Counted
<1>4. CASE Tick
  <2>1. PICK gap \in Nat :
          gap = IF hist.tick = "active" THEN 1
                ELSE IF hist.gap < cmd.idle THEN hist.gap + 1 ELSE hist.gap
    BY DEF Types, HistType
  <2>2. PICK inbox \in {"late", "fresh"} : inbox = IF activity > 0 THEN "late" ELSE "fresh"
    OBVIOUS
  <2>3. hist' = [hist EXCEPT !.gap = gap, !.tick = "quiet", !.inbox = inbox]
        /\ main' = main /\ retry' = retry
    BY <1>4, <2>1, <2>2 DEF Tick
  <2>4. hist' \in HistType /\ hist'.keys = hist.keys
    BY <2>3 DEF Types, HistType
  <2> QED
    BY <2>3, <2>4 DEF Types, Counted
<1> QED
  BY <1>1, <1>2, <1>3, <1>4 DEF Ui

\* The receiver.
LEMMA RecvTypes ==
  ASSUME Types, Recv
  PROVE  Types' /\ Counted
<1>1. retry' = retry
  BY DEF Recv, ServiceDone, ServiceFails, Start, Header, Chunk, Verify, Fail, RequestFails, PathStep,
     Unpacked, PathStops, Answered, TakeActivity, IdleTimeout, Finished
<1>2. CASE ServiceDone \/ ServiceFails \/ IdleTimeout \/ Finished
  <2>1. main' \in MainType /\ main'.round = main.round
    <3>1. /\ main \in MainType /\ {"waiting", "ended", "finishing"} \subseteq Pc
          /\ {"error", "idle"} \subseteq Result
      BY DEF Types, Pc, Result
    <3>2. \/ main.todo # << >> /\ main' = NextService(main)
          \/ \E pc \in {"waiting", "ended"} : main' = At(main, pc)
          \/ main' = With(main, "ended", "error")
          \/ \E result \in {"error", "idle"} :
               main' = Over(main, "finishing", result)
      BY <1>2 DEF ServiceDone, ServiceFails, IdleTimeout, Finished, Finish, At, With, Over,
         NextService
    <3>3. CASE main.todo # << >> /\ main' = NextService(main)
      BY <3>1, <3>3, MainNext
    <3>4. ASSUME NEW pc \in {"waiting", "ended"}, main' = At(main, pc)
          PROVE  main' \in MainType /\ main'.round = main.round
      BY <3>1, <3>4, MainAt
    <3>5. CASE main' = With(main, "ended", "error")
      <4>1. \A pc \in Pc, result \in Result :
              With(main, pc, result) \in MainType /\ With(main, pc, result).round = main.round
        BY <3>1, MainWith
      <4> QED
        BY <3>1, <3>5, <4>1
    <3>6. ASSUME NEW result \in {"error", "idle"},
                 main' = Over(main, "finishing", result)
          PROVE  main' \in MainType /\ main'.round = main.round
      BY <3>1, <3>6, MainOver
    <3> QED
      BY <3>2, <3>3, <3>4, <3>5, <3>6
  <2>2. hist' = hist
    BY <1>2 DEF ServiceDone, ServiceFails, IdleTimeout, Finished
  <2> QED
    BY <1>1, <2>1, <2>2 DEF Types, Counted
<1>3. CASE TakeActivity
  <2>1. hist' = [hist EXCEPT !.inbox = "fresh"] /\ main' = main
    BY <1>3 DEF TakeActivity
  <2>2. hist' \in HistType /\ hist'.keys = hist.keys
    BY <2>1 DEF Types, HistType
  <2> QED
    BY <1>1, <2>1, <2>2 DEF Types, Counted
<1>4. \A q : Order(q) \in {"kept", "mixed"}
  BY DEF Order, Types, HistType
<1>5. ASSUME NEW p \in Path,
             \/ Start(p) \/ Header(p) \/ Chunk(p) \/ Verify(p) \/ Fail \/ RequestFails(p)
             \/ Unpacked(p) \/ Answered(p)
      PROVE  Types' /\ Counted
  <2>1. CASE Start(p)
    <3>1. PICK ends \in Seq(End) : ends = Append(hist.ends, "open")
      <4>1. hist.ends \in Seq(End) /\ "open" \in End
        BY DEF Types, HistType, End
      <4>2. Append(hist.ends, "open") \in Seq(End)
        BY <4>1
      <4> QED
        BY <4>2
    <3>2. PICK h : h = [hist EXCEPT !.ends = ends, !.order = Order(p)]
      OBVIOUS
    <3>3. h \in HistType /\ h.keys = hist.keys
      BY <1>4, <3>2 DEF Types, HistType
    <3>4. hist' = Acts(h) /\ main' = main
      BY <2>1, <3>1, <3>2 DEF Start, PathStep
    <3> QED
      BY <1>1, <3>3, <3>4, HistActs, HistEnds, HistOrder DEF Types, Counted
  <2>2. CASE Header(p) \/ Chunk(p) \/ Verify(p) \/ Answered(p)
    <3>1. hist' = Acts(hist) /\ main' = main
      BY <2>2 DEF Header, Chunk, Verify, Answered, PathStep
    <3> QED
      BY <1>1, <3>1, HistActs, HistEnds, HistOrder DEF Types, Counted
  <2>3. CASE Fail \/ RequestFails(p)
    <3>1. PICK h \in {Ends(hist, "Failed"), Acts(hist)}, o \in {"kept", "mixed"} :
            hist' = [h EXCEPT !.order = o]
      BY <1>4, <2>3 DEF Fail, RequestFails
    <3>2. h \in HistType /\ h.keys = hist.keys
      BY <3>1, HistActs, HistEnds, HistOrder DEF Types, End
    <3>3. main' = main
      BY <2>3 DEF Fail, RequestFails, PathStep
    <3> QED
      BY <1>1, <3>1, <3>2, <3>3, HistActs, HistEnds, HistOrder DEF Types, Counted
  <2>4. CASE Unpacked(p)
    <3>1. \/ hist' = [Ends(hist, "Failed") EXCEPT !.order = Order(p)]
          \/ hist' = Ends(hist, "Complete")
      BY <2>4 DEF Unpacked
    <3>2. hist' \in HistType /\ hist'.keys = hist.keys
      <4>1. hist \in HistType /\ {"Failed", "Complete"} \subseteq End
        BY DEF Types, End
      <4>2. \A how \in {"Failed", "Complete"} :
              Ends(hist, how) \in HistType /\ Ends(hist, how).keys = hist.keys
        BY <4>1, HistEnds
      <4>3. ASSUME NEW o \in {"kept", "mixed"}
            PROVE  /\ [Ends(hist, "Failed") EXCEPT !.order = o] \in HistType
                   /\ [Ends(hist, "Failed") EXCEPT !.order = o].keys = hist.keys
        BY <4>2, HistOrder
      <4> QED
        BY <1>4, <3>1, <4>2, <4>3
    <3>3. main' = main
      BY <2>4 DEF Unpacked
    <3> QED
      BY <1>1, <3>2, <3>3 DEF Types, Counted
  <2> QED
    BY <1>5, <2>1, <2>2, <2>3, <2>4
<1>6. ASSUME NEW route \in Routes, PathStops(route)
      PROVE  Types' /\ Counted
  <2>1. PICK o \in {"kept", "mixed"} : hist' = [hist EXCEPT !.order = o]
    BY <1>6 DEF PathStops, Types, HistType
  <2>2. hist' \in HistType /\ hist'.keys = hist.keys
    BY <2>1, HistActs, HistEnds, HistOrder DEF Types
  <2>3. main' \in MainType /\ main'.round = main.round
    <3>1. main \in MainType /\ "finishing" \in Pc /\ "error" \in Result
      BY DEF Types, Pc, Result
    <3>2. \/ main' = main
          \/ main' = Over(main, "finishing", "error")
      BY <1>6 DEF PathStops, Finish, Over
    <3> QED
      BY <3>1, <3>2, MainOver
  <2> QED
    BY <1>1, <2>2, <2>3 DEF Types, Counted
<1>7. \E p : p \in Path
  BY DEF Path
<1> QED
  BY <1>2, <1>3, <1>5, <1>6, <1>7 DEF Recv

\* The sender.
LEMMA SendTypes ==
  ASSUME Types, Send
  PROVE  Types' /\ Counted
<1>1. /\ main \in MainType /\ hist \in HistType /\ retry \in RetryType
      /\ main.attempt \in Nat /\ main.round \in Nat
      /\ {"ended", "asking", "trying", "joining", "delay", "building"} \subseteq Pc
      /\ {"error", "ok"} \subseteq Result
  BY DEF Types, MainType, Pc, Result
<1>2. ASSUME \/ \E pc \in Pc : main' = At(main, pc)
             \/ \E pc \in Pc, result \in Result : main' = With(main, pc, result)
             \/ \E pc \in Pc, n \in Nat : main' = Tries(main, pc, n)
             \/ main' = main
      PROVE  main' \in MainType /\ main'.round = main.round
  <2>1. \A pc \in Pc : At(main, pc) \in MainType /\ At(main, pc).round = main.round
    BY <1>1, MainAt
  <2>2. \A pc \in Pc, result \in Result :
          With(main, pc, result) \in MainType /\ With(main, pc, result).round = main.round
    BY <1>1, MainWith
  <2>3. \A pc \in Pc, n \in Nat :
          Tries(main, pc, n) \in MainType /\ Tries(main, pc, n).round = main.round
    BY <1>1 DEF Tries, MainType
  <2> QED
    BY <1>1, <1>2, <2>1, <2>2, <2>3
<1>3. CASE Build \/ AttemptSucceeds \/ (\E fatal \in BOOLEAN : AttemptFails(fatal)) \/ Joined
  <2>1. main' \in MainType /\ main'.round = main.round
    <3>1. CASE Build
      BY <1>1, <1>2, <3>1 DEF Build, RoundFails, With, At, Tries
    <3>2. CASE AttemptSucceeds \/ Joined
      BY <1>1, <1>2, <3>2 DEF AttemptSucceeds, Joined, With, At
    <3>3. ASSUME NEW fatal \in BOOLEAN, AttemptFails(fatal)
          PROVE  main' \in MainType /\ main'.round = main.round
      BY <1>1, <1>2, <3>3 DEF AttemptFails, RoundFails, At, With
    <3> QED
      BY <1>3, <3>1, <3>2, <3>3
  <2>2. retry' = retry /\ hist' = hist
    BY <1>3 DEF Build, AttemptSucceeds, AttemptFails, Joined
  <2> QED
    BY <1>1, <2>1, <2>2 DEF Types, Counted
<1>4. CASE NextAttempt
  <2>1. PICK n \in Nat : n = main.attempt + 1
    BY <1>1
  <2>2. main' = Tries(main, "trying", n) /\ retry' = retry /\ hist' = hist
    BY <1>4, <2>1 DEF NextAttempt, Tries
  <2>3. main' \in MainType /\ main'.round = main.round
    BY <1>1, <1>2, <2>2
  <2> QED
    BY <1>1, <2>2, <2>3 DEF Types, Counted
<1>5. CASE StartSending
  <2>1. PICK ends \in Seq(End) : ends = Append(hist.ends, "open")
    <3>1. hist.ends \in Seq(End) /\ "open" \in End
      BY DEF Types, HistType, End
    <3>2. Append(hist.ends, "open") \in Seq(End)
      BY <3>1
    <3> QED
      BY <3>2
  <2>2. hist' = [hist EXCEPT !.ends = ends] /\ main' = main /\ retry' = retry
    BY <1>5, <2>1 DEF StartSending
  <2>3. hist' \in HistType /\ hist'.keys = hist.keys
    BY <1>1, <2>2 DEF HistType
  <2> QED
    BY <1>1, <2>2, <2>3 DEF Types, Counted
<1>6. CASE AskQuit \/ AskClosed
  <2>1. main' \in MainType /\ main'.round = main.round
    BY <1>1, <1>2, <1>6 DEF AskQuit, AskClosed, GiveUp, With
  <2>2. hist' = hist /\ (retry' = retry \/ retry' = [retry EXCEPT !.rx = FALSE])
    BY <1>6 DEF AskQuit, AskClosed
  <2>3. retry' \in RetryType /\ retry'.queue = retry.queue
    BY <1>1, <2>2 DEF RetryType
  <2> QED
    BY <1>1, <2>1, <2>2, <2>3 DEF Types, Counted
<1>7. CASE AskRetry
  <2>1. PICK k \in Nat : k = main.round + 1
    BY <1>1
  <2>2. /\ main' = Again(main, "building", 0, k)
        /\ retry' = [retry EXCEPT !.queue = 0] /\ hist' = hist /\ retry.queue > 0
    BY <1>7, <2>1 DEF AskRetry, NextRound, Again
  <2>3. main' \in MainType /\ main'.round = k
    <3>1. \A pc \in Pc, n \in Nat :
            Again(main, pc, n, k) \in MainType /\ Again(main, pc, n, k).round = k
      BY <1>1 DEF Again, MainType
    <3> QED
      BY <1>1, <2>2, <3>1
  <2>4. retry' \in RetryType /\ retry'.queue = 0
    BY <1>1, <2>2 DEF RetryType
  <2> QED
    BY <1>1, <2>1, <2>2, <2>3, <2>4 DEF Types, Counted
<1> QED
  BY <1>3, <1>4, <1>5, <1>6, <1>7 DEF Send

\* Every step counts the keys.
LEMMA NextTypes ==
  ASSUME Types, [Next]_vars
  PROVE  Types' /\ Counted
<1>1. CASE UNCHANGED vars
  BY <1>1 DEF vars, Types, Counted
<1> QED
  BY <1>1, UiTypes, RecvTypes, SendTypes DEF Next

\* The first round, without a key.
LEMMA InitTypes ==
  ASSUME Init
  PROVE  /\ Types
         /\ main.round = 1 /\ hist.keys = 0 /\ retry.queue = 0
         /\ main.result = "none" /\ main.pc # "waiting" /\ hist.gap = 0
<1>1. PICK services \in Services :
        main = [pc |-> IF Sends THEN "building" ELSE "starting", todo |-> services,
                result |-> "none", attempt |-> 0, round |-> 1]
  BY DEF Init
<1>2. PICK pc \in {"building", "starting"} : pc = IF Sends THEN "building" ELSE "starting"
  OBVIOUS
<1>3. services \in Seq(Service)
  BY ConsoleAssumption DEF Service
<1>4. main \in MainType /\ main.round = 1 /\ main.result = "none" /\ main.pc # "waiting"
  BY <1>1, <1>2, <1>3 DEF MainType, Pc, Result
<1>5. hist \in HistType /\ hist.keys = 0 /\ hist.gap = 0
  <2>1. PICK ends \in Seq(End) : ends = << >>
    <3>1. << >> \in Seq(End)
      OBVIOUS
    <3> QED
      BY <3>1
  <2>2. hist = [ends |-> ends, order |-> "kept", keys |-> 0, gap |-> 0, tick |-> "quiet",
                inbox |-> "fresh"]
    BY <2>1 DEF Init
  <2> QED
    BY <2>2 DEF HistType
<1>6. retry \in RetryType /\ retry.queue = 0
  <2>1. PICK rx \in BOOLEAN : retry = [queue |-> 0, rx |-> rx]
    BY DEF Init
  <2> QED
    BY <2>1 DEF RetryType
<1> QED
  BY <1>4, <1>5, <1>6 DEF Types

\* The user is asked before a send is repeated: there are no more rounds than
\* r keys that asked for them.
THEOREM RoundsAreAskedFor == Spec => []RoundsNeedKeys
<1>1. Init => KeysInv
  <2> SUFFICES ASSUME Init PROVE KeysInv
    OBVIOUS
  <2>1. Types /\ main.round = 1 /\ hist.keys = 0 /\ retry.queue = 0
    BY InitTypes
  <2> QED
    BY <2>1 DEF KeysInv, Types
<1>2. KeysInv /\ [Next]_vars => KeysInv'
  <2> SUFFICES ASSUME KeysInv, [Next]_vars PROVE KeysInv'
    OBVIOUS
  <2>1. Types' /\ Counted
    BY NextTypes DEF KeysInv
  <2>2. /\ main.round \in Nat /\ retry.queue \in Nat /\ hist.keys \in Nat
        /\ main.round + retry.queue <= 1 + hist.keys
    BY DEF KeysInv, Types, MainType, RetryType, HistType
  <2>3. main'.round + retry'.queue <= 1 + hist'.keys
    BY <2>1, <2>2 DEF Counted
  <2> QED
    BY <2>1, <2>3 DEF KeysInv
<1>3. KeysInv => RoundsNeedKeys
  BY DEF KeysInv, Types, MainType, RetryType, HistType, RoundsNeedKeys
<1> QED
  BY <1>1, <1>2, <1>3, PTL DEF Spec

-------------------------------------------------------------------------------
(* The idle timeout. *)

\* The events of the paths, and which of them are activity.
LEMMA Events ==
  /\ Shutdown \in Event /\ Progress \in Event
  /\ \A s \in Stage : StageChanged(s) \in Event
  /\ \A i \in Nat : TransferStarted(i) \in Event /\ IsActivity(TransferStarted(i))
  /\ IsActivity(Progress)
  /\ \A s \in {"ReceivingManifest", "Verifying", "Complete", "Failed"} :
       s \in Stage /\ IsActivity(StageChanged(s))
  /\ "Authenticating" \in Stage /\ "Discovering" \in Stage
<1>1. Shutdown \in Event
  BY DEF Shutdown, Event
<1>2. Progress \in Event /\ IsActivity(Progress)
  BY DEF Progress, Event, IsActivity
<1>3. \A s \in Stage : StageChanged(s) \in Event
  BY DEF StageChanged, Event
<1>4. \A i \in Nat : TransferStarted(i) \in Event /\ IsActivity(TransferStarted(i))
  BY DEF TransferStarted, Event, IsActivity
<1>5. \A s \in {"ReceivingManifest", "Verifying", "Complete", "Failed"} :
        s \in Stage /\ IsActivity(StageChanged(s))
  BY DEF StageChanged, IsActivity, Stage
<1> QED
  BY <1>1, <1>2, <1>3, <1>4, <1>5 DEF Stage

\* Activity that is emitted is on its way, as is what was there before.
LEMMA Emitted ==
  ASSUME net \in Seq(Event), activity' = activity,
         NEW events \in Seq(Event), net' = net \o events
  PROVE  /\ net' \in Seq(Event)
         /\ Pending => Pending'
         /\ (\E i \in 1..Len(events) : IsActivity(events[i])) => Pending'
<1>1. PICK old : old = net
  OBVIOUS
<1>2. old \in Seq(Event) /\ Len(old) \in Nat
  BY <1>1
<1>3. \A i \in 1..Len(old) : i \in 1..Len(old \o events) /\ (old \o events)[i] = old[i]
  BY <1>2
<1>4. \A i \in 1..Len(events) :
        Len(old) + i \in 1..Len(old \o events) /\ (old \o events)[Len(old) + i] = events[i]
  BY <1>2
<1>5. old \o events \in Seq(Event)
  BY <1>2
<1> QED
  BY <1>1, <1>3, <1>4, <1>5 DEF Pending

\* Numbers and the channel.
IdleTypes ==
  /\ Types
  /\ cmd.idle \in Nat
  /\ left \in 0..cmd.idle
  /\ hist.gap \in 0..cmd.idle
  /\ activity \in Nat
  /\ net \in Seq(Event)

\* A step that only brings activity, of which main has yet to hear.
LEMMA ActivityRule ==
  ASSUME IdleInv, Types', main.pc = "waiting", main' = main, cmd' = cmd, activity' = activity,
         hist'.gap = hist.gap, hist'.inbox = hist.inbox,
         left' = left \/ left' = cmd.idle,
         NEW events \in Seq(Event), net' = net \o events,
         hist'.tick = hist.tick \/ left' = cmd.idle
           \/ \E i \in 1..Len(events) : IsActivity(events[i])
  PROVE  IdleInv'
<1>1. IdleTypes /\ WaitInv /\ main.result # "idle"
  BY DEF IdleInv, IdleTypes
<1>2. /\ net' \in Seq(Event)
      /\ Pending => Pending'
      /\ (\E i \in 1..Len(events) : IsActivity(events[i])) => Pending'
  BY <1>1, Emitted DEF IdleTypes
<1>3. left' \in 0..cmd.idle /\ left' >= left
  BY <1>1 DEF IdleTypes
<1>4. WaitInv'
  <2>1. CASE hist.inbox = "late" /\ activity > 0
    BY <2>1 DEF WaitInv
  <2>2. CASE /\ cmd.idle <= hist.gap + left
             /\ hist.tick = "active" => left = cmd.idle \/ Pending
    <3>1. cmd.idle <= hist.gap + left'
      BY <1>1, <1>3, <2>2 DEF IdleTypes
    <3>2. hist'.tick = "active" => left' = cmd.idle \/ Pending'
      BY <1>2, <2>2
    <3> QED
      BY <3>1, <3>2 DEF WaitInv
  <2> QED
    BY <1>1, <2>1, <2>2 DEF WaitInv
<1> QED
  BY <1>1, <1>2, <1>3, <1>4 DEF IdleInv, IdleTypes

\* A step that leaves these alone.
LEMMA IdleRest ==
  ASSUME IdleInv, Types', main' = main, cmd' = cmd, activity' = activity, net' = net,
         left' = left, hist'.gap = hist.gap, hist'.inbox = hist.inbox, hist'.tick = hist.tick
  PROVE  IdleInv'
  BY DEF IdleInv, WaitInv, Pending

\* A step to where main neither waits nor has been idle.
LEMMA IdleOver ==
  ASSUME IdleInv, Types', main'.pc # "waiting", main'.result # "idle", cmd' = cmd,
         activity' = activity, left' = left, hist'.gap = hist.gap,
         NEW events \in Seq(Event), net' = net \o events
  PROVE  IdleInv'
<1>1. net' \in Seq(Event)
  BY Emitted DEF IdleInv
<1> QED
  BY <1>1 DEF IdleInv

\* The fanout turns the event of an activity into a message for main.
LEMMA FanoutIdle ==
  ASSUME IdleInv, Types', Fanout
  PROVE  IdleInv'
<1>1. PICK old : old = net
  OBVIOUS
<1>2. old \in Seq(Event) /\ old # << >> /\ activity \in Nat
  BY <1>1 DEF IdleInv, Fanout
<1>3. net' = Tail(old) /\ activity' \in Nat /\ activity' >= activity
      /\ (IsActivity(Head(old)) => activity' > 0)
  BY <1>1, <1>2 DEF Fanout
<1>4. net' \in Seq(Event)
  BY <1>2, <1>3
<1>5. ASSUME NEW i \in 1..Len(old), IsActivity(old[i])
      PROVE  Pending'
  <2>1. CASE i = 1
    <3>1. IsActivity(Head(old))
      BY <1>2, <1>5, <2>1
    <3> QED
      BY <1>3, <3>1 DEF Pending
  <2>2. CASE i # 1
    <3>1. i - 1 \in 1..Len(Tail(old)) /\ Tail(old)[i - 1] = old[i]
      BY <1>2, <2>2
    <3> QED
      BY <1>3, <1>5, <3>1 DEF Pending
  <2> QED
    BY <2>1, <2>2
<1>6. Pending => Pending'
  BY <1>1, <1>2, <1>3, <1>5 DEF Pending
<1>7. main' = main /\ cmd' = cmd /\ left' = left /\ hist' = hist
  BY DEF Fanout
<1>8. WaitInv => WaitInv'
  BY <1>2, <1>3, <1>6, <1>7 DEF WaitInv
<1> QED
  BY <1>3, <1>4, <1>7, <1>8 DEF IdleInv

\* A tick brings the deadline nearer and the last activity further away.
LEMMA TickIdle ==
  ASSUME IdleInv, Types', Tick
  PROVE  IdleInv'
<1>1. /\ hist \in HistType /\ cmd.idle \in Nat /\ left \in 1..cmd.idle /\ hist.gap \in 0..cmd.idle
      /\ activity \in Nat /\ net = << >> /\ net \in Seq(Event) /\ WaitInv /\ main.result # "idle"
  BY DEF IdleInv, Types, Tick
<1>2. main' = main /\ cmd' = cmd /\ activity' = activity /\ net' = net /\ left' = left - 1
  BY DEF Tick
<1>3. PICK gap :
        gap = IF hist.tick = "active" THEN 1
              ELSE IF hist.gap < cmd.idle THEN hist.gap + 1 ELSE hist.gap
  OBVIOUS
<1>4. PICK inbox : inbox = IF activity > 0 THEN "late" ELSE "fresh"
  OBVIOUS
<1>5. hist' = [hist EXCEPT !.gap = gap, !.tick = "quiet", !.inbox = inbox]
  BY <1>3, <1>4 DEF Tick
<1>6. hist'.gap = gap /\ hist'.tick = "quiet" /\ hist'.inbox = inbox
  BY <1>1, <1>5 DEF HistType
<1>7. gap \in 0..cmd.idle
  BY <1>1, <1>3
<1>8. left' \in 0..cmd.idle
  BY <1>1, <1>2
<1>9. WaitInv'
  <2>1. CASE activity > 0
    BY <1>2, <1>4, <1>6, <2>1 DEF WaitInv
  <2>2. CASE ~(activity > 0)
    <3>1. ~Pending
      <4>1. Len(net) = 0
        BY <1>1
      <4> QED
        BY <1>1, <2>2, <4>1 DEF Pending
    <3>2. cmd.idle <= hist.gap + left /\ (hist.tick = "active" => left = cmd.idle)
      BY <1>1, <2>2, <3>1 DEF WaitInv
    <3>3. cmd.idle <= gap + (left - 1)
      BY <1>1, <1>3, <3>2
    <3> QED
      BY <1>2, <1>6, <3>3 DEF WaitInv
  <2> QED
    BY <2>1, <2>2
<1> QED
  BY <1>1, <1>2, <1>6, <1>7, <1>8, <1>9 DEF IdleInv

\* The interface and the q key.
LEMMA UiIdle ==
  ASSUME IdleInv, Types', Fanout \/ Ui \/ StopOnQuit \/ DropQuit \/ Tick
  PROVE  IdleInv'
<1>1. hist \in HistType /\ main \in MainType
  BY DEF IdleInv, Types
<1>2. CASE UiEvent \/ QuitKey \/ TerminalFails \/ DropQuit
  BY <1>2, IdleRest DEF UiEvent, QuitKey, TerminalFails, DropQuit
<1>3. CASE RetryKey
  <2>1. PICK keys : hist' = [hist EXCEPT !.keys = keys]
    BY <1>3 DEF RetryKey
  <2>2. hist'.gap = hist.gap /\ hist'.inbox = hist.inbox /\ hist'.tick = hist.tick
    BY <1>1, <2>1 DEF HistType
  <2> QED
    BY <1>3, <2>2, IdleRest DEF RetryKey
<1>4. CASE StopOnQuit
  <2>1. cmd' = cmd /\ activity' = activity /\ left' = left /\ hist' = hist
    BY <1>4 DEF StopOnQuit
  <2>2. \/ main' = With(main, "joining", "quit") /\ net' = net
        \/ main' = Over(main, "finishing", "quit") /\ net' = net \o <<Shutdown>>
    <3>1. Append(<< >>, Shutdown) = <<Shutdown>>
      OBVIOUS
    <3> QED
      BY <1>4, <3>1 DEF StopOnQuit, Finish, With, Over
  <2>3. main'.pc # "waiting" /\ main'.result # "idle"
    <3>1. {"joining", "finishing"} \subseteq Pc /\ "quit" \in Result
      BY DEF Pc, Result
    <3> QED
      BY <1>1, <2>2, <3>1, MainWith, MainOver
  <2>4. <<Shutdown>> \in Seq(Event) /\ << >> \in Seq(Event)
    BY Events
  <2>5. net \o << >> = net
    BY ConcatEmptySeq DEF IdleInv
  <2> QED
    BY <2>1, <2>2, <2>3, <2>4, <2>5, IdleOver
<1> QED
  BY <1>2, <1>3, <1>4, FanoutIdle, TickIdle DEF Ui

\* A path, while main waits.
LEMMA PathIdle ==
  ASSUME IdleInv, Types', NEW p \in Path,
         \/ Start(p) \/ Header(p) \/ Chunk(p) \/ Verify(p) \/ Fail \/ RequestFails(p)
         \/ Unpacked(p) \/ Answered(p)
  PROVE  IdleInv'
<1>1. /\ hist \in HistType /\ hist' \in HistType /\ net \in Seq(Event)
      /\ \A q : Order(q) \in {"kept", "mixed"}
  BY DEF IdleInv, Types, Order, HistType
<1>2. main' = main /\ cmd' = cmd /\ activity' = activity /\ main.pc = "waiting"
      /\ (left' = left \/ left' = cmd.idle)
  BY DEF Start, Header, Chunk, Verify, Fail, RequestFails, PathStep, Unpacked, Answered, Polled
<1>3. ASSUME NEW events \in Seq(Event), net' = net \o events,
             \E i \in 1..Len(events) : IsActivity(events[i]),
             hist'.gap = hist.gap, hist'.inbox = hist.inbox
      PROVE  IdleInv'
  BY <1>2, <1>3, ActivityRule
<1>4. CASE Start(p)
  <2>1. PICK n \in Nat : n = Len(hist.ends) + 1
    BY <1>1 DEF HistType
  <2>2. PICK e, f : e = TransferStarted(n) /\ f = StageChanged("Authenticating")
    OBVIOUS
  <2>3. e \in Event /\ f \in Event /\ IsActivity(e)
    BY <2>2, Events
  <2>4. <<e, f>> \in Seq(Event) /\ 1 \in 1..Len(<<e, f>>) /\ <<e, f>>[1] = e
    BY <2>3
  <2>5. net' = net \o <<e, f>>
    BY <1>4, <2>1, <2>2 DEF Start, PathStep
  <2>6. PICK ends : ends = Append(hist.ends, "open")
    OBVIOUS
  <2>7. PICK h : h = [hist EXCEPT !.ends = ends, !.order = Order(p)]
    OBVIOUS
  <2>8. hist' = [h EXCEPT !.tick = "active"]
    BY <1>4, <2>6, <2>7 DEF Start, Acts
  <2>9. hist'.gap = hist.gap /\ hist'.inbox = hist.inbox
    BY <1>1, <2>7, <2>8 DEF HistType
  <2> QED
    BY <1>3, <2>3, <2>4, <2>5, <2>9
<1>5. CASE Header(p) \/ Chunk(p) \/ Verify(p)
  <2>1. PICK e \in Event : IsActivity(e) /\ net' = net \o <<e>>
    <3>1. CASE Header(p)
      BY <3>1, Events DEF Header, PathStep
    <3>2. CASE Chunk(p)
      BY <3>2, Events DEF Chunk, PathStep
    <3>3. CASE Verify(p)
      BY <3>3, Events DEF Verify, PathStep
    <3> QED
      BY <1>5, <3>1, <3>2, <3>3
  <2>2. <<e>> \in Seq(Event) /\ 1 \in 1..Len(<<e>>) /\ <<e>>[1] = e
    BY <2>1
  <2>3. hist' = Acts(hist)
    BY <1>5 DEF Header, Chunk, Verify
  <2>4. hist'.gap = hist.gap /\ hist'.inbox = hist.inbox
    BY <1>1, <2>3, HistActs
  <2> QED
    BY <1>3, <2>1, <2>2, <2>4
<1>6. CASE Fail \/ RequestFails(p)
  <2>1. PICK e \in Event : e = StageChanged("Failed") /\ IsActivity(e)
    BY Events
  <2>2. <<e>> \in Seq(Event) /\ 1 \in 1..Len(<<e>>) /\ <<e>>[1] = e
    BY <2>1
  <2>3. net' = net \o <<e>>
    BY <1>6, <2>1 DEF Fail, RequestFails, PathStep
  <2>4. PICK h \in {Ends(hist, "Failed"), Acts(hist)}, o \in {"kept", "mixed"} :
          hist' = [h EXCEPT !.order = o]
    BY <1>1, <1>6 DEF Fail, RequestFails
  <2>5. h \in HistType /\ h.gap = hist.gap /\ h.inbox = hist.inbox
    BY <1>1, <2>4, HistEnds, HistActs DEF End
  <2>6. hist'.gap = hist.gap /\ hist'.inbox = hist.inbox
    BY <1>1, <2>4, <2>5, HistOrder
  <2> QED
    BY <1>3, <2>1, <2>2, <2>3, <2>6
<1>7. CASE Unpacked(p)
  <2>1. PICK e, f, g : e = StageChanged("Failed") /\ f = StageChanged("Complete")
                       /\ g = StageChanged("Discovering")
    OBVIOUS
  <2>2. {e, f, g} \subseteq Event /\ IsActivity(e) /\ IsActivity(f)
    BY <2>1, Events
  <2>3. {"Failed", "Complete"} \subseteq End
    BY DEF End
  <2>4. \/ net' = Append(net, e) /\ hist' = [Ends(hist, "Failed") EXCEPT !.order = Order(p)]
        \/ net' = Append(net, f) /\ hist' = Ends(hist, "Complete")
        \/ net' = net \o <<f, g>> /\ hist' = Ends(hist, "Complete")
    BY <1>7, <2>1 DEF Unpacked
  <2>5. hist'.gap = hist.gap /\ hist'.inbox = hist.inbox
    <3>1. \A how \in {"Failed", "Complete"} :
            /\ Ends(hist, how) \in HistType /\ Ends(hist, how).gap = hist.gap
            /\ Ends(hist, how).inbox = hist.inbox
      BY <1>1, <2>3, HistEnds
    <3>2. /\ [Ends(hist, "Failed") EXCEPT !.order = Order(p)].gap = hist.gap
          /\ [Ends(hist, "Failed") EXCEPT !.order = Order(p)].inbox = hist.inbox
      BY <1>1, <3>1, HistOrder
    <3> QED
      BY <2>4, <3>1, <3>2
  <2>6. \A x \in {e, f} : /\ Append(net, x) = net \o <<x>>
                          /\ <<x>> \in Seq(Event) /\ 1 \in 1..Len(<<x>>) /\ <<x>>[1] = x
    BY <1>1, <2>2, AppendIsConcat
  <2>7. <<f, g>> \in Seq(Event) /\ 1 \in 1..Len(<<f, g>>) /\ <<f, g>>[1] = f
    BY <2>2
  <2> QED
    BY <1>3, <2>2, <2>4, <2>5, <2>6, <2>7
<1>8. CASE Answered(p)
  <2>1. PICK f, g : f = StageChanged("Complete") /\ g = StageChanged("Discovering")
    OBVIOUS
  <2>2. {f, g} \subseteq Event /\ IsActivity(f)
    BY <2>1, Events
  <2>3. <<f, g>> \in Seq(Event) /\ 1 \in 1..Len(<<f, g>>) /\ <<f, g>>[1] = f
    BY <2>2
  <2>4. net' = net \o <<f, g>> /\ hist' = Acts(hist)
    BY <1>8, <2>1 DEF Answered
  <2>5. hist'.gap = hist.gap /\ hist'.inbox = hist.inbox
    BY <1>1, <2>4, HistActs
  <2> QED
    BY <1>3, <2>2, <2>3, <2>4, <2>5
<1> QED
  BY <1>4, <1>5, <1>6, <1>7, <1>8

\* The receiver.
LEMMA RecvIdle ==
  ASSUME IdleInv, Types', Recv
  PROVE  IdleInv'
<1>1. /\ hist \in HistType /\ main \in MainType /\ net \in Seq(Event) /\ cmd.idle \in Nat
      /\ activity \in Nat /\ left \in 0..cmd.idle /\ hist.gap \in 0..cmd.idle
  BY DEF IdleInv, Types
<1>2. net \o << >> = net /\ << >> \in Seq(Event)
  BY <1>1, ConcatEmptySeq
<1>3. {"waiting", "ended", "finishing"} \subseteq Pc /\ {"error", "idle"} \subseteq Result
  BY DEF Pc, Result
<1>4. CASE ServiceDone
  <2>1. cmd' = cmd /\ activity' = activity /\ net' = net /\ hist' = hist /\ main.pc = "starting"
    BY <1>4 DEF ServiceDone
  <2>2. CASE main.todo = << >>
    <3>1. main' = At(main, "waiting") /\ left' = cmd.idle
      BY <1>4, <2>2 DEF ServiceDone, At
    <3>2. main'.result = main.result
      BY <1>1, <1>3, <3>1, MainAt
    <3>3. cmd.idle <= hist.gap + cmd.idle
      BY <1>1
    <3>4. WaitInv'
      BY <2>1, <3>1, <3>3 DEF WaitInv
    <3>5. main.result # "idle"
      BY <2>1 DEF IdleInv
    <3> QED
      BY <1>1, <2>1, <3>1, <3>2, <3>4, <3>5 DEF IdleInv
  <2>3. CASE main.todo # << >>
    <3>1. main' = NextService(main) /\ left' = left
      BY <1>4, <2>3 DEF ServiceDone, NextService
    <3>2. main'.pc = main.pc /\ main'.result = main.result
      BY <1>1, <2>3, <3>1, MainNext
    <3>3. main.result # "idle"
      BY <2>1 DEF IdleInv
    <3> QED
      BY <1>2, <2>1, <3>1, <3>2, <3>3, IdleOver
  <2> QED
    BY <2>2, <2>3
<1>5. CASE ServiceFails
  <2>1. cmd' = cmd /\ activity' = activity /\ left' = left /\ hist' = hist
    BY <1>5 DEF ServiceFails
  <2>2. \/ main' = With(main, "ended", "error") /\ net' = net
        \/ main' = Over(main, "finishing", "error") /\ net' = net \o <<Shutdown>>
    <3>1. Append(<< >>, Shutdown) = <<Shutdown>>
      OBVIOUS
    <3> QED
      BY <1>5, <3>1 DEF ServiceFails, Finish, With, Over
  <2>3. main'.pc # "waiting" /\ main'.result # "idle"
    <3>1. \A pc \in Pc, result \in Result :
            With(main, pc, result).pc = pc /\ With(main, pc, result).result = result
      BY <1>1, MainWith
    <3>2. \A pc \in Pc, result \in Result :
            Over(main, pc, result).pc = pc /\ Over(main, pc, result).result = result
      BY <1>1, MainOver
    <3> QED
      BY <1>3, <2>2, <3>1, <3>2
  <2>4. <<Shutdown>> \in Seq(Event)
    BY Events
  <2> QED
    BY <1>2, <2>1, <2>2, <2>3, <2>4, IdleOver
<1>6. CASE TakeActivity
  <2>1. /\ main' = main /\ cmd' = cmd /\ net' = net /\ left' = cmd.idle
        /\ activity' = activity - 1 /\ activity > 0 /\ main.pc = "waiting"
        /\ hist' = [hist EXCEPT !.inbox = "fresh"]
    BY <1>6 DEF TakeActivity, Polled
  <2>2. hist'.gap = hist.gap
    BY <1>1, <2>1 DEF HistType
  <2>3. activity' \in Nat /\ cmd.idle <= hist.gap + cmd.idle
    BY <1>1, <2>1
  <2>4. WaitInv'
    BY <2>1, <2>2, <2>3 DEF WaitInv
  <2>5. main.result # "idle"
    BY <2>1 DEF IdleInv
  <2> QED
    BY <1>1, <2>1, <2>2, <2>3, <2>4, <2>5 DEF IdleInv
<1>7. CASE IdleTimeout
  <2>1. /\ cmd' = cmd /\ activity' = activity /\ left' = left /\ hist' = hist
        /\ cmd.idle > 0 /\ left = 0 /\ main.pc = "waiting"
        /\ main' = Over(main, "finishing", "idle")
        /\ net' = net \o Append(<<Shutdown>>, Shutdown)
    BY <1>7 DEF IdleTimeout, Polled, Finish, Over
  <2>2. main'.pc = "finishing" /\ main'.result = "idle"
    BY <1>1, <1>3, <2>1, MainOver
  <2>3. hist.inbox = "late" \/ cmd.idle <= hist.gap + 0
    BY <2>1 DEF IdleInv, WaitInv
  <2>4. hist.gap = cmd.idle \/ hist.inbox = "late"
    BY <1>1, <2>3
  <2>5. net' \in Seq(Event)
    <3>1. Append(<<Shutdown>>, Shutdown) \in Seq(Event)
      BY Events
    <3> QED
      BY <1>1, <2>1, <3>1
  <2> QED
    BY <1>1, <2>1, <2>2, <2>4, <2>5 DEF IdleInv
<1>8. CASE Finished
  <2>1. /\ cmd' = cmd /\ activity' = activity /\ left' = left /\ hist' = hist /\ net' = net
        /\ main' = At(main, "ended")
    BY <1>8 DEF Finished, At
  <2>2. main'.pc = "ended" /\ main'.result = main.result
    BY <1>1, <1>3, <2>1, MainAt
  <2> QED
    BY <1>1, <2>1, <2>2 DEF IdleInv
<1>9. ASSUME NEW route \in Routes, PathStops(route)
      PROVE  IdleInv'
  <2>1. cmd' = cmd /\ activity' = activity /\ left' = left /\ main.pc = "waiting"
    BY <1>9 DEF PathStops, Polled
  <2>2. PICK o \in {"kept", "mixed"} : hist' = [hist EXCEPT !.order = o]
    BY <1>1, <1>9 DEF PathStops, HistType
  <2>3. hist'.gap = hist.gap /\ hist'.inbox = hist.inbox /\ hist'.tick = hist.tick
    BY <1>1, <2>2, HistOrder
  <2>4. CASE main' = main /\ net' = net
    BY <1>2, <2>1, <2>3, <2>4, IdleRest
  <2>5. CASE main' = Over(main, "finishing", "error")
             /\ net' = net \o Append(<<StageChanged("Failed")>>, Shutdown)
    <3>1. main'.pc # "waiting" /\ main'.result # "idle"
      BY <1>1, <1>3, <2>5, MainOver
    <3>2. Append(<<StageChanged("Failed")>>, Shutdown) \in Seq(Event)
      BY Events
    <3> QED
      BY <2>1, <2>3, <2>5, <3>1, <3>2, IdleOver
  <2> QED
    BY <1>9, <2>4, <2>5 DEF PathStops, Finish, Over
<1>10. \E p : p \in Path
  BY DEF Path
<1> QED
  BY <1>4, <1>5, <1>6, <1>7, <1>8, <1>9, <1>10, PathIdle DEF Recv

\* A sender never waits for receivers.
LEMMA SendIdle ==
  ASSUME IdleInv, Types', Send
  PROVE  IdleInv'
<1>1. hist \in HistType /\ hist' \in HistType /\ main \in MainType /\ net \in Seq(Event)
  BY DEF IdleInv, Types
<1>2. net \o << >> = net /\ << >> \in Seq(Event)
  BY <1>1, ConcatEmptySeq
<1>3. cmd' = cmd /\ activity' = activity /\ net' = net /\ left' = left
      /\ main.pc \in {"building", "trying", "delay", "asking", "joining"}
  BY DEF Send, Build, StartSending, AttemptSucceeds, NextAttempt, AttemptFails, AskQuit, AskRetry,
     AskClosed, Joined, SendRests
<1>4. main.result # "idle"
  BY <1>3 DEF IdleInv
<1>5. hist'.gap = hist.gap
  <2>1. hist' = hist \/ hist' = [hist EXCEPT !.ends = Append(@, "open")]
    BY DEF Send, Build, StartSending, AttemptSucceeds, NextAttempt, AttemptFails, AskQuit, AskRetry,
       AskClosed, Joined
  <2>2. PICK ends : ends = Append(hist.ends, "open")
    OBVIOUS
  <2> QED
    BY <1>1, <2>1, <2>2 DEF HistType
<1>6. main'.pc # "waiting" /\ main'.result # "idle"
  <2>1. PICK n, k : n = main.attempt + 1 /\ k = main.round + 1
    OBVIOUS
  <2>2. \/ main' = main
        \/ \E pc \in {"ended", "asking", "joining"}, result \in {"error", "ok"} :
             main' = With(main, pc, result) \/ main' = At(main, pc)
        \/ main' = At(main, "delay")
        \/ main' = Tries(main, "trying", 1) \/ main' = Tries(main, "trying", n)
        \/ main' = Again(main, "building", 0, k)
    BY <2>1 DEF Send, Build, StartSending, AttemptSucceeds, NextAttempt, AttemptFails, AskQuit,
       AskRetry, AskClosed, Joined, RoundFails, GiveUp, NextRound, With, At, Tries, Again
  <2>3. /\ \A pc, result : With(main, pc, result).pc = pc /\ With(main, pc, result).result = result
        /\ \A pc : At(main, pc).pc = pc /\ At(main, pc).result = main.result
    BY <1>1 DEF With, At, MainType
  <2>4. /\ \A pc, m : Tries(main, pc, m).pc = pc /\ Tries(main, pc, m).result = main.result
        /\ \A pc, m, r : /\ Again(main, pc, m, r).pc = pc
                         /\ Again(main, pc, m, r).result = main.result
    BY <1>1 DEF Tries, Again, MainType
  <2> QED
    BY <1>3, <1>4, <2>2, <2>3, <2>4
<1> QED
  BY <1>2, <1>3, <1>5, <1>6, IdleOver

\* The receiver gives up for being idle only when no transfer showed activity
\* for that long, or when unpacking kept main from the activity channel beyond
\* the deadline.
THEOREM IdleIsQuiet == Spec => []IdleMeansQuiet
<1>1. Init => IdleInv
  <2> SUFFICES ASSUME Init PROVE IdleInv
    OBVIOUS
  <2>1. Types /\ main.result # "idle" /\ main.pc # "waiting" /\ hist.gap = 0
    BY InitTypes
  <2>2. cmd.idle \in Nat /\ left = cmd.idle /\ activity = 0
    BY ConsoleAssumption DEF Init, CommandsOver
  <2>3. net \in Seq(Event)
    <3>1. << >> \in Seq(Event)
      OBVIOUS
    <3> QED
      BY <3>1 DEF Init
  <2> QED
    BY <2>1, <2>2, <2>3 DEF IdleInv
<1>2. IdleInv /\ [Next]_vars => IdleInv'
  <2> SUFFICES ASSUME IdleInv, [Next]_vars PROVE IdleInv'
    OBVIOUS
  <2>1. Types'
    BY NextTypes DEF IdleInv
  <2>2. CASE UNCHANGED vars
    BY <2>1, <2>2, IdleRest DEF vars
  <2> QED
    BY <2>1, <2>2, UiIdle, RecvIdle, SendIdle DEF Next
<1>3. IdleInv => IdleMeansQuiet
  BY DEF IdleInv, IdleMeansQuiet
<1> QED
  BY <1>1, <1>2, <1>3, PTL DEF Spec

-------------------------------------------------------------------------------
(* What an event does to the table. *)

Row == [id : Nat, stage : Stage]

\* Only one row has the id.
LEMMA RowFound ==
  ASSUME NEW d \in DashboardState, NEW i \in Nat, NEW k \in 1..Len(d.rows),
         d.rows[k].id = i, \A j \in 1..Len(d.rows) : d.rows[j].id = i => j = k
  PROVE  RowOf(d, i) = k
<1> DEFINE I == {j \in 1..Len(d.rows) : d.rows[j].id = i}
<1>1. I = {k}
  OBVIOUS
<1>2. Min(I) = k
  BY <1>1 DEF Min
<1>3. RowOf(d, i) = IF I # {} THEN Min(I) ELSE 0
  BY DEF RowOf, SelectInSeq
<1> QED
  BY <1>1, <1>2, <1>3

\* No row has it.
LEMMA RowMissing ==
  ASSUME NEW d \in DashboardState, NEW i \in Nat, \A j \in 1..Len(d.rows) : d.rows[j].id # i
  PROVE  RowOf(d, i) = 0
<1> DEFINE I == {j \in 1..Len(d.rows) : d.rows[j].id = i}
<1>1. I = {}
  OBVIOUS
<1>3. RowOf(d, i) = IF I # {} THEN Min(I) ELSE 0
  BY DEF RowOf, SelectInSeq
<1> QED
  BY <1>1, <1>3

\* The rows there are after n transfers.
Shown(n) == IF n > MaxRows THEN MaxRows ELSE n

\* A row's stage tells how its transfer ended.
StageAgrees(stage, end) == IF end = "open" THEN stage \notin Final ELSE stage = end

\* The dashboard of somebody who has seen how these transfers went: its rows
\* are the latest, and the active transfer, if there is one, is the last.
Table(d, ends) ==
  /\ d \in DashboardState
  /\ Len(d.rows) = Shown(Len(ends))
  /\ \A i \in 1..Len(d.rows) :
       /\ d.rows[i].id = Len(ends) - Len(d.rows) + i
       /\ StageAgrees(d.rows[i].stage, ends[Len(ends) - Len(d.rows) + i])
  /\ d.active \in {NoTransfer, Len(ends)}
  /\ d.active # NoTransfer => ends[Len(ends)] = "open"

\* The same while the last transfer is under way, whatever its row says.
Begun(d, ends) ==
  /\ d \in DashboardState
  /\ Len(d.rows) = Shown(Len(ends))
  /\ \A i \in 1..Len(d.rows) :
       /\ d.rows[i].id = Len(ends) - Len(d.rows) + i
       /\ i # Len(d.rows) => StageAgrees(d.rows[i].stage, ends[Len(ends) - Len(d.rows) + i])
  /\ d.active = Len(ends) /\ d.active # NoTransfer
  /\ ends[Len(ends)] = "open"

\* A stage of no transfer changes the header only.
LEMMA StageOfNone ==
  ASSUME NEW ends \in Seq(End), NEW d, Table(d, ends), d.active = NoTransfer, NEW s \in Stage
  PROVE  Table(ApplyStage(d, s), ends) /\ ApplyStage(d, s).active = NoTransfer
<1>1. d \in DashboardState /\ d.rows \in Seq(Row) /\ d.stage \in Stage /\ d.active = 0
  BY DEF Table, DashboardState, Row, NoTransfer
<1>2. RowOf(d, d.active) = 0
  <2>1. Len(d.rows) \in Nat /\ Len(ends) \in Nat /\ MaxRows \in Nat
    BY <1>1, MaxRowsAssumption
  <2>2. Len(d.rows) <= Len(ends)
    BY <2>1 DEF Table, Shown
  <2>3. ASSUME NEW j \in 1..Len(d.rows) PROVE d.rows[j].id # 0
    <3>1. d.rows[j].id = Len(ends) - Len(d.rows) + j
      BY DEF Table
    <3> QED
      BY <2>1, <2>2, <3>1
  <2> QED
    BY <1>1, <2>3, RowMissing
<1>3. ApplyStage(d, s) = [d EXCEPT !.stage = s, !.rows = d.rows, !.active = NoTransfer]
  BY <1>1, <1>2 DEF ApplyStage, DashboardState
<1>4. ApplyStage(d, s) = [stage |-> s, active |-> NoTransfer, rows |-> d.rows]
  BY <1>1, <1>3 DEF DashboardState
<1>5. PICK e : e = ApplyStage(d, s)
  OBVIOUS
<1>6. e \in DashboardState /\ e.rows = d.rows /\ e.active = d.active
  BY <1>1, <1>4, <1>5 DEF DashboardState, NoTransfer
<1>7. Table(e, ends)
  BY <1>6 DEF Table
<1> QED
  BY <1>5, <1>6, <1>7

\* A table with an active transfer.
LEMMA TableBegun ==
  ASSUME NEW ends, NEW d, Table(d, ends), d.active # NoTransfer
  PROVE  Begun(d, ends)
BY DEF Table, Begun

\* While a transfer is under way its row is the last.
LEMMA LastRow ==
  ASSUME NEW ends \in Seq(End), NEW d, Begun(d, ends)
  PROVE  /\ Len(ends) \in Nat \ {0} /\ Len(d.rows) \in 1..Len(ends)
         /\ d.active = Len(ends) /\ RowOf(d, d.active) = Len(d.rows)
<1>1. d \in DashboardState /\ d.rows \in Seq(Row) /\ d.active = Len(ends)
  BY DEF Begun, DashboardState, Row
<1>2. Len(d.rows) \in Nat /\ Len(ends) \in Nat \ {0} /\ MaxRows \in Nat \ {0}
  BY <1>1, MaxRowsAssumption DEF Begun, NoTransfer
<1>3. Len(d.rows) \in 1..Len(ends)
  BY <1>2 DEF Begun, Shown
<1>4. \A j \in 1..Len(d.rows) : d.rows[j].id = Len(ends) - Len(d.rows) + j
  BY DEF Begun
<1>5. /\ Len(d.rows) \in 1..Len(d.rows) /\ d.rows[Len(d.rows)].id = d.active
      /\ \A j \in 1..Len(d.rows) : d.rows[j].id = d.active => j = Len(d.rows)
  <2>1. PICK n \in Nat, m \in Nat : n = Len(d.rows) /\ m = Len(ends)
    BY <1>2
  <2>2. n \in 1..n /\ \A j \in 1..n : m - n + j = m <=> j = n
    BY <1>3, <2>1
  <2> QED
    BY <1>1, <1>4, <2>1, <2>2
<1> QED
  BY <1>1, <1>2, <1>3, <1>5, RowFound

\* A stage of the transfer under way shows in its row; a final one ends it.
LEMMA StageOfActive ==
  ASSUME NEW ends \in Seq(End), NEW d, Begun(d, ends),
         NEW s \in Stage, NEW after \in Seq(End),
         s \in Final => after = [ends EXCEPT ![Len(ends)] = s],
         s \notin Final => after = ends
  PROVE  /\ Table(ApplyStage(d, s), after)
         /\ ApplyStage(d, s).active = NoTransfer <=> s \in Final
<1> DEFINE n == Len(d.rows)
           m == Len(ends)
<1>1. /\ d \in DashboardState /\ d.rows \in Seq(Row)
      /\ m \in Nat \ {0} /\ n \in 1..m /\ d.active = m /\ RowOf(d, d.active) = n
  BY LastRow DEF Begun, DashboardState, Row
<1>2. PICK row \in Row : row = [d.rows[n] EXCEPT !.stage = s]
  <2>1. d.rows[n] \in Row
    BY <1>1
  <2> QED
    BY <2>1 DEF Row
<1>3. row.id = d.rows[n].id /\ row.stage = s
  <2>1. d.rows[n] \in Row
    BY <1>1
  <2> QED
    BY <1>2, <2>1 DEF Row
<1>4. PICK rows : rows = [d.rows EXCEPT ![n] = row]
  OBVIOUS
<1>5. rows \in Seq(Row) /\ Len(rows) = n /\ rows[n] = row
      /\ \A i \in 1..n : i # n => rows[i] = d.rows[i]
  <2>1. n \in 1..Len(d.rows)
    BY <1>1
  <2> QED
    BY <1>1, <1>4, <2>1, ExceptSeq
<1>6. PICK active \in Nat :
        /\ active = IF s \in Final THEN NoTransfer ELSE d.active
        /\ active = NoTransfer <=> s \in Final
  BY <1>1 DEF NoTransfer
<1>7. PICK e : e = ApplyStage(d, s)
  OBVIOUS
<1>8. e = [d EXCEPT !.stage = s, !.rows = rows, !.active = active]
  <2>1. n # 0
    BY <1>1
  <2> QED
    BY <1>1, <1>2, <1>4, <1>6, <1>7, <2>1 DEF ApplyStage
<1>9. e \in DashboardState /\ e.rows = rows /\ e.active = active
  BY <1>1, <1>5, <1>8 DEF DashboardState, Row
<1>10. Len(after) = m /\ after[m] = (IF s \in Final THEN s ELSE "open")
       /\ \A i \in 1..m : i # m => after[i] = ends[i]
  <2>1. ends[m] = "open"
    BY <1>1 DEF Begun
  <2>2. m \in 1..Len(ends)
    BY <1>1
  <2>3. CASE s \in Final
    <3>1. s \in End
      BY <2>3 DEF Final, End
    <3> QED
      BY <2>2, <2>3, <3>1, ExceptSeq
  <2>4. CASE s \notin Final
    BY <2>1, <2>4
  <2> QED
    BY <2>3, <2>4
<1>11. \A i \in 1..n : rows[i].id = m - n + i /\ StageAgrees(rows[i].stage, after[m - n + i])
  <2> SUFFICES ASSUME NEW i \in 1..n
               PROVE  rows[i].id = m - n + i /\ StageAgrees(rows[i].stage, after[m - n + i])
    OBVIOUS
  <2>1. /\ d.rows[i].id = m - n + i
        /\ i # n => StageAgrees(d.rows[i].stage, ends[m - n + i])
    BY DEF Begun
  <2>2. CASE i = n
    <3>1. m - n + i = m
      BY <1>1, <2>2
    <3>2. StageAgrees(s, after[m])
      BY <1>10 DEF StageAgrees, Final
    <3> QED
      BY <1>3, <1>5, <2>1, <2>2, <3>1, <3>2
  <2>3. CASE i # n
    <3>1. m - n + i \in 1..m /\ m - n + i # m
      BY <1>1, <2>3
    <3> QED
      BY <1>5, <1>10, <2>1, <2>3, <3>1
  <2> QED
    BY <2>2, <2>3
<1>12. active # NoTransfer => after[m] = "open"
  BY <1>6, <1>10
<1>13. Table(e, after)
  <2>1. Len(e.rows) = Shown(Len(after))
    BY <1>5, <1>9, <1>10 DEF Begun
  <2>2. e.active \in {NoTransfer, Len(after)}
    BY <1>1, <1>6, <1>9, <1>10
  <2> QED
    BY <1>5, <1>9, <1>10, <1>11, <1>12, <2>1, <2>2 DEF Table
<1> QED
  BY <1>6, <1>7, <1>9, <1>13

\* A transfer that begins gets a row, and the oldest makes room.
LEMMA StartOfNext ==
  ASSUME NEW ends \in Seq(End), NEW d, Table(d, ends)
  PROVE  Begun(ApplyStarted(d, Len(ends) + 1), Append(ends, "open"))
<1>1. /\ d \in DashboardState /\ d.rows \in Seq(Row) /\ d.stage \in Stage
      /\ Len(d.rows) = Shown(Len(ends))
  BY DEF Table, DashboardState, Row
<1>2. PICK n \in Nat, m \in Nat, max \in Nat \ {0} :
        n = Len(d.rows) /\ m = Len(ends) /\ max = MaxRows
  BY <1>1, MaxRowsAssumption
<1>3. n = (IF m > max THEN max ELSE m)
  BY <1>1, <1>2 DEF Shown
<1>4. PICK row \in Row : row = [id |-> m + 1, stage |-> d.stage] /\ row.id = m + 1
  <2>1. PICK k \in Nat : k = m + 1
    BY <1>2
  <2>2. [id |-> k, stage |-> d.stage] \in Row
    BY <1>1 DEF Row
  <2> QED
    BY <2>1, <2>2
<1>5. PICK all \in Seq(Row) : all = Append(d.rows, row)
  <2>1. Append(d.rows, row) \in Seq(Row)
    BY <1>1
  <2> QED
    BY <2>1
<1>6. Len(all) = n + 1 /\ all[n + 1] = row /\ \A i \in 1..n : all[i] = d.rows[i]
  BY <1>1, <1>2, <1>5
<1>7. PICK rows : rows = IF n + 1 > max THEN Tail(all) ELSE all
  OBVIOUS
<1>8. PICK k \in Nat :
        \/ n + 1 > max /\ k = n /\ n \in 1..m
        \/ ~(n + 1 > max) /\ k = n + 1 /\ n = m
  <2>1. CASE n + 1 > max
    <3>1. n \in 1..m
      BY <1>2, <1>3, <2>1
    <3> QED
      BY <1>2, <2>1, <3>1
  <2>2. CASE ~(n + 1 > max)
    <3>1. n = m /\ n + 1 \in Nat
      BY <1>2, <1>3, <2>2
    <3> QED
      BY <2>2, <3>1
  <2> QED
    BY <2>1, <2>2
<1>9. /\ rows \in Seq(Row) /\ Len(rows) = k /\ k \in 1..(m + 1) /\ rows[k] = row
      /\ k = Shown(m + 1)
      /\ \A i \in 1..(k - 1) : rows[i] = d.rows[n + 1 - k + i]
  <2>1. CASE n + 1 > max
    <3>1. k = n /\ n = max /\ m >= n
      BY <1>2, <1>3, <1>8, <2>1
    <3>2. rows = Tail(all) /\ all # << >>
      BY <1>2, <1>6, <1>7, <2>1
    <3>3. rows \in Seq(Row) /\ Len(rows) = n /\ \A i \in 1..n : rows[i] = all[i + 1]
      BY <1>2, <1>5, <1>6, <3>2
    <3>4. n \in 1..n /\ \A i \in 1..(n - 1) : i \in 1..n /\ i + 1 \in 1..n /\ n + 1 - n + i = i + 1
      BY <1>2, <3>1
    <3>5. rows[k] = row /\ \A i \in 1..(k - 1) : rows[i] = d.rows[n + 1 - k + i]
      BY <1>6, <3>1, <3>3, <3>4
    <3> QED
      BY <1>2, <3>1, <3>3, <3>5 DEF Shown
  <2>2. CASE ~(n + 1 > max)
    <3>1. k = n + 1 /\ n = m /\ rows = all
      BY <1>2, <1>3, <1>7, <1>8, <2>2
    <3>2. \A i \in 1..(k - 1) : rows[i] = d.rows[n + 1 - k + i]
      BY <1>2, <1>6, <3>1
    <3> QED
      BY <1>2, <1>5, <1>6, <2>2, <3>1, <3>2 DEF Shown
  <2> QED
    BY <2>1, <2>2
<1>10. PICK after \in Seq(End) : after = Append(ends, "open")
  <2>1. "open" \in End
    BY DEF End
  <2>2. Append(ends, "open") \in Seq(End)
    BY <2>1
  <2> QED
    BY <2>2
<1>11. Len(after) = m + 1 /\ after[m + 1] = "open" /\ \A i \in 1..m : after[i] = ends[i]
  BY <1>2, <1>10
<1>12. PICK e : e = ApplyStarted(d, Len(ends) + 1)
  OBVIOUS
<1>13. PICK id \in Nat : id = m + 1
  BY <1>2
<1>14. e \in DashboardState /\ e.rows = rows /\ e.active = m + 1
  <2>1. e = [d EXCEPT !.active = id, !.rows = rows]
    BY <1>2, <1>4, <1>5, <1>6, <1>7, <1>12, <1>13 DEF ApplyStarted
  <2> QED
    BY <1>1, <1>9, <1>13, <2>1 DEF DashboardState, Row
<1>15. \A i \in 1..k : /\ rows[i].id = m + 1 - k + i
                       /\ i # k => StageAgrees(rows[i].stage, after[m + 1 - k + i])
  <2> SUFFICES ASSUME NEW i \in 1..k
               PROVE  /\ rows[i].id = m + 1 - k + i
                      /\ i # k => StageAgrees(rows[i].stage, after[m + 1 - k + i])
    OBVIOUS
  <2>1. CASE i = k
    <3>1. rows[i].id = m + 1
      BY <1>4, <1>9, <2>1
    <3>2. m + 1 - k + k = m + 1
      OBVIOUS
    <3> QED
      BY <2>1, <3>1, <3>2
  <2>2. CASE i # k
    <3>1. PICK j \in 1..n : j = n + 1 - k + i
      <4>1. n + 1 - k + i \in 1..n
        BY <1>2, <1>8, <2>2
      <4> QED
        BY <4>1
    <3>2. rows[i] = d.rows[j]
      <4>1. i \in 1..(k - 1)
        BY <1>8, <2>2
      <4> QED
        BY <1>9, <3>1, <4>1
    <3>3. d.rows[j].id = m - n + j /\ StageAgrees(d.rows[j].stage, ends[m - n + j])
      BY <1>2 DEF Table
    <3>4. m - n + j = m + 1 - k + i
      BY <3>1
    <3>5. m - n + j \in 1..m
      <4>1. n <= m
        BY <1>3
      <4> QED
        BY <4>1
    <3> QED
      BY <1>11, <2>2, <3>2, <3>3, <3>4, <3>5
  <2> QED
    BY <2>1, <2>2
<1>16. e.active # NoTransfer
  BY <1>2, <1>14 DEF NoTransfer
<1>17. Begun(e, after)
  <2>1. Len(e.rows) = k /\ Len(after) = m + 1
    BY <1>9, <1>11, <1>14
  <2>2. \A i \in 1..Len(e.rows) :
          /\ e.rows[i].id = Len(after) - Len(e.rows) + i
          /\ i # Len(e.rows) =>
               StageAgrees(e.rows[i].stage, after[Len(after) - Len(e.rows) + i])
    BY <1>14, <1>15, <2>1
  <2>3. e.active = Len(after) /\ Len(e.rows) = Shown(Len(after))
    BY <1>9, <1>14, <2>1
  <2> QED
    BY <1>11, <1>14, <1>16, <2>1, <2>2, <2>3 DEF Begun
<1> QED
  BY <1>10, <1>12, <1>17

-------------------------------------------------------------------------------
(* What the interface has yet to see. *)

\* From dashboard d the events in q lead to dashboard l, by way of those in w.
Walk(w, d, q, l) ==
  /\ w \in Seq(DashboardState) /\ Len(w) = Len(q) + 1
  /\ w[1] = d /\ w[Len(w)] = l
  /\ \A i \in 1..Len(q) : w[i + 1] = ApplyEvent(w[i], q[i])

Leads(d, q, l) == \E w \in Seq(DashboardState) : Walk(w, d, q, l)

\* Without events it stays what it is.
LEMMA LeadsNowhere ==
  ASSUME NEW d, NEW l
  PROVE  /\ d \in DashboardState => Leads(d, << >>, d)
         /\ Leads(d, << >>, l) => d = l
<1>1. ASSUME d \in DashboardState PROVE Leads(d, << >>, d)
  <2>1. PICK w \in Seq(DashboardState) : w = <<d>>
    <3>1. <<d>> \in Seq(DashboardState)
      BY <1>1
    <3> QED
      BY <3>1
  <2>2. Walk(w, d, << >>, d)
    BY <2>1 DEF Walk
  <2> QED
    BY <2>2 DEF Leads
<1>2. ASSUME NEW w \in Seq(DashboardState), Walk(w, d, << >>, l) PROVE d = l
  BY <1>2 DEF Walk
<1> QED
  BY <1>1, <1>2 DEF Leads

\* One event more.
LEMMA LeadsOn ==
  ASSUME NEW d, NEW q \in Seq(Event), NEW l, Leads(d, q, l), NEW e \in Event,
         NEW next \in DashboardState, next = ApplyEvent(l, e)
  PROVE  Leads(d, Append(q, e), next)
<1>1. PICK w \in Seq(DashboardState) : Walk(w, d, q, l)
  BY DEF Leads
<1>2. PICK n \in Nat : n = Len(q) /\ Len(w) = n + 1
  BY <1>1 DEF Walk
<1>3. PICK v \in Seq(DashboardState) : v = Append(w, next)
  <2>1. Append(w, next) \in Seq(DashboardState)
    OBVIOUS
  <2> QED
    BY <2>1
<1>4. PICK p \in Seq(Event) : p = Append(q, e)
  <2>1. Append(q, e) \in Seq(Event)
    OBVIOUS
  <2> QED
    BY <2>1
<1>5. Len(v) = n + 2 /\ v[n + 2] = next /\ \A i \in 1..(n + 1) : v[i] = w[i]
  BY <1>2, <1>3
<1>6. Len(p) = n + 1 /\ p[n + 1] = e /\ \A i \in 1..n : p[i] = q[i]
  BY <1>2, <1>4
<1>7. w[1] = d /\ w[n + 1] = l /\ \A i \in 1..n : w[i + 1] = ApplyEvent(w[i], q[i])
  BY <1>1, <1>2 DEF Walk
<1>8. \A i \in 1..(n + 1) : v[i + 1] = ApplyEvent(v[i], p[i])
  <2> SUFFICES ASSUME NEW i \in 1..(n + 1) PROVE v[i + 1] = ApplyEvent(v[i], p[i])
    OBVIOUS
  <2>1. CASE i = n + 1
    BY <1>2, <1>5, <1>6, <1>7, <2>1
  <2>2. CASE i # n + 1
    <3>1. i \in 1..n /\ i + 1 \in 1..(n + 1)
      BY <1>2, <2>2
    <3> QED
      BY <1>5, <1>6, <1>7, <3>1
  <2> QED
    BY <2>1, <2>2
<1>9. Walk(v, d, p, next)
  BY <1>2, <1>5, <1>6, <1>7, <1>8 DEF Walk
<1> QED
  BY <1>4, <1>9 DEF Leads

\* The interface takes the first.
LEMMA LeadsTail ==
  ASSUME NEW d, NEW q \in Seq(Event), q # << >>, NEW l, Leads(d, q, l)
  PROVE  ApplyEvent(d, Head(q)) \in DashboardState /\ Leads(ApplyEvent(d, Head(q)), Tail(q), l)
<1>1. PICK w \in Seq(DashboardState) : Walk(w, d, q, l)
  BY DEF Leads
<1>2. PICK n \in Nat : n = Len(Tail(q)) /\ Len(q) = n + 1 /\ Len(w) = n + 2
  <2>1. Len(Tail(q)) = Len(q) - 1 /\ Len(q) \in Nat \ {0}
    OBVIOUS
  <2>2. Len(w) = Len(q) + 1
    BY <1>1 DEF Walk
  <2>3. Len(q) - 1 \in Nat /\ Len(q) = (Len(q) - 1) + 1 /\ Len(w) = (Len(q) - 1) + 2
    BY <2>1, <2>2
  <2> QED
    BY <2>1, <2>3
<1>3. PICK v \in Seq(DashboardState) : v = Tail(w)
  <2>1. w # << >>
    BY <1>2
  <2>2. Tail(w) \in Seq(DashboardState)
    BY <2>1
  <2> QED
    BY <2>2
<1>4. PICK p \in Seq(Event) : p = Tail(q)
  <2>1. Tail(q) \in Seq(Event)
    OBVIOUS
  <2> QED
    BY <2>1
<1>5. Len(v) = n + 1 /\ \A i \in 1..(n + 1) : v[i] = w[i + 1]
  BY <1>2, <1>3
<1>6. Len(p) = n /\ \A i \in 1..n : p[i] = q[i + 1]
  BY <1>2, <1>4
<1>7. w[1] = d /\ w[n + 2] = l /\ \A i \in 1..(n + 1) : w[i + 1] = ApplyEvent(w[i], q[i])
  BY <1>1, <1>2 DEF Walk
<1>8. Head(q) = q[1]
  OBVIOUS
<1>9. v[1] = ApplyEvent(d, Head(q)) /\ v[n + 1] = l /\ v[1] \in DashboardState
  BY <1>2, <1>5, <1>7, <1>8
<1>10. ASSUME NEW i \in 1..n PROVE v[i + 1] = ApplyEvent(v[i], p[i])
  <2>1. i \in 1..(n + 1) /\ i + 1 \in 1..(n + 1)
    BY <1>2
  <2> QED
    BY <1>5, <1>6, <1>7, <2>1
<1>11. Walk(v, ApplyEvent(d, Head(q)), p, l)
  BY <1>2, <1>5, <1>6, <1>9, <1>10 DEF Walk
<1> QED
  BY <1>4, <1>9, <1>11 DEF Leads

\* One event more, at the end of the second channel.
LEMMA LeadsOne ==
  ASSUME NEW d, NEW q \in Seq(Event), NEW n \in Seq(Event), NEW l, Leads(d, q \o n, l),
         NEW e \in Event, NEW next \in DashboardState, next = ApplyEvent(l, e)
  PROVE  Leads(d, q \o (n \o <<e>>), next) /\ n \o <<e>> \in Seq(Event)
<1>1. q \o n \in Seq(Event) /\ <<e>> \in Seq(Event)
  OBVIOUS
<1>2. q \o (n \o <<e>>) = (q \o n) \o <<e>>
  BY <1>1, ConcatAssociative
<1>3. (q \o n) \o <<e>> = Append(q \o n, e)
  <2>1. \A s \in Seq(Event) : s \o <<e>> = Append(s, e)
    OBVIOUS
  <2> QED
    BY <1>1, <2>1
<1>4. n \o <<e>> \in Seq(Event)
  BY <1>1, ConcatProperties
<1> QED
  BY <1>1, <1>2, <1>3, <1>4, LeadsOn

\* An event and another.
LEMMA TwoEvents ==
  ASSUME NEW e \in Event, NEW f \in Event
  PROVE  <<e>> \o <<f>> = <<e, f>>
<1>1. <<e>> \in Seq(Event) /\ <<f>> \in Seq(Event) /\ <<e, f>> \in Seq(Event)
  OBVIOUS
<1>2. PICK s : s = <<e>> \o <<f>>
  OBVIOUS
<1>3. s \in Seq(Event) /\ Len(s) = 2 /\ s[1] = e /\ s[2] = f
  <2>1. PICK a \in Seq(Event), b \in Seq(Event) : a = <<e>> /\ b = <<f>>
    BY <1>1
  <2>2. Len(a) = 1 /\ Len(b) = 1 /\ a[1] = e /\ b[1] = f
    BY <2>1
  <2>3. s \in Seq(Event) /\ Len(s) = 2
        /\ \A i \in 1..2 : s[i] = IF i <= 1 THEN a[i] ELSE b[i - 1]
    BY <1>2, <2>1, <2>2, ConcatProperties
  <2> QED
    BY <2>2, <2>3
<1>4. Len(<<e, f>>) = 2 /\ <<e, f>>[1] = e /\ <<e, f>>[2] = f
  OBVIOUS
<1>5. \A i \in 1..2 : s[i] = <<e, f>>[i]
  BY <1>3, <1>4
<1> QED
  BY <1>1, <1>2, <1>3, <1>4, <1>5, SeqEqual

\* Two events more.
LEMMA LeadsTwo ==
  ASSUME NEW d, NEW q \in Seq(Event), NEW n \in Seq(Event), NEW l, Leads(d, q \o n, l),
         NEW e \in Event, NEW next \in DashboardState, next = ApplyEvent(l, e),
         NEW f \in Event, NEW last \in DashboardState, last = ApplyEvent(next, f)
  PROVE  Leads(d, q \o (n \o <<e, f>>), last) /\ n \o <<e, f>> \in Seq(Event)
<1>1. Leads(d, q \o (n \o <<e>>), next) /\ n \o <<e>> \in Seq(Event)
  BY LeadsOne
<1>2. PICK m \in Seq(Event) : m = n \o <<e>>
  BY <1>1
<1>3. Leads(d, q \o (m \o <<f>>), last) /\ m \o <<f>> \in Seq(Event)
  BY <1>1, <1>2, LeadsOne
<1>4. m \o <<f>> = n \o <<e, f>>
  <2>1. <<e>> \in Seq(Event) /\ <<f>> \in Seq(Event)
    OBVIOUS
  <2>2. (n \o <<e>>) \o <<f>> = n \o (<<e>> \o <<f>>)
    BY <2>1, ConcatAssociative
  <2>3. <<e>> \o <<f>> = <<e, f>>
    BY TwoEvents
  <2> QED
    BY <1>2, <2>2, <2>3
<1> QED
  BY <1>3, <1>4

\* What the events do.
LEMMA EventEffects ==
  ASSUME NEW d
  PROVE  /\ ApplyEvent(d, Shutdown) = d /\ ApplyEvent(d, Progress) = d
         /\ \A s \in Stage : ApplyEvent(d, StageChanged(s)) = ApplyStage(d, s)
         /\ \A i \in Nat : ApplyEvent(d, TransferStarted(i)) = ApplyStarted(d, i)
         /\ Shutdown \in Event /\ Progress \in Event
         /\ \A s \in Stage : StageChanged(s) \in Event
         /\ \A i \in Nat : TransferStarted(i) \in Event
BY DEF ApplyEvent, Shutdown, Progress, StageChanged, TransferStarted, Event

-------------------------------------------------------------------------------
(* The paths. *)

\* The states of a path whose transfer has not ended.
Busy == {"started", "receiving", "unpacking"}

BusyIn(states) == \E p \in Path : states[p] \in Busy

Idles(state) == state \in {"waiting", "stopped"}

AloneIn(states) == \A p, q \in Path : Idles(states[p]) \/ Idles(states[q]) \/ p = q

OthersIdle(states, p) == \A q \in Path \ {p} : Idles(states[q])

\* One path goes on while the others idle.
LEMMA OnePath ==
  ASSUME NEW states \in [Path -> PathState], NEW p \in Path, NEW to \in PathState,
         NEW after, after = [states EXCEPT ![p] = to],
         OthersIdle(states, p)
  PROVE  /\ after \in [Path -> PathState] /\ AloneIn(after)
         /\ BusyIn(after) <=> to \in Busy
         /\ BusyIn(states) <=> states[p] \in Busy
<1>1. after \in [Path -> PathState] /\ after[p] = to
      /\ \A q \in Path \ {p} : after[q] = states[q]
  OBVIOUS
<1>2. \A state : Idles(state) => state \notin Busy
  BY DEF Idles, Busy
<1>3. AloneIn(after)
  BY <1>1 DEF AloneIn, OthersIdle
<1>4. BusyIn(after) <=> to \in Busy
  BY <1>1, <1>2 DEF BusyIn, OthersIdle
<1>5. BusyIn(states) <=> states[p] \in Busy
  BY <1>2 DEF BusyIn, OthersIdle
<1> QED
  BY <1>1, <1>3, <1>4, <1>5

\* All paths begin anew.
LEMMA AllWait ==
  ASSUME NEW after, after = [p \in Path |-> "waiting"]
  PROVE  after \in [Path -> PathState] /\ AloneIn(after) /\ ~BusyIn(after)
BY DEF PathState, AloneIn, Idles, BusyIn, Busy

\* A dashboard that has seen all events agrees with how the transfers went, and
\* its active transfer is the one a path has under way.
Agrees(d) ==
  /\ Table(d, hist.ends)
  /\ main.pc \in {"starting", "waiting"} => (d.active # NoTransfer <=> BusyIn(path))

UiType ==
  [pc : {"none", "on", "closed", "quit", "broken"}, dash : DashboardState, queue : Seq(Event)]

ChannelTypes ==
  /\ path \in [Path -> PathState]
  /\ net \in Seq(Event)
  /\ ui \in UiType

\* As long as the events of one path have not come into another's transfer,
\* no two paths have been at work at once, and the events on their way lead the
\* interface to such a dashboard.
ShownInv ==
  hist.order = "kept" =>
    /\ AloneIn(path)
    /\ ui.pc = "on" => \E d \in DashboardState : Leads(ui.dash, ui.queue \o net, d) /\ Agrees(d)

DashInv ==
  /\ Types
  /\ ~Sends =>
       /\ main.pc \in {"starting", "waiting", "finishing", "ended"}
       /\ ChannelTypes
       /\ ShownInv

\* What becomes of the transfers in the history.
LEMMA HistEnded ==
  ASSUME NEW h \in HistType, NEW how \in End
  PROVE  /\ Ends(h, how).ends = [h.ends EXCEPT ![Len(h.ends)] = how]
         /\ Ends(h, how).order = h.order
         /\ Acts(h).ends = h.ends /\ Acts(h).order = h.order
BY DEF Ends, Acts, HistType

LEMMA HistOrdered ==
  ASSUME NEW h \in HistType, NEW o
  PROVE  [h EXCEPT !.order = o].ends = h.ends /\ [h EXCEPT !.order = o].order = o
BY DEF HistType

\* The steps that touch neither the channels nor the transfers.
LEMMA ShownRest ==
  ASSUME ChannelTypes, ~Sends, ShownInv, hist'.ends = hist.ends, hist'.order = hist.order,
         path' = path, net' = net, ui' = ui,
         main'.pc \in {"starting", "waiting"} => main.pc \in {"starting", "waiting"}
  PROVE  ChannelTypes' /\ ShownInv'
<1>1. ChannelTypes'
  BY DEF ChannelTypes
<1>2. \A d : Agrees(d) => Agrees(d)'
  BY DEF Agrees
<1> QED
  BY <1>1, <1>2 DEF ShownInv

\* The steps that bring the interface to a new dashboard, or events that do.
LEMMA ShownNext ==
  ASSUME ShownInv, hist'.order = "kept" => hist.order = "kept" /\ AloneIn(path'),
         ui' = ui,
         ASSUME NEW d \in DashboardState, Agrees(d), hist'.order = "kept", hist.order = "kept",
                AloneIn(path), ui.pc = "on", Leads(ui.dash, ui.queue \o net, d)
         PROVE  \E l \in DashboardState : Leads(ui.dash, ui.queue \o net', l) /\ Agrees(l)'
  PROVE  ShownInv'
<1> SUFFICES ASSUME hist'.order = "kept" PROVE ShownInv'
  BY DEF ShownInv
<1>1. AloneIn(path')
  OBVIOUS
<1>2. ASSUME ui.pc = "on"
      PROVE  \E l \in DashboardState : Leads(ui.dash, ui.queue \o net', l) /\ Agrees(l)'
  <2>1. PICK d \in DashboardState : Leads(ui.dash, ui.queue \o net, d) /\ Agrees(d)
    BY <1>2 DEF ShownInv
  <2>2. AloneIn(path) /\ hist.order = "kept"
    BY DEF ShownInv
  <2> QED
    BY <1>2, <2>1, <2>2
<1> QED
  BY <1>1, <1>2 DEF ShownInv

\* A table and a stage of the transfer under way, or of none.
LEMMA TableStage ==
  ASSUME NEW ends \in Seq(End), NEW d, Table(d, ends), NEW s \in Stage,
         d.active = NoTransfer \/ s \notin Final
  PROVE  /\ ApplyStage(d, s) \in DashboardState /\ Table(ApplyStage(d, s), ends)
         /\ ApplyStage(d, s).active = NoTransfer <=> d.active = NoTransfer
<1>1. CASE d.active = NoTransfer
  BY <1>1, StageOfNone DEF Table
<1>2. CASE d.active # NoTransfer
  <2>1. Begun(d, ends) /\ s \notin Final
    BY <1>2, TableBegun
  <2>2. Table(ApplyStage(d, s), ends) /\ ApplyStage(d, s).active # NoTransfer
    BY <2>1, StageOfActive
  <2> QED
    BY <1>2, <2>2 DEF Table
<1> QED
  BY <1>1, <1>2

\* ... and a final one of it.
LEMMA TableFinal ==
  ASSUME NEW ends \in Seq(End), NEW d, Table(d, ends), d.active # NoTransfer,
         NEW s \in Final, NEW after, after = [ends EXCEPT ![Len(ends)] = s]
  PROVE  /\ ApplyStage(d, s) \in DashboardState /\ Table(ApplyStage(d, s), after)
         /\ ApplyStage(d, s).active = NoTransfer
<1>1. Begun(d, ends)
  BY TableBegun
<1>2. after \in Seq(End)
  <2>1. Len(ends) \in 1..Len(ends)
    <3>1. Len(ends) \in Nat \ {0}
      BY <1>1, LastRow
    <3> QED
      BY <3>1
  <2>2. s \in End
    BY DEF Final, End
  <2> QED
    BY <2>1, <2>2, ExceptSeq
<1>3. s \in Stage
  BY DEF Final, Stage
<1>4. Table(ApplyStage(d, s), after) /\ ApplyStage(d, s).active = NoTransfer
  BY <1>1, <1>2, <1>3, StageOfActive
<1> QED
  BY <1>4 DEF Table

\* ... and the start of another.
LEMMA TableStart ==
  ASSUME NEW ends \in Seq(End), NEW d, Table(d, ends),
         NEW s \in Stage \ Final, NEW after, after = Append(ends, "open"),
         NEW e, e = ApplyStarted(d, Len(ends) + 1)
  PROVE  /\ e \in DashboardState
         /\ ApplyStage(e, s) \in DashboardState /\ Table(ApplyStage(e, s), after)
         /\ ApplyStage(e, s).active # NoTransfer
<1>1. Begun(e, after)
  BY StartOfNext
<1>2. after \in Seq(End)
  <2>1. "open" \in End
    BY DEF End
  <2> QED
    BY <2>1
<1>3. Table(ApplyStage(e, s), after) /\ ApplyStage(e, s).active # NoTransfer
  BY <1>1, <1>2, StageOfActive
<1> QED
  BY <1>1, <1>3 DEF Begun, Table

\* A session begins a transfer, maybe where one was left in the middle.
LEMMA StartShown ==
  ASSUME Types, ChannelTypes, ShownInv, NEW p \in Path, Start(p)
  PROVE  ChannelTypes' /\ ShownInv'
<1>1. /\ hist \in HistType /\ hist.ends \in Seq(End) /\ path \in [Path -> PathState]
      /\ net \in Seq(Event) /\ ui \in UiType /\ ui.queue \in Seq(Event)
  BY DEF Types, ChannelTypes, HistType, UiType
<1>2. PICK i \in Nat, ends \in Seq(End) :
        i = Len(hist.ends) + 1 /\ ends = Append(hist.ends, "open")
  <2>1. "open" \in End
    BY DEF End
  <2>2. Len(hist.ends) + 1 \in Nat /\ Append(hist.ends, "open") \in Seq(End)
    BY <1>1, <2>1
  <2> QED
    BY <2>2
<1>3. /\ path' = [path EXCEPT ![p] = "started"]
      /\ net' = net \o <<TransferStarted(i), StageChanged("Authenticating")>>
      /\ ui' = ui /\ main' = main /\ main.pc = "waiting"
      /\ hist' = Acts([hist EXCEPT !.ends = ends, !.order = Order(p)])
  BY <1>2 DEF Start, PathStep, Polled
<1>4. Order(p) \in {"kept", "mixed"}
  BY <1>1 DEF Order, HistType
<1>5. hist'.ends = ends /\ hist'.order = Order(p)
  <2>1. PICK h : h = [hist EXCEPT !.ends = ends, !.order = Order(p)]
    OBVIOUS
  <2>2. h \in HistType /\ h.ends = ends /\ h.order = Order(p)
    BY <1>1, <1>4, <2>1 DEF HistType
  <2>3. Acts(h).ends = h.ends /\ Acts(h).order = h.order
    BY <2>2, HistEnded DEF End
  <2> QED
    BY <1>3, <2>1, <2>2, <2>3
<1>6. Order(p) = "kept" => hist.order = "kept" /\ OthersIdle(path, p)
  BY DEF Order, OtherOpen, Open, Idles, OthersIdle
<1>7. "started" \in PathState /\ "started" \in Busy
      /\ "Authenticating" \in Stage \ Final
  BY DEF PathState, Busy, Stage, Final
<1>8. path' \in [Path -> PathState]
  BY <1>1, <1>3, <1>7
<1>9. hist'.order = "kept" =>
        hist.order = "kept" /\ AloneIn(path') /\ BusyIn(path')
  <2> SUFFICES ASSUME Order(p) = "kept"
               PROVE  hist.order = "kept" /\ AloneIn(path') /\ BusyIn(path')
    BY <1>5
  <2>1. "started" \in PathState /\ OthersIdle(path, p)
    BY <1>6, <1>7
  <2>2. AloneIn(path') /\ (BusyIn(path') <=> "started" \in Busy)
    BY <1>1, <1>3, <2>1, OnePath
  <2> QED
    BY <1>3, <1>6, <1>7, <2>2
<1>10. TransferStarted(i) \in Event /\ StageChanged("Authenticating") \in Event
  BY <1>7, EventEffects
<1>11. net' \in Seq(Event)
  <2>1. <<TransferStarted(i), StageChanged("Authenticating")>> \in Seq(Event)
    BY <1>10
  <2> QED
    BY <1>1, <1>3, <2>1, ConcatProperties
<1>12. ASSUME NEW d \in DashboardState, Agrees(d), hist'.order = "kept", hist.order = "kept",
              AloneIn(path), ui.pc = "on", Leads(ui.dash, ui.queue \o net, d)
       PROVE  \E l \in DashboardState : Leads(ui.dash, ui.queue \o net', l) /\ Agrees(l)'
  <2>1. Table(d, hist.ends)
    BY <1>12 DEF Agrees
  <2>2. PICK e : e = ApplyStarted(d, i)
    OBVIOUS
  <2>3. PICK l : l = ApplyStage(e, "Authenticating")
    OBVIOUS
  <2>4. e \in DashboardState /\ l \in DashboardState /\ Table(l, ends) /\ l.active # NoTransfer
    BY <1>1, <1>2, <1>7, <2>1, <2>2, <2>3, TableStart
  <2>5. e = ApplyEvent(d, TransferStarted(i)) /\ l = ApplyEvent(e, StageChanged("Authenticating"))
    BY <1>7, <2>2, <2>3, EventEffects
  <2>6. Leads(ui.dash, ui.queue \o net', l)
    BY <1>1, <1>3, <1>10, <1>12, <2>4, <2>5, LeadsTwo
  <2>7. Agrees(l)'
    BY <1>5, <1>9, <1>12, <2>4 DEF Agrees
  <2> QED
    BY <2>4, <2>6, <2>7
<1>13. ShownInv'
  BY <1>3, <1>9, <1>12, ShownNext
<1> QED
  BY <1>1, <1>3, <1>8, <1>11, <1>13 DEF ChannelTypes

\* A path goes on with its transfer.
LEMMA WorkShown ==
  ASSUME Types, ChannelTypes, ShownInv, NEW p \in Path, Header(p) \/ Chunk(p) \/ Verify(p)
  PROVE  ChannelTypes' /\ ShownInv'
<1>1. /\ hist \in HistType /\ hist.ends \in Seq(End) /\ path \in [Path -> PathState]
      /\ net \in Seq(Event) /\ ui \in UiType /\ ui.queue \in Seq(Event)
  BY DEF Types, ChannelTypes, HistType, UiType
<1>2. PICK e \in {Progress, StageChanged("ReceivingManifest"), StageChanged("Verifying")},
           to \in {"receiving", "unpacking"} :
        path' = [path EXCEPT ![p] = to] /\ net' = net \o <<e>>
  BY DEF Header, Chunk, Verify, PathStep
<1>3. /\ path[p] \in {"started", "receiving"}
      /\ ui' = ui /\ main' = main /\ main.pc = "waiting" /\ hist' = Acts(hist)
  BY DEF Header, Chunk, Verify, PathStep, Polled
<1>4. hist'.ends = hist.ends /\ hist'.order = hist.order
  BY <1>1, <1>3, HistEnded DEF End
<1>5. /\ {"started", "receiving", "unpacking"} \subseteq PathState
      /\ {"started", "receiving", "unpacking"} \subseteq Busy
      /\ {"ReceivingManifest", "Verifying"} \subseteq Stage \ Final
      /\ ~Idles("started") /\ ~Idles("receiving")
  BY DEF PathState, Busy, Stage, Final, Idles
<1>6. path' \in [Path -> PathState]
  BY <1>1, <1>2, <1>5
<1>7. hist.order = "kept" => AloneIn(path') /\ BusyIn(path') /\ BusyIn(path)
  <2> SUFFICES ASSUME hist.order = "kept" PROVE AloneIn(path') /\ BusyIn(path') /\ BusyIn(path)
    OBVIOUS
  <2>1. OthersIdle(path, p)
    BY <1>3, <1>5 DEF ShownInv, AloneIn, OthersIdle
  <2>2. to \in PathState /\ to \in Busy /\ path[p] \in Busy
    BY <1>3, <1>5
  <2>3. AloneIn(path') /\ (BusyIn(path') <=> to \in Busy) /\ (BusyIn(path) <=> path[p] \in Busy)
    BY <1>1, <1>2, <2>1, <2>2, OnePath
  <2> QED
    BY <2>2, <2>3
<1>8. e \in Event
  BY <1>5, EventEffects
<1>9. net' \in Seq(Event)
  <2>1. <<e>> \in Seq(Event)
    BY <1>8
  <2> QED
    BY <1>1, <1>2, <2>1, ConcatProperties
<1>10. ASSUME NEW d \in DashboardState, Agrees(d), hist'.order = "kept", hist.order = "kept",
              AloneIn(path), ui.pc = "on", Leads(ui.dash, ui.queue \o net, d)
       PROVE  \E l \in DashboardState : Leads(ui.dash, ui.queue \o net', l) /\ Agrees(l)'
  <2>1. Table(d, hist.ends) /\ d.active # NoTransfer
    BY <1>3, <1>7, <1>10 DEF Agrees
  <2>2. PICK l : l = ApplyEvent(d, e)
    OBVIOUS
  <2>3. l \in DashboardState /\ Table(l, hist.ends) /\ l.active # NoTransfer
    <3>1. CASE e = Progress
      BY <2>1, <2>2, <3>1, EventEffects
    <3>2. ASSUME NEW s \in {"ReceivingManifest", "Verifying"}, e = StageChanged(s)
          PROVE  l \in DashboardState /\ Table(l, hist.ends) /\ l.active # NoTransfer
      <4>1. l = ApplyStage(d, s)
        BY <1>5, <2>2, <3>2, EventEffects
      <4> QED
        BY <1>1, <1>5, <2>1, <4>1, TableStage
    <3> QED
      BY <3>1, <3>2
  <2>4. Leads(ui.dash, ui.queue \o net', l)
    BY <1>1, <1>2, <1>8, <1>10, <2>2, <2>3, LeadsOne
  <2>5. Agrees(l)'
    BY <1>4, <1>7, <1>10, <2>3 DEF Agrees
  <2> QED
    BY <2>3, <2>4, <2>5
<1>11. ShownInv'
  BY <1>3, <1>4, <1>7, <1>10, ShownNext
<1> QED
  BY <1>1, <1>3, <1>6, <1>9, <1>11 DEF ChannelTypes

\* The channel to the fanout takes one event, or two.
LEMMA NetTypes ==
  ASSUME net \in Seq(Event), NEW e \in Event, NEW f \in Event,
         net' = net \o <<e>> \/ net' = net \o <<e, f>>
  PROVE  net' \in Seq(Event)
<1>1. <<e>> \in Seq(Event) /\ <<e, f>> \in Seq(Event)
  OBVIOUS
<1> QED
  BY <1>1, ConcatProperties

\* The only transfer under way ends.
LEMMA EndShown ==
  ASSUME Types, ChannelTypes, ShownInv, NEW s \in Final,
         hist'.ends = [hist.ends EXCEPT ![Len(hist.ends)] = s],
         path' \in [Path -> PathState], ui' = ui, main' = main, main.pc = "waiting",
         hist'.order = "kept" =>
           hist.order = "kept" /\ AloneIn(path') /\ BusyIn(path) /\ ~BusyIn(path'),
         \/ net' = net \o <<StageChanged(s)>>
         \/ net' = net \o <<StageChanged(s), StageChanged("Discovering")>>
  PROVE  ChannelTypes' /\ ShownInv'
<1>1. /\ hist \in HistType /\ hist.ends \in Seq(End) /\ path \in [Path -> PathState]
      /\ net \in Seq(Event) /\ ui \in UiType /\ ui.queue \in Seq(Event)
  BY DEF Types, ChannelTypes, HistType, UiType
<1>2. s \in Stage /\ s \in End /\ "Discovering" \in Stage /\ "Discovering" \notin Final
  BY DEF Final, Stage, End
<1>3. PICK e \in Event, f \in Event : e = StageChanged(s) /\ f = StageChanged("Discovering")
  BY <1>2, EventEffects
<1>4. net' \in Seq(Event)
  BY <1>1, <1>3, NetTypes
<1>5. PICK ends : ends = [hist.ends EXCEPT ![Len(hist.ends)] = s]
  OBVIOUS
<1>6. ASSUME NEW d \in DashboardState, Agrees(d), hist'.order = "kept", hist.order = "kept",
              AloneIn(path), ui.pc = "on", Leads(ui.dash, ui.queue \o net, d)
       PROVE  \E l \in DashboardState : Leads(ui.dash, ui.queue \o net', l) /\ Agrees(l)'
  <2>1. Table(d, hist.ends) /\ d.active # NoTransfer
    BY <1>6 DEF Agrees
  <2>2. ends \in Seq(End)
    <3>1. Len(hist.ends) \in 1..Len(hist.ends)
      <4>1. Len(hist.ends) \in Nat \ {0}
        BY <1>1, <2>1, TableBegun, LastRow
      <4> QED
        BY <4>1
    <3> QED
      BY <1>1, <1>2, <1>5, <3>1, ExceptSeq
  <2>3. PICK l : l = ApplyStage(d, s)
    OBVIOUS
  <2>4. l \in DashboardState /\ Table(l, ends) /\ l.active = NoTransfer
    BY <1>1, <1>5, <2>1, <2>3, TableFinal
  <2>5. PICK k : k = ApplyStage(l, "Discovering")
    OBVIOUS
  <2>6. k \in DashboardState /\ Table(k, ends) /\ k.active = NoTransfer
    BY <1>2, <2>2, <2>4, <2>5, TableStage
  <2>7. l = ApplyEvent(d, e) /\ k = ApplyEvent(l, f)
    BY <1>2, <1>3, <2>3, <2>5, EventEffects
  <2>8. Agrees(l)' /\ Agrees(k)'
    BY <1>5, <1>6, <2>4, <2>6 DEF Agrees
  <2>9. CASE net' = net \o <<e>>
    <3>1. Leads(ui.dash, ui.queue \o net', l)
      BY <1>1, <1>6, <2>4, <2>7, <2>9, LeadsOne
    <3> QED
      BY <2>4, <2>8, <3>1
  <2>10. CASE net' = net \o <<e, f>>
    <3>1. Leads(ui.dash, ui.queue \o net', k)
      BY <1>1, <1>6, <2>4, <2>6, <2>7, <2>10, LeadsTwo
    <3> QED
      BY <2>6, <2>8, <3>1
  <2> QED
    BY <1>3, <2>9, <2>10
<1>7. ShownInv'
  BY <1>6, ShownNext
<1> QED
  BY <1>1, <1>4, <1>7 DEF ChannelTypes

\* Stages of no transfer.
LEMMA IdleShown ==
  ASSUME Types, ChannelTypes, ShownInv, NEW s \in Stage, NEW t \in Stage, hist'.ends = hist.ends,
         path' \in [Path -> PathState], ui' = ui, main.pc = "waiting",
         hist'.order = "kept" =>
           hist.order = "kept" /\ AloneIn(path') /\ ~BusyIn(path) /\ ~BusyIn(path'),
         \/ net' = net \o <<StageChanged(s)>>
         \/ net' = net \o <<StageChanged(s), StageChanged(t)>>
         \/ net' = net \o <<StageChanged(s), Shutdown>>
  PROVE  ChannelTypes' /\ ShownInv'
<1>1. /\ hist \in HistType /\ hist.ends \in Seq(End) /\ path \in [Path -> PathState]
      /\ net \in Seq(Event) /\ ui \in UiType /\ ui.queue \in Seq(Event)
  BY DEF Types, ChannelTypes, HistType, UiType
<1>2. PICK e \in Event, f \in Event, g \in Event :
        e = StageChanged(s) /\ f = StageChanged(t) /\ g = Shutdown
  BY EventEffects
<1>3. net' \in Seq(Event)
  BY <1>1, <1>2, NetTypes
<1>4. ASSUME NEW d \in DashboardState, Agrees(d), hist'.order = "kept", hist.order = "kept",
              AloneIn(path), ui.pc = "on", Leads(ui.dash, ui.queue \o net, d)
       PROVE  \E l \in DashboardState : Leads(ui.dash, ui.queue \o net', l) /\ Agrees(l)'
  <2>1. Table(d, hist.ends) /\ d.active = NoTransfer
    BY <1>4 DEF Agrees
  <2>2. PICK l : l = ApplyStage(d, s)
    OBVIOUS
  <2>3. l \in DashboardState /\ Table(l, hist.ends) /\ l.active = NoTransfer
    BY <1>1, <2>1, <2>2, TableStage
  <2>4. PICK k : k = ApplyStage(l, t)
    OBVIOUS
  <2>5. k \in DashboardState /\ Table(k, hist.ends) /\ k.active = NoTransfer
    BY <1>1, <2>3, <2>4, TableStage
  <2>6. l = ApplyEvent(d, e) /\ k = ApplyEvent(l, f) /\ l = ApplyEvent(l, g)
    BY <1>2, <2>2, <2>4, EventEffects
  <2>7. Agrees(l)' /\ Agrees(k)'
    BY <1>4, <2>3, <2>5 DEF Agrees
  <2>8. CASE net' = net \o <<e>>
    <3>1. Leads(ui.dash, ui.queue \o net', l)
      BY <1>1, <1>4, <2>3, <2>6, <2>8, LeadsOne
    <3> QED
      BY <2>3, <2>7, <3>1
  <2>9. CASE net' = net \o <<e, f>>
    <3>1. Leads(ui.dash, ui.queue \o net', k)
      BY <1>1, <1>4, <2>3, <2>5, <2>6, <2>9, LeadsTwo
    <3> QED
      BY <2>5, <2>7, <3>1
  <2>10. CASE net' = net \o <<e, g>>
    <3>1. Leads(ui.dash, ui.queue \o net', l)
      BY <1>1, <1>4, <2>3, <2>6, <2>10, LeadsTwo
    <3> QED
      BY <2>3, <2>7, <3>1
  <2> QED
    BY <1>2, <2>8, <2>9, <2>10
<1>5. ShownInv'
  BY <1>4, ShownNext
<1> QED
  BY <1>1, <1>3, <1>5 DEF ChannelTypes

\* recv comes to its end.
LEMMA OverShown ==
  ASSUME Types, ChannelTypes, ShownInv, hist' = hist, ui' = ui,
         path' = [p \in Path |-> "waiting"], main'.pc = "finishing",
         net' = net \o <<Shutdown>> \/ net' = net \o <<Shutdown, Shutdown>>
  PROVE  ChannelTypes' /\ ShownInv'
<1>1. net \in Seq(Event) /\ ui \in UiType /\ ui.queue \in Seq(Event)
  BY DEF ChannelTypes, UiType
<1>2. path' \in [Path -> PathState] /\ AloneIn(path')
  BY AllWait
<1>3. PICK e \in Event : e = Shutdown /\ \A d : ApplyEvent(d, e) = d
  BY EventEffects
<1>4. net' \in Seq(Event)
  BY <1>1, <1>3, NetTypes
<1>5. ASSUME NEW d \in DashboardState, Agrees(d), hist'.order = "kept", hist.order = "kept",
              AloneIn(path), ui.pc = "on", Leads(ui.dash, ui.queue \o net, d)
       PROVE  \E l \in DashboardState : Leads(ui.dash, ui.queue \o net', l) /\ Agrees(l)'
  <2>1. d = ApplyEvent(d, e)
    BY <1>3
  <2>2. Agrees(d)'
    BY <1>5 DEF Agrees
  <2>3. CASE net' = net \o <<e>>
    <3>1. Leads(ui.dash, ui.queue \o net', d)
      BY <1>1, <1>5, <2>1, <2>3, LeadsOne
    <3> QED
      BY <2>2, <3>1
  <2>4. CASE net' = net \o <<e, e>>
    <3>1. Leads(ui.dash, ui.queue \o net', d)
      BY <1>1, <1>5, <2>1, <2>4, LeadsTwo
    <3> QED
      BY <2>2, <3>1
  <2> QED
    BY <1>3, <2>3, <2>4
<1>6. ShownInv'
  BY <1>2, <1>5, ShownNext
<1> QED
  BY <1>1, <1>2, <1>4, <1>6 DEF ChannelTypes

\* A transfer fails, or what came before one, or a response.
LEMMA FailShown ==
  ASSUME Types, ChannelTypes, ShownInv, NEW p \in Path,
         (p = "direct" /\ Fail) \/ RequestFails(p)
  PROVE  ChannelTypes' /\ ShownInv'
<1> DEFINE fails == path[p] \in {"started", "receiving"}
<1>1. hist \in HistType /\ path \in [Path -> PathState]
  BY DEF Types, ChannelTypes
<1>2. /\ net' = net \o <<StageChanged("Failed")>>
      /\ ui' = ui /\ main' = main /\ main.pc = "waiting"
      /\ path[p] \in {"waiting", "started", "receiving", "answering"}
  BY DEF Fail, RequestFails, PathStep, Polled
<1>3. PICK to \in {"waiting", path[p]}, o \in {"mixed", Order(p)} :
        /\ path' = [path EXCEPT ![p] = to]
        /\ hist' = [(IF fails THEN Ends(hist, "Failed") ELSE Acts(hist)) EXCEPT !.order = o]
        /\ o # "mixed" /\ fails => to = "waiting"
  <2>1. CASE p = "direct" /\ Fail
    BY <2>1 DEF Fail, PathStep, Open
  <2>2. CASE RequestFails(p)
    BY <2>2 DEF RequestFails, PathStep
  <2> QED
    BY <2>1, <2>2
<1>4. PICK h : h = IF fails THEN Ends(hist, "Failed") ELSE Acts(hist)
  OBVIOUS
<1>5. "Failed" \in End /\ "Failed" \in Final /\ "Failed" \in Stage
      /\ "waiting" \in PathState /\ "waiting" \notin Busy /\ "answering" \notin Busy
      /\ {"started", "receiving"} \subseteq Busy
  BY DEF End, Final, Stage, PathState, Busy
<1>6. h \in HistType /\ (fails => h.ends = [hist.ends EXCEPT ![Len(hist.ends)] = "Failed"])
      /\ (~fails => h.ends = hist.ends)
  BY <1>1, <1>4, <1>5, HistEnds, HistActs, HistEnded
<1>7. hist'.ends = h.ends /\ hist'.order = o
  BY <1>3, <1>4, <1>6, HistOrdered
<1>8. to \in PathState /\ path' \in [Path -> PathState]
  BY <1>1, <1>3, <1>5
<1>9. hist'.order = "kept" =>
        /\ hist.order = "kept" /\ AloneIn(path') /\ ~BusyIn(path')
        /\ BusyIn(path) <=> fails
  <2> SUFFICES ASSUME o = "kept"
               PROVE  /\ hist.order = "kept" /\ AloneIn(path') /\ ~BusyIn(path')
                      /\ BusyIn(path) <=> fails
    BY <1>7
  <2>1. Order(p) = "kept" /\ (fails => to = "waiting")
    BY <1>3
  <2>2. hist.order = "kept" /\ OthersIdle(path, p)
    BY <2>1 DEF Order, OtherOpen, Open, Idles, OthersIdle
  <2>3. PICK after : after = path' /\ after = [path EXCEPT ![p] = to]
    BY <1>3
  <2>4. AloneIn(after) /\ (BusyIn(after) <=> to \in Busy)
        /\ (BusyIn(path) <=> path[p] \in Busy)
    BY <1>1, <1>8, <2>2, <2>3, OnePath
  <2>5. to \notin Busy /\ (path[p] \in Busy <=> fails)
    BY <1>2, <1>3, <1>5, <2>1
  <2>6. AloneIn(path') /\ ~BusyIn(path')
    BY <2>3, <2>4, <2>5 DEF AloneIn, BusyIn
  <2> QED
    BY <2>2, <2>4, <2>5, <2>6
<1>10. CASE ~fails
  <2>1. hist'.ends = hist.ends
    BY <1>6, <1>7, <1>10
  <2>2. hist'.order = "kept" =>
          hist.order = "kept" /\ AloneIn(path') /\ ~BusyIn(path) /\ ~BusyIn(path')
    BY <1>9, <1>10
  <2> QED
    BY <1>2, <1>5, <1>8, <2>1, <2>2, IdleShown
<1>11. CASE fails
  <2>1. hist'.ends = [hist.ends EXCEPT ![Len(hist.ends)] = "Failed"]
    BY <1>6, <1>7, <1>11
  <2>2. hist'.order = "kept" =>
          hist.order = "kept" /\ AloneIn(path') /\ BusyIn(path) /\ ~BusyIn(path')
    BY <1>9, <1>11
  <2> QED
    BY <1>2, <1>5, <1>8, <2>1, <2>2, EndShown
<1> QED
  BY <1>10, <1>11

\* A transfer ends with its archive unpacked, or refused.
LEMMA UnpackedShown ==
  ASSUME Types, ChannelTypes, ShownInv, NEW p \in Path, Unpacked(p)
  PROVE  ChannelTypes' /\ ShownInv'
<1>1. hist \in HistType /\ path \in [Path -> PathState] /\ net \in Seq(Event)
  BY DEF Types, ChannelTypes
<1>2. ui' = ui /\ main' = main /\ main.pc = "waiting" /\ path[p] = "unpacking"
  BY DEF Unpacked
<1>3. /\ {"Failed", "Complete"} \subseteq End /\ {"Failed", "Complete"} \subseteq Final
      /\ {"Failed", "Complete"} \subseteq Stage
      /\ {"waiting", "answering"} \subseteq PathState
      /\ "waiting" \notin Busy /\ "answering" \notin Busy
      /\ "unpacking" \in Busy /\ ~Idles("unpacking")
  BY DEF End, Final, Stage, PathState, Busy, Idles
<1>4. ASSUME NEW e \in Event PROVE Append(net, e) = net \o <<e>>
  BY <1>1
<1>5. PICK s \in {"Failed", "Complete"} :
        /\ hist' = Ends(hist, s) \/ hist' = [Ends(hist, s) EXCEPT !.order = Order(p)]
        /\ \/ net' = Append(net, StageChanged(s))
           \/ net' = net \o <<StageChanged(s), StageChanged("Discovering")>>
        /\ \/ \E to \in {"waiting", "answering"} : path' = [path EXCEPT ![p] = to]
           \/ path' = [q \in Path |-> "waiting"]
  BY DEF Unpacked
<1>6. StageChanged(s) \in Event
  BY <1>3, EventEffects
<1>7. /\ hist'.ends = [hist.ends EXCEPT ![Len(hist.ends)] = s]
      /\ hist'.order = hist.order \/ hist'.order = Order(p)
  <2>1. Ends(hist, s) \in HistType /\ Ends(hist, s).order = hist.order
        /\ Ends(hist, s).ends = [hist.ends EXCEPT ![Len(hist.ends)] = s]
    BY <1>1, <1>3, HistEnds, HistEnded
  <2>2. PICK h \in HistType : h = Ends(hist, s)
    BY <2>1
  <2>3. [h EXCEPT !.order = Order(p)].ends = h.ends
        /\ [h EXCEPT !.order = Order(p)].order = Order(p)
    BY HistOrdered
  <2> QED
    BY <1>5, <2>1, <2>2, <2>3
<1>8. hist'.order = "kept" => hist.order = "kept"
  BY <1>7 DEF Order
<1>9. path' \in [Path -> PathState]
  BY <1>1, <1>3, <1>5, AllWait
<1>10. hist.order = "kept" => AloneIn(path') /\ ~BusyIn(path') /\ BusyIn(path)
  <2> SUFFICES ASSUME hist.order = "kept" PROVE AloneIn(path') /\ ~BusyIn(path') /\ BusyIn(path)
    OBVIOUS
  <2>1. OthersIdle(path, p)
    BY <1>2, <1>3 DEF ShownInv, AloneIn, OthersIdle
  <2>2. BusyIn(path)
    BY <1>2, <1>3 DEF BusyIn
  <2>3. ASSUME NEW to \in {"waiting", "answering"}, path' = [path EXCEPT ![p] = to]
        PROVE  AloneIn(path') /\ ~BusyIn(path')
    <3>1. to \in PathState /\ to \notin Busy
      BY <1>3
    <3>2. AloneIn(path') /\ (BusyIn(path') <=> to \in Busy)
      BY <1>1, <2>1, <2>3, <3>1, OnePath
    <3> QED
      BY <3>1, <3>2
  <2> QED
    BY <1>5, <2>2, <2>3, AllWait
<1>11. \/ net' = net \o <<StageChanged(s)>>
       \/ net' = net \o <<StageChanged(s), StageChanged("Discovering")>>
  BY <1>4, <1>5, <1>6
<1> QED
  BY <1>2, <1>3, <1>7, <1>8, <1>9, <1>10, <1>11, EndShown

\* The response to a libp2p sender is out.
LEMMA AnsweredShown ==
  ASSUME Types, ChannelTypes, ShownInv, NEW p \in Path, Answered(p)
  PROVE  ChannelTypes' /\ ShownInv'
<1>1. hist \in HistType /\ path \in [Path -> PathState]
  BY DEF Types, ChannelTypes
<1>2. /\ path[p] = "answering"
      /\ path' = [q \in Path |-> "waiting"]
      /\ net' = net \o <<StageChanged("Complete"), StageChanged("Discovering")>>
      /\ ui' = ui /\ main' = main /\ main.pc = "waiting" /\ hist' = Acts(hist)
  BY DEF Answered, Polled
<1>3. hist'.ends = hist.ends /\ hist'.order = hist.order
  BY <1>1, <1>2, HistEnded DEF End
<1>4. {"Complete", "Discovering"} \subseteq Stage /\ "answering" \notin Busy /\ ~Idles("answering")
  BY DEF Stage, Busy, Idles
<1>5. path' \in [Path -> PathState] /\ AloneIn(path') /\ ~BusyIn(path')
  BY <1>2, AllWait
<1>6. hist.order = "kept" => ~BusyIn(path)
  <2> SUFFICES ASSUME hist.order = "kept" PROVE ~BusyIn(path)
    OBVIOUS
  <2>1. \A q \in Path : Idles(path[q]) \/ q = p
    BY <1>2, <1>4 DEF ShownInv, AloneIn
  <2> QED
    BY <1>2, <1>4, <2>1 DEF BusyIn, Idles, Busy
<1> QED
  BY <1>2, <1>3, <1>4, <1>5, <1>6, IdleShown

\* A path returns an error, maybe the last.
LEMMA StopsShown ==
  ASSUME Types, ChannelTypes, ShownInv, NEW route \in Routes, PathStops(route)
  PROVE  ChannelTypes' /\ ShownInv'
<1>1. hist \in HistType /\ path \in [Path -> PathState] /\ net \in Seq(Event)
  BY DEF Types, ChannelTypes
<1>2. ui' = ui /\ main.pc = "waiting"
  BY DEF PathStops, Polled
<1>3. hist'.ends = hist.ends
      /\ (hist'.order = "kept" => hist.order = "kept" /\ \A p \in route : Idles(path[p]))
  <2>1. PICK o \in {"kept", "mixed"} :
          /\ hist' = [hist EXCEPT !.order = o]
          /\ o = "kept" => hist.order = "kept" /\ \A p \in route : ~Open(p)
    BY <1>1 DEF PathStops, HistType
  <2>2. hist'.ends = hist.ends /\ hist'.order = o
    BY <1>1, <2>1, HistOrdered
  <2> QED
    BY <2>1, <2>2 DEF Open, Idles
<1>4. CASE /\ path' = [p \in Path |-> IF p \in route THEN "stopped" ELSE path[p]]
           /\ main' = main /\ net' = net
  <2>1. path' \in [Path -> PathState]
    BY <1>1, <1>4 DEF PathState
  <2>2. hist'.order = "kept" => AloneIn(path) /\ hist.order = "kept"
    BY <1>3 DEF ShownInv
  <2>3. hist'.order = "kept" => \A q \in Path : Idles(path'[q]) <=> Idles(path[q])
    BY <1>1, <1>3, <1>4 DEF Idles
  <2>4. hist'.order = "kept" => (BusyIn(path') <=> BusyIn(path))
    BY <1>1, <1>3, <1>4 DEF BusyIn, Busy, Idles
  <2>5. hist'.order = "kept" => AloneIn(path')
    BY <2>2, <2>3 DEF AloneIn
  <2>6. ASSUME NEW d \in DashboardState, Agrees(d), hist'.order = "kept", hist.order = "kept",
              AloneIn(path), ui.pc = "on", Leads(ui.dash, ui.queue \o net, d)
        PROVE  \E l \in DashboardState : Leads(ui.dash, ui.queue \o net', l) /\ Agrees(l)'
    <3>1. Agrees(d)'
      BY <1>3, <1>4, <2>4, <2>6 DEF Agrees
    <3> QED
      BY <1>4, <2>6, <3>1
  <2>7. ShownInv'
    BY <1>2, <2>2, <2>5, <2>6, ShownNext
  <2> QED
    BY <1>2, <1>4, <2>1, <2>7 DEF ChannelTypes
<1>5. CASE /\ \A q \in Path \ route : path[q] = "stopped"
           /\ path' = [q \in Path |-> "waiting"]
           /\ net' = net \o <<StageChanged("Failed"), Shutdown>>
  <2>1. path' \in [Path -> PathState] /\ AloneIn(path') /\ ~BusyIn(path')
    BY <1>5, AllWait
  <2>2. hist'.order = "kept" => ~BusyIn(path)
    BY <1>3, <1>5 DEF BusyIn, Busy, Idles
  <2>3. "Failed" \in Stage
    BY DEF Stage
  <2> QED
    BY <1>2, <1>3, <1>5, <2>1, <2>2, <2>3, IdleShown
<1>6. Append(<<StageChanged("Failed")>>, Shutdown) = <<StageChanged("Failed"), Shutdown>>
  <2>1. PICK e \in Event, f \in Event : e = StageChanged("Failed") /\ f = Shutdown
    <3>1. "Failed" \in Stage
      BY DEF Stage
    <3> QED
      BY <3>1, EventEffects
  <2>2. <<e>> \in Seq(Event) /\ <<e>> \o <<f>> = <<e, f>>
    BY TwoEvents
  <2>3. PICK q \in Seq(Event) : q = <<e>>
    BY <2>2
  <2>4. Append(q, f) = q \o <<f>>
    OBVIOUS
  <2> QED
    BY <2>1, <2>2, <2>3, <2>4
<1> QED
  BY <1>4, <1>5, <1>6 DEF PathStops, Finish

\* An event makes a dashboard of a dashboard.
LEMMA EventTypes ==
  ASSUME NEW d \in DashboardState, NEW e \in Event
  PROVE  ApplyEvent(d, e) \in DashboardState
<1>1. d.rows \in Seq(Row) /\ d.stage \in Stage /\ d.active \in Nat
  BY DEF DashboardState, Row
<1>2. ASSUME NEW s \in Stage PROVE ApplyStage(d, s) \in DashboardState
  <2>1. PICK row : row = RowOf(d, d.active)
    OBVIOUS
  <2>2. PICK rows \in Seq(Row) : rows = IF row = 0 THEN d.rows ELSE [d.rows EXCEPT ![row].stage = s]
    <3>1. CASE row = 0
      BY <1>1, <3>1
    <3>2. CASE row # 0 /\ row \in 1..Len(d.rows)
      <4>1. PICK r \in Row : r = [d.rows[row] EXCEPT !.stage = s]
        <5>1. d.rows[row] \in Row
          BY <1>1, <3>2
        <5> QED
          BY <5>1 DEF Row
      <4>2. [d.rows EXCEPT ![row] = r] \in Seq(Row)
        BY <1>1, <3>2, ExceptSeq
      <4> QED
        BY <3>2, <4>1, <4>2
    <3>3. CASE row # 0 /\ row \notin 1..Len(d.rows)
      <4>1. DOMAIN d.rows = 1..Len(d.rows) /\ d.rows = [i \in 1..Len(d.rows) |-> d.rows[i]]
        BY <1>1
      <4>2. [d.rows EXCEPT ![row].stage = s] = d.rows
        BY <3>3, <4>1
      <4> QED
        BY <1>1, <3>3, <4>2
    <3> QED
      BY <3>1, <3>2, <3>3
  <2>3. PICK active \in Nat : active = IF s \in Final THEN NoTransfer ELSE d.active
    BY <1>1 DEF NoTransfer
  <2>4. ApplyStage(d, s) = [d EXCEPT !.stage = s, !.rows = rows, !.active = active]
    BY <2>1, <2>2, <2>3 DEF ApplyStage
  <2> QED
    BY <2>4 DEF DashboardState, Row
<1>3. ASSUME NEW i \in Nat PROVE ApplyStarted(d, i) \in DashboardState
  <2>1. PICK row \in Row : row = [id |-> i, stage |-> d.stage]
    BY <1>1 DEF Row
  <2>2. PICK all \in Seq(Row) : all = Append(d.rows, row) /\ all # << >>
    <3>1. Append(d.rows, row) \in Seq(Row) /\ Append(d.rows, row) # << >>
      BY <1>1
    <3> QED
      BY <3>1
  <2>3. PICK rows \in Seq(Row) : rows = IF Len(all) > MaxRows THEN Tail(all) ELSE all
    <3>1. Tail(all) \in Seq(Row)
      BY <2>2
    <3> QED
      BY <3>1
  <2>4. ApplyStarted(d, i) = [d EXCEPT !.active = i, !.rows = rows]
    BY <2>1, <2>2, <2>3 DEF ApplyStarted
  <2> QED
    BY <2>4 DEF DashboardState, Row
<1> QED
  BY <1>2, <1>3 DEF ApplyEvent, Event

\* What comes out of one channel goes into the other.
LEMMA HandedOn ==
  ASSUME NEW q \in Seq(Event), NEW n \in Seq(Event), n # << >>
  PROVE  /\ q \o <<Head(n)>> \in Seq(Event) /\ Tail(n) \in Seq(Event)
         /\ (q \o <<Head(n)>>) \o Tail(n) = q \o n
<1>1. PICK h \in Event, t \in Seq(Event) : h = Head(n) /\ t = Tail(n)
  <2>1. Head(n) \in Event /\ Tail(n) \in Seq(Event)
    OBVIOUS
  <2> QED
    BY <2>1
<1>2. PICK one \in Seq(Event) : one = <<h>>
  <2>1. <<h>> \in Seq(Event)
    OBVIOUS
  <2> QED
    BY <2>1
<1>3. one \o t = n
  <2>1. PICK m : m = one \o t
    OBVIOUS
  <2>2. Len(one) = 1 /\ one[1] = h
    BY <1>2
  <2>3. /\ m \in Seq(Event) /\ Len(m) = 1 + Len(t)
        /\ \A i \in 1..(1 + Len(t)) : m[i] = IF i <= 1 THEN one[i] ELSE t[i - 1]
    <3>1. /\ one \o t \in Seq(Event) /\ Len(one \o t) = Len(one) + Len(t)
          /\ \A i \in 1..(Len(one) + Len(t)) :
               (one \o t)[i] = IF i <= Len(one) THEN one[i] ELSE t[i - Len(one)]
      BY ConcatProperties
    <3> QED
      BY <2>1, <2>2, <3>1
  <2>4. Len(t) = Len(n) - 1 /\ Len(n) \in Nat \ {0} /\ h = n[1]
        /\ \A i \in 1..(Len(n) - 1) : t[i] = n[i + 1]
    BY <1>1
  <2>5. ASSUME NEW i \in 1..Len(n) PROVE m[i] = n[i]
    <3>1. i \in 1..(1 + Len(t))
      BY <2>4
    <3>2. CASE i = 1
      BY <2>2, <2>3, <2>4, <3>1, <3>2
    <3>3. CASE i # 1
      <4>1. i - 1 \in 1..(Len(n) - 1) /\ ~(i <= 1) /\ (i - 1) + 1 = i
        BY <2>4, <3>3
      <4>2. m[i] = t[i - 1]
        BY <2>3, <3>1, <4>1
      <4>3. t[i - 1] = n[(i - 1) + 1]
        BY <2>4, <4>1
      <4> QED
        BY <4>1, <4>2, <4>3
    <3> QED
      BY <3>2, <3>3
  <2>6. Len(m) = Len(n)
    BY <2>3, <2>4
  <2> QED
    BY <2>1, <2>3, <2>5, <2>6, SeqEqual
<1>4. (q \o one) \o t = q \o (one \o t)
  BY ConcatAssociative
<1> QED
  BY <1>1, <1>2, <1>3, <1>4, ConcatProperties

\* The first of two channels that lie one behind the other.
LEMMA FirstOfTwo ==
  ASSUME NEW q \in Seq(Event), NEW n \in Seq(Event), q # << >>
  PROVE  /\ q \o n # << >> /\ Head(q \o n) = Head(q) /\ Tail(q \o n) = Tail(q) \o n
         /\ q \o n \in Seq(Event) /\ Tail(q) \in Seq(Event) /\ Head(q) \in Event
<1>1. Head(q) \in Event /\ Tail(q) \in Seq(Event) /\ << >> \in Seq(Event)
  OBVIOUS
<1>2. /\ << >> \o <<Head(q)>> = <<Head(q)>>
      /\ << >> \o q = q
      /\ (<< >> \o <<Head(q)>>) \o Tail(q) = << >> \o q
  <2>1. <<Head(q)>> \in Seq(Event)
    BY <1>1
  <2> QED
    BY <1>1, <2>1, HandedOn, ConcatEmptySeq
<1>3. PICK one \in Seq(Event), t \in Seq(Event), h \in Event :
        one = <<h>> /\ t = Tail(q) /\ h = Head(q) /\ q = one \o t
  <2>1. <<Head(q)>> \in Seq(Event)
    BY <1>1
  <2> QED
    BY <1>1, <1>2, <2>1
<1>4. q \o n = one \o (t \o n)
  BY <1>3, ConcatAssociative
<1>5. PICK m \in Seq(Event) : m = t \o n
  BY ConcatProperties
<1>6. PICK s \in Seq(Event) : s = one \o m
  BY ConcatProperties
<1>7. Len(one) = 1 /\ one[1] = h
  BY <1>3
<1>8. Len(s) = 1 + Len(m) /\ \A i \in 1..(1 + Len(m)) : s[i] = IF i <= 1 THEN one[i] ELSE m[i - 1]
  <2>1. /\ Len(one \o m) = Len(one) + Len(m)
        /\ \A i \in 1..(Len(one) + Len(m)) :
             (one \o m)[i] = IF i <= Len(one) THEN one[i] ELSE m[i - Len(one)]
    BY ConcatProperties
  <2> QED
    BY <1>6, <1>7, <2>1
<1>9. Len(m) \in Nat /\ Len(s) \in Nat \ {0} /\ s # << >> /\ s[1] = h
  BY <1>7, <1>8
<1>10. Head(s) = h
  BY <1>9
<1>11. Tail(s) = m
  <2>1. PICK u \in Seq(Event) : u = Tail(s)
    <3>1. Tail(s) \in Seq(Event)
      BY <1>9
    <3> QED
      BY <3>1
  <2>2. Len(u) = Len(s) - 1 /\ \A i \in 1..(Len(s) - 1) : u[i] = s[i + 1]
    BY <1>9, <2>1
  <2>3. Len(u) = Len(m)
    BY <1>8, <1>9, <2>2
  <2>4. ASSUME NEW i \in 1..Len(u) PROVE u[i] = m[i]
    <3>1. i \in 1..(Len(s) - 1) /\ i + 1 \in 1..(1 + Len(m)) /\ ~(i + 1 <= 1) /\ (i + 1) - 1 = i
      BY <1>8, <1>9, <2>3
    <3>2. u[i] = s[i + 1]
      BY <2>2, <3>1
    <3>3. s[i + 1] = m[(i + 1) - 1]
      BY <1>8, <3>1
    <3> QED
      BY <3>1, <3>2, <3>3
  <2> QED
    BY <2>1, <2>3, <2>4, SeqEqual
<1> QED
  BY <1>1, <1>3, <1>4, <1>5, <1>6, <1>9, <1>10, <1>11

\* The fanout hands an event on.
LEMMA FanoutShown ==
  ASSUME Types, ChannelTypes, ShownInv, Fanout
  PROVE  ChannelTypes' /\ ShownInv'
<1>1. /\ path \in [Path -> PathState] /\ net \in Seq(Event) /\ net # << >>
      /\ ui \in UiType /\ ui.queue \in Seq(Event)
  BY DEF Fanout, ChannelTypes, UiType
<1>2. PICK queue \in Seq(Event) :
        queue = IF ui.pc = "on" THEN ui.queue \o <<Head(net)>> ELSE << >>
  <2>1. ui.queue \o <<Head(net)>> \in Seq(Event) /\ << >> \in Seq(Event)
    BY <1>1, HandedOn
  <2> QED
    BY <2>1
<1>3. ui' = [ui EXCEPT !.queue = queue] /\ net' = Tail(net) /\ path' = path /\ main' = main
      /\ hist' = hist
  BY <1>2 DEF Fanout, Sent
<1>4. ui' \in UiType /\ ui'.pc = ui.pc /\ ui'.dash = ui.dash /\ ui'.queue = queue
  BY <1>1, <1>3 DEF UiType
<1>5. Tail(net) \in Seq(Event)
  BY <1>1
<1>6. ui.pc = "on" => ui'.queue \o net' = ui.queue \o net
  <2>1. (ui.queue \o <<Head(net)>>) \o Tail(net) = ui.queue \o net
    BY <1>1, HandedOn
  <2> QED
    BY <1>2, <1>3, <1>4, <2>1
<1>7. \A d : Agrees(d) => Agrees(d)'
  BY <1>3 DEF Agrees
<1>8. ShownInv'
  BY <1>3, <1>4, <1>6, <1>7 DEF ShownInv
<1> QED
  BY <1>1, <1>3, <1>4, <1>5, <1>8 DEF ChannelTypes

\* The interface takes an event.
LEMMA UiEventShown ==
  ASSUME Types, ChannelTypes, ShownInv, UiEvent
  PROVE  ChannelTypes' /\ ShownInv'
<1>1. /\ path \in [Path -> PathState] /\ net \in Seq(Event) /\ ui.pc = "on"
      /\ ui \in UiType /\ ui.queue \in Seq(Event) /\ ui.queue # << >> /\ ui.dash \in DashboardState
  BY DEF UiEvent, ChannelTypes, UiType
<1>2. PICK e \in Event, q \in Seq(Event) : e = Head(ui.queue) /\ q = Tail(ui.queue)
  BY <1>1, FirstOfTwo
<1>3. PICK dash \in DashboardState : dash = ApplyEvent(ui.dash, e)
  BY <1>1, EventTypes
<1>4. \/ ui' = UiOver("closed")
      \/ ui' = [ui EXCEPT !.dash = dash, !.queue = q]
  BY <1>2, <1>3 DEF UiEvent
<1>5. net' = net /\ path' = path /\ main' = main /\ hist' = hist
  BY DEF UiEvent
<1>6. CASE ui' = UiOver("closed")
  <2>1. ui' \in UiType /\ ui'.pc # "on"
    <3>1. << >> \in Seq(Event) /\ << >> \in Seq([id : Nat, stage : Stage])
      OBVIOUS
    <3> QED
      BY <1>6, <3>1 DEF UiOver, UiType, NewDashboard, DashboardState, Stage, NoTransfer
  <2> QED
    BY <1>1, <1>5, <2>1 DEF ChannelTypes, ShownInv
<1>7. CASE ui' = [ui EXCEPT !.dash = dash, !.queue = q]
  <2>1. ui' \in UiType /\ ui'.pc = "on" /\ ui'.dash = dash /\ ui'.queue = q
    BY <1>1, <1>7 DEF UiType
  <2>2. /\ ui.queue \o net # << >> /\ ui.queue \o net \in Seq(Event)
        /\ Head(ui.queue \o net) = e /\ Tail(ui.queue \o net) = q \o net
    BY <1>1, <1>2, FirstOfTwo
  <2>3. ASSUME NEW d, Leads(ui.dash, ui.queue \o net, d)
        PROVE  Leads(dash, q \o net, d)
    BY <1>3, <2>2, <2>3, LeadsTail
  <2>4. \A d : Agrees(d) => Agrees(d)'
    BY <1>5 DEF Agrees
  <2>5. ShownInv'
    BY <1>1, <1>5, <2>1, <2>3, <2>4 DEF ShownInv
  <2> QED
    BY <1>1, <1>5, <2>1, <2>5 DEF ChannelTypes
<1> QED
  BY <1>4, <1>6, <1>7

\* The interface ends on its user's word, or for an error.
LEMMA UiOverShown ==
  ASSUME Types, ChannelTypes, ShownInv, QuitKey \/ TerminalFails
  PROVE  ChannelTypes' /\ ShownInv'
<1>1. PICK pc \in {"quit", "broken"} : ui' = UiOver(pc)
  BY DEF QuitKey, TerminalFails
<1>2. net' = net /\ path' = path /\ main' = main /\ hist' = hist
  BY DEF QuitKey, TerminalFails
<1>3. ui' \in UiType /\ ui'.pc # "on"
  <2>1. << >> \in Seq(Event) /\ << >> \in Seq([id : Nat, stage : Stage])
    OBVIOUS
  <2> QED
    BY <1>1, <2>1 DEF UiOver, UiType, NewDashboard, DashboardState, Stage, NoTransfer
<1> QED
  BY <1>2, <1>3 DEF ChannelTypes, ShownInv

\* The interface, the q key and the clock.
LEMMA UiShown ==
  ASSUME DashInv, ~Sends, Fanout \/ Ui \/ StopOnQuit \/ DropQuit \/ Tick
  PROVE  /\ main'.pc \in {"starting", "waiting", "finishing", "ended"}
         /\ ChannelTypes' /\ ShownInv'
<1>1. /\ Types /\ ChannelTypes /\ ShownInv /\ main \in MainType /\ hist \in HistType
      /\ main.pc \in {"starting", "waiting", "finishing", "ended"}
  BY DEF DashInv, Types
<1>2. CASE Fanout \/ UiEvent \/ QuitKey \/ TerminalFails
  <2>1. main' = main
    BY <1>2 DEF Fanout, UiEvent, QuitKey, TerminalFails
  <2> QED
    BY <1>1, <1>2, <2>1, FanoutShown, UiEventShown, UiOverShown
<1>3. CASE RetryKey
  BY <1>3 DEF RetryKey, RetryAvailable
<1>4. CASE StopOnQuit
  <2>1. main' = Over(main, "finishing", "quit") /\ path' = [p \in Path |-> "waiting"]
        /\ net' = net \o Append(<< >>, Shutdown) /\ hist' = hist /\ ui' = ui
    BY <1>4 DEF StopOnQuit, Finish, Over
  <2>2. Append(<< >>, Shutdown) = <<Shutdown>>
    OBVIOUS
  <2>3. main'.pc = "finishing"
    BY <1>1, <2>1, MainOver DEF Pc, Result
  <2> QED
    BY <1>1, <2>1, <2>2, <2>3, OverShown
<1>5. CASE DropQuit
  BY <1>1, <1>5, ShownRest DEF DropQuit
<1>6. CASE Tick
  <2>1. PICK gap, inbox : hist' = [hist EXCEPT !.gap = gap, !.tick = "quiet", !.inbox = inbox]
    BY <1>6 DEF Tick
  <2>2. hist'.ends = hist.ends /\ hist'.order = hist.order
    BY <1>1, <2>1 DEF HistType
  <2>3. path' = path /\ net' = net /\ ui' = ui /\ main' = main
    BY <1>6 DEF Tick
  <2> QED
    BY <1>1, <2>2, <2>3, ShownRest
<1> QED
  BY <1>2, <1>3, <1>4, <1>5, <1>6 DEF Ui

\* The receiver.
LEMMA RecvShown ==
  ASSUME DashInv, ~Sends, Recv
  PROVE  /\ main'.pc \in {"starting", "waiting", "finishing", "ended"}
         /\ ChannelTypes' /\ ShownInv'
<1>1. /\ Types /\ ChannelTypes /\ ShownInv /\ main \in MainType /\ hist \in HistType
      /\ main.pc \in {"starting", "waiting", "finishing", "ended"}
  BY DEF DashInv, Types
<1>2. CASE ServiceDone \/ Finished
  <2>1. path' = path /\ net' = net /\ ui' = ui /\ hist' = hist
    BY <1>2 DEF ServiceDone, Finished
  <2>2. main'.pc \in {"starting", "waiting", "ended"}
        /\ (main'.pc # "ended" => main.pc \in {"starting", "waiting"})
    <3>1. CASE Finished
      BY <1>1, <3>1 DEF Finished, MainType
    <3>2. CASE ServiceDone
      <4>1. PICK todo : todo = Tail(main.todo)
        OBVIOUS
      <4> QED
        BY <1>1, <3>2, <4>1 DEF ServiceDone, MainType
    <3> QED
      BY <1>2, <3>1, <3>2
  <2> QED
    BY <1>1, <2>1, <2>2, ShownRest
<1>3. CASE ServiceFails \/ IdleTimeout
  <2>1. ui' = ui /\ hist' = hist
    BY <1>3 DEF ServiceFails, IdleTimeout
  <2>2. \/ main' = With(main, "ended", "error") /\ path' = path /\ net' = net
        \/ /\ \E result \in {"error", "idle"} : main' = Over(main, "finishing", result)
           /\ path' = [p \in Path |-> "waiting"]
           /\ \/ net' = net \o Append(<< >>, Shutdown)
              \/ net' = net \o Append(<<Shutdown>>, Shutdown)
    BY <1>3 DEF ServiceFails, IdleTimeout, Finish, With, Over
  <2>3. Append(<< >>, Shutdown) = <<Shutdown>>
        /\ Append(<<Shutdown>>, Shutdown) = <<Shutdown, Shutdown>>
    <3>1. PICK e \in Event : e = Shutdown
      BY EventEffects
    <3>2. PICK q \in Seq(Event) : q = <<e>> /\ q \o <<e>> = <<e, e>>
      <4>1. <<e>> \in Seq(Event) /\ <<e>> \o <<e>> = <<e, e>>
        BY TwoEvents
      <4> QED
        BY <4>1
    <3>3. Append(q, e) = q \o <<e>>
      OBVIOUS
    <3>4. Append(<< >>, Shutdown) = <<Shutdown>>
      OBVIOUS
    <3> QED
      BY <3>1, <3>2, <3>3, <3>4
  <2>4. {"ended", "finishing"} \subseteq Pc /\ {"error", "idle"} \subseteq Result
    BY DEF Pc, Result
  <2>5. CASE main' = With(main, "ended", "error") /\ path' = path /\ net' = net
    <3>1. main'.pc = "ended"
      BY <1>1, <2>4, <2>5, MainWith
    <3> QED
      BY <1>1, <2>1, <2>5, <3>1, ShownRest
  <2>6. CASE /\ \E result \in {"error", "idle"} : main' = Over(main, "finishing", result)
             /\ path' = [p \in Path |-> "waiting"]
             /\ net' = net \o <<Shutdown>> \/ net' = net \o <<Shutdown, Shutdown>>
    <3>1. main'.pc = "finishing"
      BY <1>1, <2>4, <2>6, MainOver
    <3> QED
      BY <1>1, <2>1, <2>6, <3>1, OverShown
  <2> QED
    BY <2>2, <2>3, <2>5, <2>6
<1>4. CASE TakeActivity
  <2>1. hist' = [hist EXCEPT !.inbox = "fresh"] /\ path' = path /\ net' = net /\ ui' = ui
        /\ main' = main
    BY <1>4 DEF TakeActivity
  <2>2. hist'.ends = hist.ends /\ hist'.order = hist.order
    BY <1>1, <2>1 DEF HistType
  <2> QED
    BY <1>1, <2>1, <2>2, ShownRest
<1>5. ASSUME NEW p \in Path,
             \/ Start(p) \/ Header(p) \/ Chunk(p) \/ Verify(p) \/ (p = "direct" /\ Fail)
             \/ RequestFails(p) \/ Unpacked(p) \/ Answered(p)
      PROVE  /\ main'.pc \in {"starting", "waiting", "finishing", "ended"}
             /\ ChannelTypes' /\ ShownInv'
  <2>1. main' = main
    BY <1>5 DEF Start, Header, Chunk, Verify, Fail, RequestFails, PathStep, Unpacked, Answered
  <2> QED
    BY <1>1, <1>5, <2>1, StartShown, WorkShown, FailShown, UnpackedShown, AnsweredShown
<1>6. ASSUME NEW route \in Routes, PathStops(route)
      PROVE  /\ main'.pc \in {"starting", "waiting", "finishing", "ended"}
             /\ ChannelTypes' /\ ShownInv'
  <2>1. main' = main \/ main' = Over(main, "finishing", "error")
    BY <1>6 DEF PathStops, Finish, Over
  <2>2. main'.pc \in {"starting", "waiting", "finishing", "ended"}
    BY <1>1, <2>1, MainOver DEF Pc, Result
  <2> QED
    BY <1>1, <1>6, <2>2, StopsShown
<1>7. "direct" \in Path
  BY DEF Path
<1> QED
  BY <1>2, <1>3, <1>4, <1>5, <1>6, <1>7 DEF Recv

\* Once the interface has seen all events its table shows the transfers as they
\* went, however many senders come to the paths, unless events of two sessions
\* came in between each other or a transfer went on after a request of it had
\* been reported as failed (Dashboard::apply_event).
THEOREM DashboardShowsTransfers == Spec => []DashboardAgrees
<1>1. Init => DashInv
  <2> SUFFICES ASSUME Init PROVE DashInv
    OBVIOUS
  <2>1. Types
    BY InitTypes
  <2>2. path = [p \in Path |-> "waiting"] /\ net = << >>
        /\ (~Sends => main.pc = "starting")
        /\ hist.ends = << >> /\ hist.order = "kept"
    BY DEF Init
  <2>3. PICK pc \in {"on", "none"} : ui = [pc |-> pc, dash |-> NewDashboard, queue |-> << >>]
    BY DEF Init
  <2>4. << >> \in Seq(Event) /\ << >> \in Seq([id : Nat, stage : Stage]) /\ << >> \in Seq(End)
    OBVIOUS
  <2>5. NewDashboard \in DashboardState
    BY <2>4 DEF NewDashboard, DashboardState, Stage, NoTransfer
  <2>6. ui \in UiType /\ ui.dash = NewDashboard /\ ui.queue = << >>
    BY <2>3, <2>4, <2>5 DEF UiType
  <2>7. path \in [Path -> PathState] /\ AloneIn(path) /\ ~BusyIn(path)
    BY <2>2, AllWait
  <2>8. Table(NewDashboard, << >>) /\ NewDashboard.active = NoTransfer
    <3>1. NewDashboard.rows = << >> /\ NewDashboard.active = NoTransfer
      BY DEF NewDashboard
    <3>2. Len(<< >>) = 0 /\ Shown(0) = 0
      BY MaxRowsAssumption DEF Shown
    <3> QED
      BY <2>5, <3>1, <3>2 DEF Table
  <2>9. Leads(ui.dash, ui.queue \o net, NewDashboard)
    <3>1. ui.queue \o net = << >>
      BY <2>2, <2>4, <2>6, ConcatEmptySeq
    <3> QED
      BY <2>5, <2>6, <3>1, LeadsNowhere
  <2>10. Agrees(NewDashboard)
    BY <2>2, <2>7, <2>8 DEF Agrees
  <2> QED
    BY <2>1, <2>2, <2>4, <2>5, <2>6, <2>7, <2>9, <2>10 DEF DashInv, ChannelTypes, ShownInv
<1>2. DashInv /\ [Next]_vars => DashInv'
  <2> SUFFICES ASSUME DashInv, [Next]_vars PROVE DashInv'
    OBVIOUS
  <2>1. Types'
    BY NextTypes DEF DashInv
  <2>2. cmd' = cmd
    BY DEF Next, vars, Fanout, Ui, UiEvent, QuitKey, RetryKey, TerminalFails, StopOnQuit, DropQuit,
       Tick, Recv, ServiceDone, ServiceFails, Start, Header, Chunk, Verify, Fail, RequestFails, PathStep,
       Unpacked, PathStops, Answered, TakeActivity, IdleTimeout, Finished, Send, Build, StartSending,
       AttemptSucceeds, NextAttempt, AttemptFails, AskQuit, AskRetry, AskClosed, Joined, SendRests
  <2>3. ASSUME ~Sends
        PROVE  /\ main'.pc \in {"starting", "waiting", "finishing", "ended"}
               /\ ChannelTypes' /\ ShownInv'
    <3>1. /\ Types /\ ChannelTypes /\ ShownInv
          /\ main.pc \in {"starting", "waiting", "finishing", "ended"}
      BY <2>3 DEF DashInv
    <3>2. CASE UNCHANGED vars
      BY <2>3, <3>1, <3>2, ShownRest DEF vars
    <3>3. CASE Send
      BY <3>1, <3>3 DEF Send, Build, StartSending, AttemptSucceeds, NextAttempt, AttemptFails, AskQuit,
         AskRetry, AskClosed, Joined
    <3> QED
      BY <2>3, <3>2, <3>3, UiShown, RecvShown DEF Next
  <2> QED
    BY <2>1, <2>2, <2>3 DEF DashInv, Sends
<1>3. DashInv => DashboardAgrees
  <2> SUFFICES ASSUME DashInv, ~Sends, ui.pc = "on", net = << >>, ui.queue = << >>,
                      hist.order = "kept"
               PROVE  LET rows == ui.dash.rows
                          dropped == Len(hist.ends) - Len(rows)
                      IN  /\ dropped = IF Len(hist.ends) > MaxRows
                                       THEN Len(hist.ends) - MaxRows ELSE 0
                          /\ \A i \in DOMAIN rows :
                               /\ rows[i].id = dropped + i
                               /\ IF hist.ends[rows[i].id] = "open" THEN rows[i].stage \notin Final
                                  ELSE rows[i].stage = hist.ends[rows[i].id]
    BY DEF DashboardAgrees
  <2>1. PICK d \in DashboardState : Leads(ui.dash, ui.queue \o net, d) /\ Agrees(d)
    BY DEF DashInv, ShownInv
  <2>2. ui.queue \o net = << >>
    <3>1. << >> \in Seq(Event)
      OBVIOUS
    <3> QED
      BY <3>1, ConcatEmptySeq
  <2>3. d = ui.dash
    BY <2>1, <2>2, LeadsNowhere
  <2>4. Table(ui.dash, hist.ends)
    BY <2>1, <2>3 DEF Agrees
  <2>5. ui.dash.rows \in Seq(Row) /\ hist.ends \in Seq(End)
    BY <2>1, <2>3 DEF DashboardState, Row, DashInv, Types, HistType
  <2>6. DOMAIN ui.dash.rows = 1..Len(ui.dash.rows) /\ Len(ui.dash.rows) = Shown(Len(hist.ends))
    BY <2>4, <2>5 DEF Table
  <2>7. Len(hist.ends) \in Nat /\ MaxRows \in Nat
    BY <2>5, MaxRowsAssumption
  <2>8. Len(hist.ends) - Len(ui.dash.rows) =
          IF Len(hist.ends) > MaxRows THEN Len(hist.ends) - MaxRows ELSE 0
    BY <2>6, <2>7 DEF Shown
  <2>9. ASSUME NEW i \in 1..Len(ui.dash.rows)
        PROVE  LET row == ui.dash.rows[i]
               IN  /\ row.id = Len(hist.ends) - Len(ui.dash.rows) + i
                   /\ IF hist.ends[row.id] = "open" THEN row.stage \notin Final
                      ELSE row.stage = hist.ends[row.id]
    BY <2>4 DEF Table, StageAgrees
  <2> QED
    BY <2>6, <2>8, <2>9
<1> QED
  BY <1>1, <1>2, <1>3, PTL DEF Spec

===============================================================================
