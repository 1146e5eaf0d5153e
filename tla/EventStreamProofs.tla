--------------------------- MODULE EventStreamProofs ---------------------------
(***************************************************************************)
(* Proofs about EventStream for any batch, output, pauses and breaks, and   *)
(* any number of processes that cancel or reconcile: what a connection      *)
(* shows has no gap, and the parent is told only of a run that is over, or   *)
(* that nobody started, unless an end was written over.                     *)
(*                                                                         *)
(* The second needs what no single writer states: as long as the status is  *)
(* not final, nothing final is in the log or owed by any writer, and a       *)
(* writer about to write a status that is not final owes nothing after it.   *)
(***************************************************************************)
EXTENDS EventStream, TLAPS

Event == {"log"} \cup Terminal
Quiet == {"log"}
Stream == [pc : {"off", "read", "yield", "drain", "last", "closed"}, last : Nat, upto : Nat]

Types ==
    /\ EventsTypeOK
    /\ owed \in [Writers -> Seq(Terminal)]
    /\ valid \in [Writers -> SUBSET [to : RunStatus, then : Seq(Terminal)]]
    /\ stream \in Stream
    /\ DOMAIN panel = {"mode", "terminal", "seen", "told"}
    /\ panel = [mode |-> panel.mode, terminal |-> panel.terminal, seen |-> panel.seen, told |-> panel.told]
    /\ panel.terminal \in BOOLEAN

(* The status is final before its event can be seen or even owed, until an    *)
(* end is written over.                                                     *)
FinalFirst ==
    "active" \notin undone /\ status \notin Terminal =>
        log \in Seq(Quiet) /\ \A w \in Writers : owed[w] = <<>>

(* No event of an end follows the write of another status. *)
QuietWrites == \A w \in Writers : \A write \in valid[w] : write.to \notin Terminal => write.then = <<>>

StreamInv == Types /\ FinalFirst /\ QuietWrites /\ NoGap /\ ToldWhenFinal
--------------------------------------------------------------------------------
LEMMA InitStreamInv == Init => StreamInv
<1>. SUFFICES ASSUME Init PROVE StreamInv
  OBVIOUS
<1>1. /\ <<"log">> \in Seq(Event) /\ <<"log">> \in Seq(Quiet) /\ Len(<<"log">>) = 1
      /\ <<>> \in Seq(Terminal)
  BY DEF Event, Quiet
<1>2. Types
  BY <1>1 DEF Init, Types, EventsTypeOK, RunStatus, NewStream, Event, Stream
<1>3. FinalFirst /\ QuietWrites
  BY <1>1 DEF Init, FinalFirst, QuietWrites
<1>4. NoGap /\ ToldWhenFinal
  BY DEF Init, NoGap, ToldWhenFinal, NewStream
<1>. QED  BY <1>2, <1>3, <1>4 DEF StreamInv

(* A step of the run that keeps types, FinalFirst and QuietWrites keeps      *)
(* StreamInv: the log only grows, and no written-over end is forgotten.      *)
LEMMA RunMoves ==
    ASSUME StreamInv, UNCHANGED <<stream, panel, polls>>,
           status' \in RunStatus, owed' \in [Writers -> Seq(Terminal)],
           valid' \in [Writers -> SUBSET [to : RunStatus, then : Seq(Terminal)]],
           log' \in Seq(Event), Len(log) <= Len(log'),
           undone \subseteq undone',
           FinalFirst', QuietWrites'
    PROVE  StreamInv'
<1>1. Types /\ NoGap /\ ToldWhenFinal
  BY DEF StreamInv
<1>2. Len(log) \in Nat /\ Len(log') \in Nat
  BY <1>1 DEF Types, EventsTypeOK, Event
<1>3. Types'
  BY <1>1, <1>2 DEF Types, EventsTypeOK, Event, Stream
<1>. QED  BY <1>1, <1>3 DEF StreamInv, NoGap, ToldWhenFinal

(* A writer that validated its write has written nothing yet.                *)
LEMMA ValidatesKeepsStreamInv ==
    ASSUME StreamInv, NEW w \in Writers, NEW from, NEW to \in RunStatus, NEW then \in Seq(Terminal),
           to \in Terminal \/ then = <<>>,
           Validates(w, from, to, then), UNCHANGED <<stream, panel, polls>>
    PROVE  StreamInv'
<1>1. /\ Types /\ FinalFirst /\ QuietWrites /\ Len(log) \in Nat
      /\ valid \in [Writers -> SUBSET [to : RunStatus, then : Seq(Terminal)]]
  BY DEF StreamInv, Types, EventsTypeOK
<1>. DEFINE write == [to |-> to, then |-> then]
<1>2. valid' = [valid EXCEPT ![w] = {write}] /\ UNCHANGED <<status, log, owed, undone>>
  BY DEF Validates
<1>3. write \in [to : RunStatus, then : Seq(Terminal)] /\ write.to = to /\ write.then = then
  OBVIOUS
<1>. HIDE DEF write
<1>4. valid' \in [Writers -> SUBSET [to : RunStatus, then : Seq(Terminal)]]
  BY <1>1, <1>2, <1>3
<1>5. FinalFirst' /\ QuietWrites'
  BY <1>1, <1>2, <1>3 DEF FinalFirst, QuietWrites
<1>6. /\ status' \in RunStatus /\ owed' \in [Writers -> Seq(Terminal)] /\ log' \in Seq(Event)
      /\ Len(log) <= Len(log') /\ undone \subseteq undone'
  BY <1>1, <1>2 DEF Types, EventsTypeOK, Event
<1>. QED  BY <1>4, <1>5, <1>6, RunMoves

(* Writing: an end makes FinalFirst void; another status comes with no event, *)
(* and over an end it is remembered.                                        *)
LEMMA WriteKeepsStreamInv ==
    ASSUME StreamInv, NEW w \in Writers, Write(w), UNCHANGED <<stream, panel, polls>>
    PROVE  StreamInv'
<1>1. /\ Types /\ FinalFirst /\ QuietWrites /\ Len(log) \in Nat /\ log \in Seq(Event)
      /\ valid \in [Writers -> SUBSET [to : RunStatus, then : Seq(Terminal)]]
      /\ owed \in [Writers -> Seq(Terminal)]
  BY DEF StreamInv, Types, EventsTypeOK, Event
<1>2. PICK write \in valid[w] :
        /\ status' = write.to /\ owed' = [owed EXCEPT ![w] = write.then]
        /\ undone' = IF status \in Terminal /\ write.to # status
                     THEN undone \cup {IF write.to \in Terminal THEN "final" ELSE "active"}
                     ELSE undone
  BY DEF Write
<1>3. valid' = [valid EXCEPT ![w] = {}] /\ log' = log
  BY DEF Write
<1>4. write.to \in RunStatus /\ write.then \in Seq(Terminal)
  BY <1>1, <1>2
<1>5. /\ owed' \in [Writers -> Seq(Terminal)] /\ undone \subseteq undone'
      /\ valid' \in [Writers -> SUBSET [to : RunStatus, then : Seq(Terminal)]]
  BY <1>1, <1>2, <1>3, <1>4
<1>6. QuietWrites'
  BY <1>1, <1>3 DEF QuietWrites
<1>7. FinalFirst'
  <2>. SUFFICES ASSUME "active" \notin undone', write.to \notin Terminal
                PROVE  log \in Seq(Quiet) /\ \A v \in Writers : owed'[v] = <<>>
    BY <1>2, <1>3 DEF FinalFirst
  <2>1. write.then = <<>>
    BY <1>1, <1>2 DEF QuietWrites
  <2>2. status \notin Terminal /\ "active" \notin undone
    BY <1>2
  <2>. QED  BY <1>1, <1>2, <2>1, <2>2 DEF FinalFirst
<1>. QED  BY <1>1, <1>2, <1>3, <1>4, <1>5, <1>6, <1>7, RunMoves

LEMMA EmitKeepsStreamInv ==
    ASSUME StreamInv, NEW w \in Writers, Emit(w), UNCHANGED <<stream, panel, polls>>
    PROVE  StreamInv'
<1>1. /\ Types /\ FinalFirst /\ QuietWrites /\ Len(log) \in Nat /\ log \in Seq(Event)
      /\ valid \in [Writers -> SUBSET [to : RunStatus, then : Seq(Terminal)]]
      /\ owed \in [Writers -> Seq(Terminal)] /\ status \in RunStatus
  BY DEF StreamInv, Types, EventsTypeOK, Event
<1>. DEFINE event == Head(owed[w])
<1>2. /\ owed[w] # <<>> /\ owed' = [owed EXCEPT ![w] = Tail(@)]
      /\ log' \in {log, Append(log, event)}
      /\ UNCHANGED <<status, valid, undone>>
  BY DEF Emit
<1>3. owed[w] \in Seq(Terminal)
  BY <1>1
<1>4. Tail(owed[w]) \in Seq(Terminal) /\ event \in Event
  BY <1>2, <1>3 DEF Event
<1>. HIDE DEF event
<1>5. Append(log, event) \in Seq(Event) /\ Len(Append(log, event)) = Len(log) + 1
  BY <1>1, <1>4
<1>6. log' \in Seq(Event) /\ Len(log) <= Len(log')
  <2>1. CASE log' = log
    BY <1>1, <2>1
  <2>2. CASE log' = Append(log, event)
    BY <1>1, <1>5, <2>2
  <2>. QED  BY <1>2, <2>1, <2>2
<1>7. owed' \in [Writers -> Seq(Terminal)]
  BY <1>1, <1>2, <1>4
<1>8. FinalFirst' /\ QuietWrites'
  BY <1>1, <1>2 DEF FinalFirst, QuietWrites
<1>. QED  BY <1>1, <1>2, <1>6, <1>7, <1>8, RunMoves

LEMMA RunStepKeepsStreamInv == ASSUME StreamInv, RunStep PROVE StreamInv'
<1>1. /\ Types /\ FinalFirst /\ QuietWrites /\ status \in RunStatus /\ log \in Seq(Event) /\ Len(log) \in Nat
      /\ owed \in [Writers -> Seq(Terminal)]
      /\ valid \in [Writers -> SUBSET [to : RunStatus, then : Seq(Terminal)]]
      /\ UNCHANGED <<stream, panel, polls>>
      /\ Executor \in Writers /\ Operators \subseteq Writers
  BY DEF StreamInv, Types, EventsTypeOK, Event, RunStep, Writers
<1>2. <<>> \in Seq(Terminal) /\ \A e \in Terminal : <<e>> \in Seq(Terminal)
  OBVIOUS
<1>3. Terminal \cup Active \subseteq RunStatus
  BY DEF RunStatus
<1>4. CASE Start
  <2>1. "RUNNING" \in RunStatus
    BY <1>3 DEF Active
  <2>. QED  BY <1>1, <1>2, <1>4, <2>1, ValidatesKeepsStreamInv DEF Start
<1>5. CASE Output
  <2>1. log' = Append(log, "log") /\ UNCHANGED <<status, valid, owed, undone>>
    BY <1>5 DEF Output
  <2>2. Append(log, "log") \in Seq(Event) /\ Len(Append(log, "log")) = Len(log) + 1
    BY <1>1 DEF Event
  <2>3. log \in Seq(Quiet) => Append(log, "log") \in Seq(Quiet)
    BY DEF Quiet
  <2>4. FinalFirst' /\ QuietWrites'
    BY <1>1, <2>1, <2>3 DEF FinalFirst, QuietWrites
  <2>5. log' \in Seq(Event) /\ Len(log) <= Len(log')
    BY <1>1, <2>1, <2>2
  <2>. QED  BY <1>1, <2>1, <2>4, <2>5, RunMoves
<1>6. CASE SeeStopped
  <2>1. /\ status \in Terminal /\ owed' = [owed EXCEPT ![Executor] = <<"STOPPED">>]
        /\ UNCHANGED <<status, log, valid, undone>>
    BY <1>6 DEF SeeStopped, Terminal
  <2>2. <<"STOPPED">> \in Seq(Terminal)
    BY <1>2 DEF Terminal
  <2>3. owed' \in [Writers -> Seq(Terminal)]
    BY <1>1, <2>1, <2>2
  <2>4. FinalFirst' /\ QuietWrites'
    BY <1>1, <2>1 DEF FinalFirst, QuietWrites
  <2>. QED  BY <1>1, <2>1, <2>3, <2>4, RunMoves
<1>7. CASE Pause
  <2>1. "WAITING_APPROVAL" \in RunStatus
    BY <1>3 DEF Active
  <2>. QED  BY <1>1, <1>2, <1>7, <2>1, ValidatesKeepsStreamInv DEF Pause
<1>8. CASE Settle
  <2>1. PICK to \in {"DONE", "FAILED"} : Validates(Executor, {"RUNNING"}, to, <<to>>)
    BY <1>8 DEF Settle
  <2>2. to \in Terminal /\ to \in RunStatus /\ <<to>> \in Seq(Terminal)
    BY <1>2, <1>3 DEF Terminal
  <2>. QED  BY <1>1, <2>1, <2>2, ValidatesKeepsStreamInv
<1>9. ASSUME NEW o \in Operators, Cancel(o) PROVE StreamInv'
  <2>1. "STOPPED" \in Terminal /\ "STOPPED" \in RunStatus /\ <<"STOPPED">> \in Seq(Terminal)
    BY <1>2, <1>3 DEF Terminal
  <2>. QED  BY <1>1, <1>9, <2>1, ValidatesKeepsStreamInv DEF Cancel
<1>10. ASSUME NEW o \in Operators, ReconcileRun(o) PROVE StreamInv'
  <2>1. "FAILED" \in Terminal /\ "FAILED" \in RunStatus
    BY <1>3 DEF Terminal
  <2>. QED  BY <1>1, <1>2, <1>10, <2>1, ValidatesKeepsStreamInv DEF ReconcileRun
<1>. QED  BY <1>1, <1>4, <1>5, <1>6, <1>7, <1>8, <1>9, <1>10,
             WriteKeepsStreamInv, EmitKeepsStreamInv DEF RunStep

(* A step of the stream reads the log in order, and shows nothing.           *)
LEMMA StreamStepKeepsStreamInv ==
    ASSUME StreamInv, StreamRead \/ StreamStatus \/ StreamDrain \/ StreamEnd \/ Drop
    PROVE  StreamInv'
<1>1. /\ Types /\ FinalFirst /\ QuietWrites /\ NoGap /\ ToldWhenFinal
      /\ Len(log) \in Nat /\ stream.last <= stream.upto /\ stream.upto <= Len(log)
      /\ stream \in Stream
  BY DEF StreamInv, Types, EventsTypeOK
<1>2. UNCHANGED <<status, log, owed, valid, undone, panel, polls>>
  BY DEF StreamRead, StreamStatus, StreamDrain, StreamEnd, Drop, runVars
<1>3. After(stream.last) \in Nat /\ stream.last <= After(stream.last) /\ After(stream.last) <= Len(log)
  BY <1>1, EventAssumption DEF After, Least, Stream
<1>4. /\ stream' \in Stream
      /\ stream'.last = stream.last /\ stream.pc # "off"
      /\ stream'.last <= stream'.upto /\ stream'.upto <= Len(log)
  <2>. DEFINE upto == After(stream.last)
  <2>1. upto \in Nat /\ stream.last <= upto /\ upto <= Len(log)
    BY <1>3
  <2>. HIDE DEF upto
  <2>2. CASE stream.pc # "off" /\ \E pc \in {"yield", "last"} : stream' = [stream EXCEPT !.pc = pc, !.upto = upto]
    BY <1>1, <2>1, <2>2 DEF Stream
  <2>3. CASE stream.pc # "off" /\ \E pc \in {"read", "drain", "closed"} : stream' = [stream EXCEPT !.pc = pc]
    BY <1>1, <2>3 DEF Stream
  <2>. QED  BY <2>2, <2>3 DEF StreamRead, StreamStatus, StreamDrain, StreamEnd, Drop, upto
<1>5. Types'
  BY <1>1, <1>2, <1>4 DEF Types, EventsTypeOK, Stream
<1>. QED  BY <1>1, <1>2, <1>4, <1>5 DEF StreamInv, FinalFirst, QuietWrites, NoGap, ToldWhenFinal

--------------------------------------------------------------------------------
(* What is left of Types when only the panel, its polls and the stream move. *)
LEMMA PanelMoves ==
    ASSUME Types,
           UNCHANGED <<status, log, owed, valid, undone, valid, undone>>,
           stream' \in Stream,
           stream'.last <= stream'.upto, stream'.upto <= Len(log),
           NEW mode \in {"sse", "polling", "paused"}, NEW terminal \in BOOLEAN, NEW seen, NEW told,
           panel' = [mode |-> mode, terminal |-> terminal, seen |-> seen, told |-> told],
           polls' \subseteq RunStatus
    PROVE  Types'
BY DEF Types, EventsTypeOK, Stream

LEMMA Detached ==
    /\ \A s \in {NoStream, NewStream} :
          /\ s \in Stream
          /\ s.last = 0 /\ s.upto = 0
    /\ NoStream.pc = "off"
BY DEF NoStream, NewStream, Stream

LEMMA YieldKeepsStreamInv == ASSUME StreamInv, StreamYield PROVE StreamInv'
<1>1. /\ Types /\ FinalFirst /\ QuietWrites /\ NoGap /\ ToldWhenFinal
      /\ Len(log) \in Nat /\ stream.last <= stream.upto /\ stream.upto <= Len(log)
      /\ stream \in Stream
      /\ panel = [mode |-> panel.mode, terminal |-> panel.terminal, seen |-> panel.seen, told |-> panel.told]
      /\ panel.mode \in {"sse", "polling", "paused"} /\ panel.terminal \in BOOLEAN
      /\ polls \subseteq RunStatus
  BY DEF StreamInv, Types, EventsTypeOK
<1>. DEFINE id == stream.last + 1
<1>2. /\ stream.pc \in {"yield", "last"} /\ stream.last < stream.upto
      /\ UNCHANGED <<status, log, owed, valid, undone, polls>>
      /\ IF log[id] # "log"
         THEN /\ panel' = [panel EXCEPT !.seen = @ \cup {id}, !.terminal = TRUE,
                                        !.told = @ \cup {status}]
              /\ stream' = NoStream
         ELSE /\ panel' = [panel EXCEPT !.seen = @ \cup {id}]
              /\ stream' = [stream EXCEPT !.last = id]
  BY DEF StreamYield, runVars
<1>3. id \in 1..Len(log) /\ id \in Nat /\ id <= stream.upto
  BY <1>1, <1>2 DEF Stream
<1>. HIDE DEF id
<1>4. CASE log[id] # "log"
  <2>1. "active" \notin undone => status \in Terminal
    <3>1. log \notin Seq(Quiet)
      BY <1>3, <1>4 DEF Quiet
    <3>. QED  BY <1>1, <3>1 DEF FinalFirst
  <2>2. /\ panel' = [mode |-> panel.mode, terminal |-> TRUE, seen |-> panel.seen \cup {id},
                     told |-> panel.told \cup {status}]
        /\ stream' = NoStream
    BY <1>1, <1>2, <1>4
  <2>3. stream'.last <= stream'.upto /\ stream'.upto <= Len(log)
    BY <1>1, <2>2, Detached
  <2>4. Types'
    BY <1>1, <1>2, <2>2, <2>3, Detached, PanelMoves
  <2>5. NoGap' /\ ToldWhenFinal' /\ FinalFirst' /\ QuietWrites'
    BY <1>1, <1>2, <2>1, <2>2, Detached DEF NoGap, ToldWhenFinal, FinalFirst, QuietWrites
  <2>. QED  BY <2>4, <2>5 DEF StreamInv
<1>5. CASE log[id] = "log"
  <2>1. /\ panel' = [mode |-> panel.mode, terminal |-> panel.terminal, seen |-> panel.seen \cup {id},
                     told |-> panel.told]
        /\ stream' = [stream EXCEPT !.last = id]
    BY <1>1, <1>2, <1>5
  <2>2. /\ stream' \in Stream
        /\ stream'.last = id /\ stream'.upto = stream.upto /\ stream'.pc = stream.pc
    BY <1>1, <1>3, <2>1 DEF Stream
  <2>3. Types'
    BY <1>1, <1>2, <1>3, <2>1, <2>2, PanelMoves
  <2>4. NoGap'
    <3>1. panel.seen = 1..stream.last
      BY <1>1, <1>2 DEF NoGap
    <3>2. 1..id = (1..stream.last) \cup {id}
      BY <1>1 DEF id, Stream
    <3>. QED  BY <2>1, <2>2, <3>1, <3>2 DEF NoGap
  <2>5. ToldWhenFinal' /\ FinalFirst' /\ QuietWrites'
    BY <1>1, <1>2, <2>1 DEF ToldWhenFinal, FinalFirst, QuietWrites
  <2>. QED  BY <2>3, <2>4, <2>5 DEF StreamInv
<1>. QED  BY <1>4, <1>5

LEMMA PanelStepKeepsStreamInv == ASSUME StreamInv, PanelStep PROVE StreamInv'
<1>1. /\ Types /\ FinalFirst /\ QuietWrites /\ NoGap /\ ToldWhenFinal
      /\ Len(log) \in Nat /\ stream.last <= stream.upto /\ stream.upto <= Len(log)
      /\ stream \in Stream
      /\ panel = [mode |-> panel.mode, terminal |-> panel.terminal, seen |-> panel.seen, told |-> panel.told]
      /\ panel.mode \in {"sse", "polling", "paused"} /\ panel.terminal \in BOOLEAN
      /\ polls \subseteq RunStatus /\ status \in RunStatus
  BY DEF StreamInv, Types, EventsTypeOK
<1>2. CASE FallBack
  <2>1. /\ panel' = [mode |-> "polling", terminal |-> panel.terminal, seen |-> panel.seen, told |-> panel.told]
        /\ stream' = NoStream /\ UNCHANGED <<status, log, owed, valid, undone, polls>>
    BY <1>1, <1>2 DEF FallBack, runVars
  <2>2. stream'.last <= stream'.upto /\ stream'.upto <= Len(log)
    BY <1>1, <2>1, Detached
  <2>3. Types'
    BY <1>1, <2>1, <2>2, Detached, PanelMoves
  <2>. QED  BY <1>1, <2>1, <2>3, Detached DEF StreamInv, NoGap, ToldWhenFinal, FinalFirst, QuietWrites
<1>3. CASE Ask
  <2>1. UNCHANGED <<status, log, owed, valid, undone, stream, panel>> /\ polls' \subseteq RunStatus
    BY <1>1, <1>3 DEF Ask, runVars
  <2>2. Types'
    BY <1>1, <2>1 DEF Types, EventsTypeOK
  <2>. QED  BY <1>1, <2>1, <2>2 DEF StreamInv, NoGap, ToldWhenFinal, FinalFirst, QuietWrites
<1>4. ASSUME NEW s \in polls, Answer(s) PROVE StreamInv'
  <2>1. polls' \subseteq RunStatus /\ UNCHANGED <<status, log, owed, valid, undone, valid, undone>>
    BY <1>1, <1>4 DEF Answer, runVars
  <2>2. CASE s \in Active
    <3>1. UNCHANGED <<stream, panel>>
      BY <1>4, <2>2 DEF Answer
    <3>2. Types'
      BY <1>1, <2>1, <3>1 DEF Types, EventsTypeOK
    <3>. QED  BY <1>1, <2>1, <3>1, <3>2 DEF StreamInv, NoGap, ToldWhenFinal, FinalFirst, QuietWrites
  <2>3. CASE s \notin Active
    <3>. DEFINE told == IF panel.terminal THEN panel.told ELSE panel.told \cup {s}
    <3>1. /\ panel' = [mode |-> panel.mode, terminal |-> TRUE, seen |-> panel.seen, told |-> told]
          /\ stream' = NoStream
      BY <1>1, <1>4, <2>3 DEF Answer
    <3>2. "active" \notin undone => told \subseteq Terminal \cup {"CREATED"}
      BY <1>1, <2>3 DEF ToldWhenFinal, RunStatus
    <3>. HIDE DEF told
    <3>3. stream'.last <= stream'.upto /\ stream'.upto <= Len(log)
      BY <1>1, <3>1, Detached
    <3>4. Types'
      BY <1>1, <2>1, <3>1, <3>3, Detached, PanelMoves
    <3>. QED  BY <1>1, <2>1, <3>1, <3>2, <3>4, Detached DEF StreamInv, NoGap, ToldWhenFinal, FinalFirst, QuietWrites
  <2>. QED  BY <2>2, <2>3
<1>5. CASE Switch
  <2>. DEFINE mode == IF panel.mode = "paused" THEN "sse" ELSE "paused"
  <2>1. /\ panel' = [mode |-> mode, terminal |-> FALSE, seen |-> {}, told |-> panel.told]
        /\ stream' \in {NoStream, NewStream} /\ UNCHANGED <<status, log, owed, valid, undone, polls>>
    BY <1>1, <1>5 DEF Switch, runVars
  <2>2. mode \in {"sse", "polling", "paused"}
    OBVIOUS
  <2>. HIDE DEF mode
  <2>3. /\ stream' \in Stream
        /\ stream'.last = 0 /\ stream'.upto = 0
        /\ stream'.last <= stream'.upto /\ stream'.upto <= Len(log)
    BY <1>1, <2>1, Detached
  <2>4. Types'
    BY <1>1, <2>1, <2>2, <2>3, Detached, PanelMoves
  <2>5. NoGap'
    BY <2>1, <2>3 DEF NoGap
  <2>. QED  BY <1>1, <2>1, <2>4, <2>5 DEF StreamInv, ToldWhenFinal, FinalFirst, QuietWrites
<1>. QED  BY <1>2, <1>3, <1>4, <1>5, YieldKeepsStreamInv DEF PanelStep

LEMMA NextKeepsStreamInv == StreamInv /\ [Next]_vars => StreamInv'
<1>1. CASE UNCHANGED vars
  BY <1>1 DEF vars, StreamInv, Types, EventsTypeOK, FinalFirst, QuietWrites, NoGap, ToldWhenFinal
<1>. QED  BY <1>1, RunStepKeepsStreamInv, StreamStepKeepsStreamInv, PanelStepKeepsStreamInv DEF Next

(* The run's writers, the stream and the panel keep StreamInv.               *)
THEOREM StreamInvariance == Spec => []StreamInv
BY InitStreamInv, NextKeepsStreamInv, PTL DEF Spec

(* Every variable holds a value of its kind; the stream is within the log.   *)
THEOREM EventTypes == Spec => []EventsTypeOK
<1>1. StreamInv => EventsTypeOK
  BY DEF StreamInv, Types
<1>. QED  BY <1>1, StreamInvariance, PTL

(* Whatever the batch, what a connection of _event_stream has shown is every *)
(* event from the first to the last it yielded.                              *)
THEOREM StreamsHaveNoGap == Spec => []NoGap
<1>1. StreamInv => NoGap
  BY DEF StreamInv
<1>. QED  BY <1>1, StreamInvariance, PTL

(* onTerminal is called for a run that is over: the status was written       *)
(* before any event that says so, whoever wrote it and in whatever order the  *)
(* writers read, write and emit.  A poll that finds a run not started yet is  *)
(* another occasion; and once a status validated before the end was written   *)
(* over it ("active"), nothing is said.                                      *)
THEOREM OnlyTheEndIsTold == Spec => []ToldWhenFinal
<1>1. StreamInv => ToldWhenFinal
  BY DEF StreamInv
<1>. QED  BY <1>1, StreamInvariance, PTL
================================================================================
