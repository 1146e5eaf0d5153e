------------------------------- MODULE EventStream -------------------------------
(***************************************************************************)
(* The live log of one run: the processes that validate a status, write it  *)
(* and emit its events, each a step (run_service.py, events.py); the server *)
(* that streams the events by polling the store (api/routes/events.py); and *)
(* the panel that listens and falls back to polling (LiveLogPanel.tsx).     *)
(*                                                                         *)
(* An event is a terminal one, named by its status (run_done is "DONE"), or *)
(* "log", any other; its id is its place in the log.                       *)
(***************************************************************************)
EXTENDS Integers, Sequences, FiniteSets

CONSTANTS
    Operators,      \* processes that cancel the run or reconcile it
    Batch,          \* events per read of the stream (200 in the code)
    MaxEvents,      \* bound: output and pauses of the run
    MaxSwitches,    \* bound: pauses of the panel
    MaxDrops,       \* bound: broken connections
    MaxPolls        \* bound: different statuses on their way to the panel at once

ASSUME EventAssumption ==
    Batch \in Nat \ {0} /\ MaxEvents \in Nat /\ MaxSwitches \in Nat /\ MaxDrops \in Nat
    /\ MaxPolls \in Nat \ {0}

Terminal == {"DONE", "FAILED", "STOPPED"}
Active == {"RUNNING", "WAITING_APPROVAL"}
RunStatus == {"CREATED"} \cup Active \cup Terminal
Executor == "executor"
Writers == {Executor} \cup Operators

VARIABLES
    status,         \* runs.status
    log,            \* run_events of the run
    valid,          \* each writer: the write it validated, with the events to follow
    owed,           \* terminal events each writer emits next
    undone,         \* history: what was written over a final status
    lines,          \* what is left of that bound
    stream,         \* the server side of the connection
    panel,          \* its mode, terminalRef and seenRef, and what it was told
    polls,          \* snapshots of the run's status on their way to the panel
    switches, drops

runVars == <<status, log, valid, owed, undone, lines>>
vars == <<status, log, valid, owed, undone, lines, stream, panel, polls, switches, drops>>

NoStream == [pc |-> "off", last |-> 0, upto |-> 0]
NewStream == [pc |-> "read", last |-> 0, upto |-> 0]

Init ==
    /\ status = "CREATED" /\ log = <<"log">>
    /\ valid = [w \in Writers |-> {}] /\ owed = [w \in Writers |-> <<>>]
    /\ undone = {} /\ lines = MaxEvents
    /\ stream = NewStream
    /\ panel = [mode |-> "sse", terminal |-> FALSE, seen |-> {}, told |-> {}]
    /\ polls = {} /\ switches = 0 /\ drops = 0

--------------------------------------------------------------------------------
(* The run.  Its other events come whenever they do (Output), so a status is *)
(* followed by its terminal event alone.                                    *)

Free(w) == valid[w] = {} /\ owed[w] = <<>>

(* update_run_status reads and validates; an error ends the handler. *)
Validates(w, from, to, then) ==
    /\ Free(w) /\ status \in from
    /\ valid' = [valid EXCEPT ![w] = {[to |-> to, then |-> then]}]
    /\ UNCHANGED <<status, log, owed, undone>>

(* Its UPDATE, whatever the status is by now. *)
Write(w) ==
    /\ \E write \in valid[w] :
        /\ status' = write.to /\ owed' = [owed EXCEPT ![w] = write.then]
        /\ undone' = IF status \in Terminal /\ write.to # status
                     THEN undone \cup {IF write.to \in Terminal THEN "final" ELSE "active"}
                     ELSE undone
    /\ valid' = [valid EXCEPT ![w] = {}]
    /\ UNCHANGED <<log, lines>>

Start ==
    /\ Validates(Executor, {"CREATED", "WAITING_APPROVAL"}, "RUNNING", <<>>)
    /\ UNCHANGED lines

Output ==
    /\ lines > 0 /\ lines' = lines - 1
    /\ log' = Append(log, "log")
    /\ UNCHANGED <<status, valid, owed, undone>>

(* The step that was cancelled ends: run_stopped, a second time. *)
SeeStopped ==
    /\ status = "STOPPED" /\ Free(Executor)
    /\ lines > 0 /\ lines' = lines - 1
    /\ owed' = [owed EXCEPT ![Executor] = <<"STOPPED">>]
    /\ UNCHANGED <<status, log, valid, undone>>

Pause ==
    /\ lines > 0 /\ lines' = lines - 1
    /\ Validates(Executor, {"RUNNING"}, "WAITING_APPROVAL", <<>>)

(* Mutant: the event is emitted before the status is written. *)
SettleLate ==
    /\ status = "RUNNING" /\ Free(Executor)
    /\ \E to \in {"DONE", "FAILED"} :
        \/ /\ log[Len(log)] = to /\ UNCHANGED owed
           /\ valid' = [valid EXCEPT ![Executor] = {[to |-> to, then |-> <<>>]}]
        \/ owed' = [owed EXCEPT ![Executor] = <<to>>] /\ UNCHANGED valid
    /\ UNCHANGED <<status, log, undone, lines>>

(* The status is written first, its event is emitted after that. *)
Settle ==
    /\ \E to \in {"DONE", "FAILED"} : Validates(Executor, {"RUNNING"}, to, <<to>>)
    /\ UNCHANGED lines

Cancel(o) ==
    /\ Validates(o, RunStatus \ Terminal, "STOPPED", <<"STOPPED">>)
    /\ UNCHANGED lines

(* reconcile_stale_state: stale_run_failed is no event the panel knows. *)
ReconcileRun(o) ==
    /\ Validates(o, {"RUNNING"}, "FAILED", <<>>)
    /\ UNCHANGED lines

(* _emit is best effort. *)
Emit(w) ==
    /\ owed[w] # <<>>
    /\ owed' = [owed EXCEPT ![w] = Tail(@)]
    /\ log' \in {log, Append(log, Head(owed[w]))}
    /\ UNCHANGED <<status, valid, undone, lines>>

RunStep == /\ \/ Start \/ Output \/ SeeStopped \/ Pause \/ Settle
              \/ \E o \in Operators : Cancel(o) \/ ReconcileRun(o)
              \/ \E w \in Writers : Write(w) \/ Emit(w)
           /\ UNCHANGED <<stream, panel, polls, switches, drops>>

--------------------------------------------------------------------------------
(* _event_stream: read a batch, yield it, read the status, and either wait  *)
(* or drain one more batch and end.                                        *)

Least(a, b) == IF a < b THEN a ELSE b

(* list_run_events *)
After(last) == Least(Len(log), last + Batch)

StreamRead ==
    /\ stream.pc = "read"
    /\ stream' = [stream EXCEPT !.pc = "yield", !.upto = After(stream.last)]
    /\ UNCHANGED <<runVars, panel, polls, switches, drops>>

StreamStatus ==
    /\ stream.pc = "yield" /\ stream.last = stream.upto
    /\ stream' = [stream EXCEPT !.pc = IF status \in Terminal THEN "drain" ELSE "read"]
    /\ UNCHANGED <<runVars, panel, polls, switches, drops>>

(* Mutant: the final drain starts behind the newest event. *)
StreamDrainNew ==
    /\ stream.pc = "drain"
    /\ stream' = [stream EXCEPT !.pc = "last", !.upto = Len(log),
                                !.last = IF Len(log) > stream.last THEN Len(log) - 1 ELSE @]
    /\ UNCHANGED <<runVars, panel, polls, switches, drops>>

StreamDrain ==
    /\ stream.pc = "drain"
    /\ stream' = [stream EXCEPT !.pc = "last", !.upto = After(stream.last)]
    /\ UNCHANGED <<runVars, panel, polls, switches, drops>>

StreamEnd ==
    /\ stream.pc = "last" /\ stream.last = stream.upto
    /\ stream' = [stream EXCEPT !.pc = "closed"]
    /\ UNCHANGED <<runVars, panel, polls, switches, drops>>

(* The connection breaks, or was refused. *)
Drop ==
    /\ stream.pc \notin {"off", "closed"} /\ drops < MaxDrops
    /\ stream' = [stream EXCEPT !.pc = "closed"] /\ drops' = drops + 1
    /\ UNCHANGED <<runVars, panel, polls, switches>>

--------------------------------------------------------------------------------
(* The panel.  "told" is what the run's status was when onTerminal was called: *)
(* the parent loads the run again then.                                        *)

(* ingest; an end event tears the connection down. *)
StreamYield ==
    LET id == stream.last + 1 IN
    /\ stream.pc \in {"yield", "last"} /\ stream.last < stream.upto
    /\ IF log[id] # "log"
       THEN /\ panel' = [panel EXCEPT !.seen = @ \cup {id}, !.terminal = TRUE,
                                      !.told = @ \cup {status}]
            /\ stream' = NoStream
       ELSE /\ panel' = [panel EXCEPT !.seen = @ \cup {id}]
            /\ stream' = [stream EXCEPT !.last = id]
    /\ UNCHANGED <<runVars, polls, switches, drops>>

(* Mutant: a closed stream is taken for the end of the run. *)
FallBackNever ==
    /\ stream.pc = "closed"
    /\ stream' = NoStream
    /\ UNCHANGED <<runVars, panel, polls, switches, drops>>

(* onerror; the stream's end is an error to EventSource. *)
FallBack ==
    /\ stream.pc = "closed"
    /\ stream' = NoStream
    /\ panel' = [panel EXCEPT !.mode = "polling"]
    /\ UNCHANGED <<runVars, polls, switches, drops>>

(* getRunLogs, at every tick. *)
Ask ==
    /\ panel.mode = "polling" /\ ~panel.terminal
    /\ polls' = polls \cup {status} /\ Cardinality(polls') <= MaxPolls
    /\ UNCHANGED <<runVars, stream, panel, switches, drops>>

(* The answers may overtake each other, and outlive the polling.  A status *)
(* that is not active ends the polling, CREATED too.                       *)
Answer(s) ==
    /\ s \in polls
    /\ polls' = polls \ {s}
    /\ IF s \in Active
       THEN UNCHANGED <<stream, panel>>
       ELSE /\ panel' = [panel EXCEPT !.terminal = TRUE,
                            !.told = IF panel.terminal THEN @ ELSE @ \cup {s}]
            /\ stream' = NoStream
    /\ UNCHANGED <<runVars, switches, drops>>

(* The panel is paused; on resumption it starts over. *)
Switch ==
    /\ switches < MaxSwitches
    /\ switches' = switches + 1
    /\ panel' = [panel EXCEPT !.mode = IF @ = "paused" THEN "sse" ELSE "paused",
                              !.terminal = FALSE, !.seen = {}]
    /\ stream' = IF panel.mode = "paused" THEN NewStream ELSE NoStream
    /\ UNCHANGED <<runVars, polls, drops>>

PanelStep == StreamYield \/ FallBack \/ Ask \/ (\E s \in polls : Answer(s)) \/ Switch

Next == RunStep \/ StreamRead \/ StreamStatus \/ StreamDrain \/ StreamEnd \/ Drop \/ PanelStep

Spec == Init /\ [][Next]_vars

(* The server's loop and the browser's go on; the run and the user need not. *)
Fairness ==
    /\ WF_vars(StreamRead) /\ WF_vars(StreamStatus) /\ WF_vars(StreamDrain) /\ WF_vars(StreamEnd)
    /\ WF_vars(StreamYield) /\ WF_vars(FallBack) /\ WF_vars(Ask)
    /\ \A s \in RunStatus : WF_vars(Answer(s))

LiveSpec == Spec /\ Fairness

--------------------------------------------------------------------------------
(* Every variable holds a value of its kind; the stream is within the log. *)
EventsTypeOK ==
    /\ status \in RunStatus /\ log \in Seq({"log"} \cup Terminal)
    /\ \A w \in Writers :
        /\ owed[w] \in Seq(Terminal)
        /\ \A write \in valid[w] : write.to \in RunStatus /\ write.then \in Seq(Terminal)
    /\ stream.pc \in {"off", "read", "yield", "drain", "last", "closed"}
    /\ stream.last <= stream.upto /\ stream.upto <= Len(log)
    /\ panel.mode \in {"sse", "polling", "paused"} /\ polls \subseteq RunStatus

(* A connection shows the log from its beginning without a gap, across      *)
(* batches, polls and the final drain.                                      *)
NoGap == stream.pc # "off" => panel.seen = 1..stream.last

(* onTerminal loads the run again when there is something final to load,     *)
(* whatever order the writers write and emit in.  The exceptions are a run   *)
(* set going again by a status validated before its end (undone), and a poll *)
(* of a run that nobody started yet.                                         *)
ToldWhenFinal ==
    "active" \notin undone => panel.told \subseteq Terminal \cup {"CREATED"}

(* The status a run ends with gets to a panel that is not paused: by an      *)
(* event, or, when the stream closed before the event was written, when a    *)
(* full batch hid it, when it was lost or the connection broke, by the       *)
(* polling after it.  The exceptions are a final status written over and a   *)
(* panel that gave up on a run not started yet.                              *)
EndIsTold ==
    \A end \in Terminal :
        status = end ~>
            \/ end \in panel.told
            \/ panel.mode = "paused"
            \/ undone # {}
            \/ panel.terminal /\ "CREATED" \in panel.told
================================================================================
