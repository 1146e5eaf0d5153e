---------------------------- MODULE PromptQueueCalls ----------------------------
(***************************************************************************)
(* The operations of prompt_queue.py as what they are: sequences of storage*)
(* calls, each its own SQLite transaction, issued by clients that run side *)
(* by side (the API's thread pool, the CLI).  A client keeps what it read  *)
(* in its call record and acts on it later, when it may be stale.          *)
(*                                                                         *)
(* A call that is refused changes nothing: where the refusal comes from the*)
(* first read the action is not enabled, later on the client goes idle.    *)
(***************************************************************************)
EXTENDS PromptQueue

CONSTANTS
    Clients,        \* concurrent callers
    Injectors,      \* the callers that use inject-current
    MayDie,         \* a client's process may die between two storage calls
    MaxDelivered    \* bound: deliveries of one prompt

ASSUME ClientsAssumption ==
    Injectors \subseteq Clients /\ MayDie \in BOOLEAN /\ MaxDelivered \in Nat \ {0}

VARIABLE call       \* the call each client is in, with what it has read so far

callVars == <<queue, started, target, status, position, delivered, call>>

Idle == [pc |-> "idle", seen |-> "NONE", cur |-> 0, was |-> "NONE", todo |-> {},
         at |-> 0, places |-> [p \in Prompt |-> 0]]

At(c, pc) == call[c].pc = pc
Return(c) == call' = [call EXCEPT ![c] = Idle]
Goto(c, pc) == call' = [call EXCEPT ![c].pc = pc]

(* UPDATE ... WHERE id = ?: no effect when the row is gone. *)
SetQueue(value) == queue' = IF QueueExists THEN value ELSE queue
SetPrompt(p, value) ==
    status' = IF status[p] = "NONE" THEN status ELSE [status EXCEPT ![p] = value]

queueOnly == <<started, target, status, position, delivered>>
promptOnly == <<queue, started, target, position, delivered>>

--------------------------------------------------------------------------------
(* add_prompt_to_queue *)
AddGet(c) ==
    /\ At(c, "idle")
    /\ QueueExists
    /\ queue \notin QueueTerminal
    /\ call' = [call EXCEPT ![c].pc = "addLast", ![c].seen = queue]
    /\ UNCHANGED vars

(* The position: the client's, or the one after the last (a SELECT of its own). *)
AddLast(c) ==
    /\ At(c, "addLast")
    /\ \E at \in AddPositions \cup {LastPosition + 1} :
          call' = [call EXCEPT ![c].pc = "addInsert", ![c].at = at]
    /\ UNCHANGED vars

AddInsert(c) ==
    /\ At(c, "addInsert")
    /\ \/ /\ QueueExists
          /\ \E p \in Prompt \ Listed :
                /\ \A q \in Prompt \ Listed : p <= q
                /\ status' = [status EXCEPT ![p] = "PENDING"]
                /\ position' = [position EXCEPT ![p] = call[c].at]
          /\ IF call[c].seen = "DRAFT" THEN Goto(c, "addReady") ELSE Return(c)
          /\ UNCHANGED <<queue, started, target, delivered>>
       \/ /\ ~QueueExists \/ Listed = Prompt    \* foreign key; end of the bound
          /\ Return(c)
          /\ UNCHANGED vars

AddReady(c) ==
    /\ At(c, "addReady")
    /\ SetQueue("READY")
    /\ Return(c)
    /\ UNCHANGED queueOnly

(* reorder_prompt *)
ReorderGet(c, p) ==
    /\ At(c, "idle")
    /\ status[p] = "PENDING"
    /\ call' = [call EXCEPT ![c].pc = "reorder", ![c].cur = p]
    /\ UNCHANGED vars

(* The list is selected and renumbered: 0 stands for a prompt it does not hold. *)
ReorderList(c, newPosition) ==
    /\ At(c, "reorder")
    /\ IF status[call[c].cur] = "NONE" THEN Return(c)
       ELSE call' = [call EXCEPT ![c].pc = "reorderSet",
                                 ![c].places = Renumbered(call[c].cur, newPosition)]
    /\ UNCHANGED vars

(* The prompts of that list are written, in one transaction. *)
ReorderSet(c) ==
    /\ At(c, "reorderSet")
    /\ position' = [p \in Prompt |->
          IF status[p] = "NONE" \/ call[c].places[p] = 0 THEN position[p] ELSE call[c].places[p]]
    /\ Return(c)
    /\ UNCHANGED <<queue, started, target, status, delivered>>

--------------------------------------------------------------------------------
(* inject_current_prompt *)
InjectGetQueue(c) ==
    /\ c \in Injectors
    /\ At(c, "idle")
    /\ QueueExists
    /\ target # "UNBOUND"
    /\ queue \notin QueueTerminal \cup {"PAUSED"}
    /\ call' = [call EXCEPT ![c].pc = "injectTarget", ![c].seen = queue]
    /\ UNCHANGED vars

InjectGetTarget(c) ==
    /\ At(c, "injectTarget")
    /\ IF target = "ACTIVE" THEN Goto(c, "injectCurrent") ELSE Return(c)
    /\ UNCHANGED vars

InjectGetCurrent(c) ==
    /\ At(c, "injectCurrent")
    /\ IF Live(status) # {} /\ status[Current] \in PromptInjectable
       THEN call' = [call EXCEPT ![c].pc = "injectActive", ![c].cur = Current,
                                 ![c].was = status[Current]]
       ELSE Return(c)
    /\ UNCHANGED vars

(* Mutant: the gate on an active prompt is missing. *)
InjectUnchecked(c) ==
    /\ At(c, "injectActive")
    /\ Goto(c, IF call[c].seen \in {"DRAFT", "READY"} THEN "injectStart" ELSE "injectMark")
    /\ UNCHANGED vars

InjectCheckActive(c) ==
    /\ At(c, "injectActive")
    /\ IF Active # {} THEN Return(c)
       ELSE Goto(c, IF call[c].seen \in {"DRAFT", "READY"} THEN "injectStart" ELSE "injectMark")
    /\ UNCHANGED vars

InjectStart(c) ==
    /\ At(c, "injectStart")
    /\ SetQueue("RUNNING")
    /\ started' = (started \/ QueueExists)
    /\ Goto(c, "injectMark")
    /\ UNCHANGED <<target, status, position, delivered>>

InjectMark(c) ==
    /\ At(c, "injectMark")
    /\ SetPrompt(call[c].cur, "INJECTING")
    /\ Goto(c, "injectPaste")
    /\ UNCHANGED promptOnly

(* The injector: pasted, refused with an InjectionError, or ended by any     *)
(* other exception before or after the paste.                               *)
InjectPaste(c) ==
    /\ At(c, "injectPaste")
    /\ \/ /\ delivered[call[c].cur] < MaxDelivered
          /\ delivered' = [delivered EXCEPT ![call[c].cur] = @ + 1]
          /\ Goto(c, "injectSubmit") \/ Return(c)
       \/ /\ UNCHANGED delivered
          /\ Goto(c, "injectRevert") \/ Return(c)
    /\ UNCHANGED <<queue, started, target, status, position>>

(* Mutant: an injected prompt is left SUBMITTED. *)
InjectLeaveSubmitted(c) ==
    /\ At(c, "injectSubmit")
    /\ SetPrompt(call[c].cur, "SUBMITTED")
    /\ Return(c)
    /\ UNCHANGED promptOnly

InjectSubmit(c) ==
    /\ At(c, "injectSubmit")
    /\ SetPrompt(call[c].cur, "WAITING_COMPLETION")
    /\ Return(c)
    /\ UNCHANGED promptOnly

(* Mutant: a refused prompt goes back to PENDING. *)
InjectRevertToPending(c) ==
    /\ At(c, "injectRevert")
    /\ SetPrompt(call[c].cur, "PENDING")
    /\ Return(c)
    /\ UNCHANGED promptOnly

InjectRevert(c) ==
    /\ At(c, "injectRevert")
    /\ SetPrompt(call[c].cur, "READY_TO_INJECT")
    /\ Return(c)
    /\ UNCHANGED promptOnly

--------------------------------------------------------------------------------
(* Mutant: whatever prompt is current can be completed. *)
CompleteAny(c) ==
    /\ At(c, "idle")
    /\ QueueExists
    /\ Live(status) # {}
    /\ call' = [call EXCEPT ![c].pc = "complete", ![c].cur = Current]
    /\ UNCHANGED vars

(* mark_current_complete, skip_current_prompt and _advance_queue *)
CompleteGet(c) ==
    /\ At(c, "idle")
    /\ QueueExists
    /\ Live(status) # {}
    /\ status[Current] = "WAITING_COMPLETION"
    /\ call' = [call EXCEPT ![c].pc = "complete", ![c].cur = Current]
    /\ UNCHANGED vars

SkipGet(c) ==
    /\ At(c, "idle")
    /\ QueueExists
    /\ Live(status) # {}
    /\ call' = [call EXCEPT ![c].pc = "skip", ![c].cur = Current]
    /\ UNCHANGED vars

FinishSet(c) ==
    /\ \/ At(c, "complete") /\ SetPrompt(call[c].cur, "DONE")
       \/ At(c, "skip") /\ SetPrompt(call[c].cur, "SKIPPED")
    /\ call' = [call EXCEPT ![c] = [Idle EXCEPT !.pc = "advance"]]
    /\ UNCHANGED promptOnly

(* Mutant: ORDER BY position DESC. *)
AdvanceToLast(c) ==
    /\ At(c, "advance")
    /\ IF Pending(status) = {} THEN Goto(c, "advanceCheck")
       ELSE \E p \in Pending(status) :
              /\ \A q \in Pending(status) \ {p} : Before(q, p)
              /\ call' = [call EXCEPT ![c].pc = "advanceReady", ![c].cur = p]
    /\ UNCHANGED vars

AdvanceNext(c) ==
    /\ At(c, "advance")
    /\ IF Pending(status) = {} THEN Goto(c, "advanceCheck")
       ELSE call' = [call EXCEPT ![c].pc = "advanceReady", ![c].cur = First(Pending(status))]
    /\ UNCHANGED vars

AdvanceReady(c) ==
    /\ At(c, "advanceReady")
    /\ SetPrompt(call[c].cur, "READY_TO_INJECT")
    /\ Return(c)
    /\ UNCHANGED promptOnly

AdvanceCheck(c) ==
    /\ At(c, "advanceCheck")
    /\ IF Live(status) = {} THEN Goto(c, "advanceQueue") ELSE Return(c)
    /\ UNCHANGED vars

AdvanceQueue(c) ==
    /\ At(c, "advanceQueue")
    /\ IF QueueExists /\ queue \notin QueueTerminal THEN Goto(c, "advanceDone") ELSE Return(c)
    /\ UNCHANGED vars

AdvanceDone(c) ==
    /\ At(c, "advanceDone")
    /\ SetQueue("DONE")
    /\ Return(c)
    /\ UNCHANGED queueOnly

--------------------------------------------------------------------------------
(* pause_queue, resume_queue, cancel_queue *)
PauseGet(c) ==
    /\ At(c, "idle")
    /\ QueueExists
    /\ queue \notin QueueTerminal
    /\ call' = [call EXCEPT ![c].pc = "switch", ![c].seen = "PAUSED"]
    /\ UNCHANGED vars

ResumeGet(c) ==
    /\ At(c, "idle")
    /\ queue = "PAUSED"
    /\ call' = [call EXCEPT ![c].pc = "switch",
                            ![c].seen = IF started THEN "RUNNING" ELSE "READY"]
    /\ UNCHANGED vars

SwitchSet(c) ==
    /\ At(c, "switch")
    /\ SetQueue(call[c].seen)
    /\ Return(c)
    /\ UNCHANGED queueOnly

CancelGet(c) ==
    /\ At(c, "idle")
    /\ QueueExists
    /\ queue \notin QueueTerminal
    /\ Goto(c, "cancelList")
    /\ UNCHANGED vars

CancelList(c) ==
    /\ At(c, "cancelList")
    /\ call' = [call EXCEPT ![c].pc = "cancel", ![c].todo = Live(status)]
    /\ UNCHANGED vars

(* One UPDATE per listed prompt, whatever its status has become since. *)
CancelOne(c) ==
    /\ At(c, "cancel")
    /\ \E p \in call[c].todo :
          /\ SetPrompt(p, "CANCELLED")
          /\ call' = [call EXCEPT ![c].todo = @ \ {p}]
    /\ UNCHANGED promptOnly

CancelSet(c) ==
    /\ At(c, "cancel")
    /\ call[c].todo = {}
    /\ SetQueue("CANCELLED")
    /\ Return(c)
    /\ UNCHANGED queueOnly

--------------------------------------------------------------------------------
(* The process of a client dies between two storage calls. *)
Die(c) ==
    /\ MayDie
    /\ ~At(c, "idle")
    /\ Return(c)
    /\ UNCHANGED vars

(* create_queue, delete_queue and the app-target switches write once. *)
SingleWrite(c) ==
    /\ At(c, "idle")
    /\ CreateQueue \/ DeleteQueue \/ SetTargetStatus
    /\ UNCHANGED call

CallsInit == Init /\ call = [c \in Clients |-> Idle]

(* The handlers, by the command or route that runs them. *)
Adding(c) == AddGet(c) \/ AddLast(c) \/ AddInsert(c) \/ AddReady(c)

Reordering(c) ==
    \/ \E p \in Prompt : NewPositions # {} /\ ReorderGet(c, p)
    \/ \E n \in NewPositions : ReorderList(c, n)
    \/ ReorderSet(c)

Injecting(c) ==
    \/ InjectGetQueue(c) \/ InjectGetTarget(c) \/ InjectGetCurrent(c)
    \/ InjectCheckActive(c) \/ InjectStart(c) \/ InjectMark(c)
    \/ InjectPaste(c) \/ InjectSubmit(c) \/ InjectRevert(c)

Finishing(c) ==
    \/ CompleteGet(c) \/ SkipGet(c) \/ FinishSet(c)
    \/ AdvanceNext(c) \/ AdvanceReady(c) \/ AdvanceCheck(c)
    \/ AdvanceQueue(c) \/ AdvanceDone(c)

Switching(c) ==
    \/ PauseGet(c) \/ ResumeGet(c) \/ SwitchSet(c)
    \/ CancelGet(c) \/ CancelList(c) \/ CancelOne(c) \/ CancelSet(c)

Step(c) ==
    \/ SingleWrite(c) \/ Adding(c) \/ Reordering(c) \/ Injecting(c)
    \/ Finishing(c) \/ Switching(c) \/ Die(c)

CallsNext == \E c \in Clients : Step(c)

CallsSpec == CallsInit /\ [][CallsNext]_callVars

--------------------------------------------------------------------------------
(***************************************************************************)
(* One client: every call looks like one step of PromptQueue.  The step is *)
(* taken at the write that decides it: adding, finishing and cancelling at *)
(* their first write (what the call still has to write is added to the     *)
(* mapped state), injecting at its last (what it has written is undone).   *)
(***************************************************************************)
Caller == call[CHOOSE c \in Clients : TRUE]
InjectWrote == Caller.pc \in {"injectMark", "injectPaste", "injectSubmit", "injectRevert"}
InjectMarked == Caller.pc \in {"injectPaste", "injectSubmit", "injectRevert"}
Advancing == Caller.pc \in {"advance", "advanceReady", "advanceCheck", "advanceQueue",
                            "advanceDone"}

AbsQueue ==
    IF Caller.pc = "addReady" THEN "READY"
    ELSE IF InjectWrote THEN Caller.seen
    ELSE IF Advancing THEN QueueAfter(status)
    ELSE IF Caller.pc = "cancel" THEN "CANCELLED"
    ELSE queue

AbsStarted == started /\ ~(InjectWrote /\ Caller.seen \in {"DRAFT", "READY"})

AbsStatus ==
    IF InjectMarked THEN [status EXCEPT ![Caller.cur] = Caller.was]
    ELSE IF Advancing THEN ReadyNext(status)
    ELSE IF Caller.pc = "cancel" THEN CancelledStatus(status)
    ELSE status

AbsDelivered ==
    IF Caller.pc = "injectSubmit" THEN [delivered EXCEPT ![Caller.cur] = @ - 1]
    ELSE delivered

Atomic == INSTANCE PromptQueue WITH
              queue <- AbsQueue, started <- AbsStarted,
              status <- AbsStatus, delivered <- AbsDelivered

(* A lone client sees the atomic operations of PromptQueue, whatever the     *)
(* outcome of its injections.                                               *)
RefinesPromptQueue == Atomic!Spec

(* Between the calls of a lone client a queue is worked off in order,        *)
(* however its injections end and whatever is skipped, as long as prompts   *)
(* are appended and PENDING ones moved to the end.                          *)
WorkedOffInOrder == Atomic!InOrder

--------------------------------------------------------------------------------
(* What a call record may hold. *)
CallRecord == [pc : {"idle", "addLast", "addInsert", "addReady", "reorder", "reorderSet",
                     "injectTarget", "injectCurrent", "injectActive",
                     "injectStart", "injectMark", "injectPaste",
                     "injectSubmit", "injectRevert", "complete", "skip",
                     "advance", "advanceReady", "advanceCheck",
                     "advanceQueue", "advanceDone", "switch",
                     "cancelList", "cancel"},
               seen : {"NONE", "DRAFT", "READY", "RUNNING", "PAUSED"},
               cur : 0 .. NumPrompts,
               was : {"NONE", "PENDING", "READY_TO_INJECT"},
               todo : SUBSET Prompt,
               at : Int,
               places : [Prompt -> Int]]

(* Types of the call records on top of those of the rows. *)
CallsTypeOK == TypeOK /\ call \in [Clients -> CallRecord]

(* However calls interleave and die, the record does not claim an injection  *)
(* that did not happen (a DONE prompt was delivered) nor deny one that did  *)
(* (a PENDING prompt was not).                                              *)
HistoryIsTrue ==
    \A p \in Prompt :
        /\ status[p] = "DONE" => delivered[p] >= 1
        /\ status[p] = "PENDING" => delivered[p] = 0
================================================================================
