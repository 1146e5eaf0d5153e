------------------------------ MODULE PromptQueue ------------------------------
(***************************************************************************)
(* One prompt queue of prompt_queue.py together with the storage functions *)
(* it is built on: a queue row bound to a desktop-app target and the       *)
(* prompts queued in it.  Every public operation is ONE atomic step, which *)
(* is what a single client sees; PromptQueueCalls.tla takes the same       *)
(* operations apart into their storage calls.                              *)
(*                                                                         *)
(* Text, titles, timestamps other than started_at and the per-request      *)
(* inputs of the injection gates (confirmation, window verification and    *)
(* its override) are left out: a request one of those gates refuses changes*)
(* nothing.                                                                *)
(***************************************************************************)
EXTENDS Integers, FiniteSets

CONSTANTS
    NumPrompts,     \* bound: how many prompts are ever added to the queue
    AddPositions,   \* explicit positions a client passes to add_prompt_to_queue
    NewPositions    \* positions a client passes to reorder_prompt

ASSUME NumPromptsAssumption == NumPrompts \in Nat \ {0}
ASSUME PositionsAssumption  == AddPositions \subseteq Int /\ NewPositions \subseteq Int

VARIABLES
    queue,      \* prompt_queues.status, "NONE" before create and "DELETED" after delete
    started,    \* prompt_queues.started_at is set
    target,     \* app_targets.status of the bound target, or "UNBOUND"
    status,     \* queued_prompts.status by prompt id, "NONE" when there is no row
    position,   \* queued_prompts.position by prompt id
    delivered   \* how often the prompt was put on the clipboard for the app (external)

vars == <<queue, started, target, status, position, delivered>>

--------------------------------------------------------------------------------
(* Row ids are handed out in increasing order. *)
Prompt == 1 .. NumPrompts

QueueTerminal   == {"DONE", "FAILED", "CANCELLED"}
PromptTerminal  == {"DONE", "FAILED", "SKIPPED", "CANCELLED"}
PromptActive    == {"INJECTING", "SUBMITTED", "WAITING_COMPLETION"}
PromptInjectable == {"PENDING", "READY_TO_INJECT"}

QueueExists == queue \notin {"NONE", "DELETED"}
Listed == {p \in Prompt : status[p] # "NONE"}
Live(s) == {p \in Prompt : s[p] \notin PromptTerminal \cup {"NONE"}}
Pending(s) == {p \in Prompt : s[p] = "PENDING"}
Active == {p \in Prompt : status[p] \in PromptActive}

(* ORDER BY position ASC, id ASC. *)
Before(p, q) == \/ position[p] < position[q]
                \/ position[p] = position[q] /\ p < q

First(S) == CHOOSE p \in S : \A q \in S \ {p} : Before(p, q)

(* get_current_prompt: the lowest non-terminal prompt, whatever its status. *)
Current == First(Live(status))

(* COALESCE(MAX(position), 0) over the rows of the queue. *)
LastPosition ==
    IF Listed = {} THEN 0
    ELSE position[CHOOSE p \in Listed : \A q \in Listed : position[q] <= position[p]]

--------------------------------------------------------------------------------
Init ==
    /\ queue = "NONE"
    /\ started = FALSE
    /\ target = "UNBOUND"
    /\ status = [p \in Prompt |-> "NONE"]
    /\ position = [p \in Prompt |-> 0]
    /\ delivered = [p \in Prompt |-> 0]

(* create_queue: unbound, or bound to an app target that exists. *)
CreateQueue ==
    /\ queue = "NONE"
    /\ queue' = "DRAFT"
    /\ target' \in {"UNBOUND", "ACTIVE", "DISABLED"}
    /\ UNCHANGED <<started, status, position, delivered>>

(* Mutant: the prompt rows outlive the queue. *)
DeleteQueueOnly ==
    /\ QueueExists
    /\ queue' = "DELETED"
    /\ UNCHANGED <<started, target, status, position, delivered>>

DeleteQueue ==
    /\ QueueExists
    /\ queue' = "DELETED"
    /\ status' = [p \in Prompt |-> "NONE"]
    /\ UNCHANGED <<started, target, position, delivered>>

(* The app-target side: enable or disable.  The foreign key of              *)
(* prompt_queues.app_target_id refuses to delete a target while it is bound.*)
SetTargetStatus ==
    /\ target \in {"ACTIVE", "DISABLED"}
    /\ target' \in {"ACTIVE", "DISABLED"}
    /\ UNCHANGED <<queue, started, status, position, delivered>>

--------------------------------------------------------------------------------
AddPrompt(at) ==
    /\ QueueExists
    /\ queue \notin QueueTerminal
    /\ \E p \in Prompt \ Listed :
          /\ \A q \in Prompt \ Listed : p <= q
          /\ status' = [status EXCEPT ![p] = "PENDING"]
          /\ position' = [position EXCEPT ![p] = at]
    /\ queue' = IF queue = "DRAFT" THEN "READY" ELSE queue
    /\ UNCHANGED <<started, target, delivered>>

AddAtEnd == AddPrompt(LastPosition + 1)
AddAtPosition == \E at \in AddPositions : AddPrompt(at)

(* reorder_queued_prompt takes p out of the sorted list, puts it back at   *)
(* the clamped index and numbers the whole list 1, 2, 3, ...               *)
Renumbered(p, newPosition) ==
    LET others == Listed \ {p}
        wanted == newPosition - 1
        index  == IF wanted < 0 THEN 0
                  ELSE IF wanted > Cardinality(others) THEN Cardinality(others)
                  ELSE wanted
        rank(q) == Cardinality({r \in others : Before(r, q)})
    IN  [q \in Prompt |->
            IF q = p THEN index + 1
            ELSE IF q \notin others THEN position[q]
            ELSE IF rank(q) < index THEN rank(q) + 1
            ELSE rank(q) + 2]

(* Mutant: any prompt may be moved. *)
ReorderAny(p, newPosition) ==
    /\ status[p] # "NONE"
    /\ position' = Renumbered(p, newPosition)
    /\ UNCHANGED <<queue, started, target, status, delivered>>

Reorder(p, newPosition) ==
    /\ status[p] = "PENDING"
    /\ position' = Renumbered(p, newPosition)
    /\ UNCHANGED <<queue, started, target, status, delivered>>

--------------------------------------------------------------------------------
(* Mutant: the gate on an active prompt is missing. *)
InjectableUngated ==
    /\ QueueExists
    /\ target = "ACTIVE"
    /\ queue # "PAUSED"
    /\ queue \notin QueueTerminal
    /\ Live(status) # {}
    /\ status[Current] \in PromptInjectable

(* The gates inject_current_prompt checks before it touches anything. *)
Injectable ==
    /\ QueueExists
    /\ target = "ACTIVE"
    /\ queue # "PAUSED"
    /\ queue \notin QueueTerminal
    /\ Active = {}
    /\ Live(status) # {}
    /\ status[Current] \in PromptInjectable

(* update_prompt_queue_status(RUNNING, started_at), for a DRAFT or READY queue. *)
StartQueue ==
    /\ queue' = IF queue \in {"DRAFT", "READY"} THEN "RUNNING" ELSE queue
    /\ started' = (started \/ queue \in {"DRAFT", "READY"})

(* Mutant: an injected prompt is left SUBMITTED. *)
InjectLeftSubmitted ==
    /\ Injectable
    /\ StartQueue
    /\ status' = [status EXCEPT ![Current] = "SUBMITTED"]
    /\ delivered' = [delivered EXCEPT ![Current] = @ + 1]
    /\ UNCHANGED <<target, position>>

InjectSubmitted ==
    /\ Injectable
    /\ StartQueue
    /\ status' = [status EXCEPT ![Current] = "WAITING_COMPLETION"]
    /\ delivered' = [delivered EXCEPT ![Current] = @ + 1]
    /\ UNCHANGED <<target, position>>

(* InjectionError: the clipboard could not be set; the prompt is reverted. *)
InjectRefused ==
    /\ Injectable
    /\ StartQueue
    /\ status' = [status EXCEPT ![Current] = "READY_TO_INJECT"]
    /\ UNCHANGED <<target, position, delivered>>

(* Mutant: every exception reverts the prompt, pasted or not. *)
InjectAlwaysReverted ==
    /\ Injectable
    /\ StartQueue
    /\ status' = [status EXCEPT ![Current] = "READY_TO_INJECT"]
    /\ \/ delivered' = [delivered EXCEPT ![Current] = @ + 1]
       \/ UNCHANGED delivered
    /\ UNCHANGED <<target, position>>

(* Anything else ends the call (an exception of the hotkey library, the     *)
(* death of the process) with the prompt INJECTING, pasted or not.          *)
InjectAborted ==
    /\ Injectable
    /\ StartQueue
    /\ status' = [status EXCEPT ![Current] = "INJECTING"]
    /\ \/ delivered' = [delivered EXCEPT ![Current] = @ + 1]
       \/ UNCHANGED delivered
    /\ UNCHANGED <<target, position>>

--------------------------------------------------------------------------------
(* _advance_queue, given the prompt statuses s it reads. *)
ReadyNext(s) ==
    IF Pending(s) = {} THEN s
    ELSE [s EXCEPT ![First(Pending(s))] = "READY_TO_INJECT"]

(* Mutant: an exhausted queue is not closed. *)
QueueKept(s) == queue

QueueAfter(s) ==
    IF Live(s) = {} /\ queue \notin QueueTerminal THEN "DONE" ELSE queue

FinishPrompt(outcome) ==
    LET finished == [status EXCEPT ![Current] = outcome]
    IN  /\ status' = ReadyNext(finished)
        /\ queue' = QueueAfter(finished)
        /\ UNCHANGED <<started, target, position, delivered>>

MarkCurrentComplete ==
    /\ QueueExists
    /\ Live(status) # {}
    /\ status[Current] = "WAITING_COMPLETION"
    /\ FinishPrompt("DONE")

SkipCurrentPrompt ==
    /\ QueueExists
    /\ Live(status) # {}
    /\ FinishPrompt("SKIPPED")

PauseQueue ==
    /\ QueueExists
    /\ queue \notin QueueTerminal
    /\ queue' = "PAUSED"
    /\ UNCHANGED <<started, target, status, position, delivered>>

ResumeQueue ==
    /\ queue = "PAUSED"
    /\ queue' = IF started THEN "RUNNING" ELSE "READY"
    /\ UNCHANGED <<started, target, status, position, delivered>>

(* Mutant: finished prompts are cancelled too. *)
AllCancelled(s) ==
    [p \in Prompt |-> IF s[p] # "NONE" THEN "CANCELLED" ELSE s[p]]

CancelledStatus(s) ==
    [p \in Prompt |-> IF p \in Live(s) THEN "CANCELLED" ELSE s[p]]

CancelQueue ==
    /\ QueueExists
    /\ queue \notin QueueTerminal
    /\ status' = CancelledStatus(status)
    /\ queue' = "CANCELLED"
    /\ UNCHANGED <<started, target, position, delivered>>

Next ==
    \/ CreateQueue
    \/ DeleteQueue
    \/ SetTargetStatus
    \/ AddAtEnd
    \/ AddAtPosition
    \/ \E p \in Prompt, n \in NewPositions : Reorder(p, n)
    \/ InjectSubmitted
    \/ InjectRefused
    \/ InjectAborted
    \/ MarkCurrentComplete
    \/ SkipCurrentPrompt
    \/ PauseQueue
    \/ ResumeQueue
    \/ CancelQueue

Spec == Init /\ [][Next]_vars

--------------------------------------------------------------------------------
(* Every variable keeps its type; the statuses are those the code ever      *)
(* writes (a queue never becomes FAILED and a prompt never SUBMITTED or     *)
(* FAILED through prompt_queue.py).                                         *)
TypeOK ==
    /\ queue \in {"NONE", "DRAFT", "READY", "RUNNING", "PAUSED", "DONE",
                  "CANCELLED", "DELETED"}
    /\ started \in BOOLEAN
    /\ target \in {"UNBOUND", "ACTIVE", "DISABLED"}
    /\ status \in [Prompt -> {"NONE", "PENDING", "READY_TO_INJECT", "INJECTING",
                              "WAITING_COMPLETION", "DONE", "SKIPPED", "CANCELLED"}]
    /\ position \in [Prompt -> Int]
    /\ delivered \in [Prompt -> Nat]

(* prompt_queue.py:12: at most one prompt of a queue is INJECTING,          *)
(* SUBMITTED or WAITING_COMPLETION, whatever prompts are added, moved or    *)
(* skipped in between.                                                      *)
OneActive == \A p, q \in Active : p = q

(* The queue row and its prompt rows finish together: a queue that has      *)
(* prompts is DONE or CANCELLED exactly when none of them is live, so no    *)
(* prompt is stranded in a finished queue and no exhausted queue stays open.*)
FinishedTogether ==
    QueueExists /\ Listed # {} => (queue \in QueueTerminal <=> Live(status) = {})

(* delete_prompt_queue takes the prompts along, and only a prompt that was   *)
(* queued is ever delivered: no row outlives the queue, no row appears in a  *)
(* queue that is not there, and a new row starts undelivered.               *)
NoOrphans ==
    /\ ~QueueExists => Listed = {}
    /\ queue # "DELETED" => \A p \in Prompt \ Listed : delivered[p] = 0

(* A prompt reaches the app at most once: it is on the way to the app       *)
(* exactly once when it waits or is done, and not yet while it can still be *)
(* injected, after any number of failed attempts.                           *)
DeliveredOnce ==
    \A p \in Prompt :
        /\ delivered[p] <= 1
        /\ status[p] \in PromptInjectable => delivered[p] = 0
        /\ status[p] \in {"WAITING_COMPLETION", "DONE"} => delivered[p] = 1

(* A finished prompt never changes status again while its row exists.       *)
TerminalStays ==
    [][\A p \in Prompt :
          status[p] \in PromptTerminal => status'[p] \in {status[p], "NONE"}]_vars

(* prompt_queue.py:16: only PENDING prompts are reordered.  Two prompts     *)
(* change their relative order only if one of them is PENDING, although     *)
(* every reorder renumbers the whole queue.                                 *)
OrderStable ==
    [][\A p, q \in Listed :
          Before(p, q) /\ status[p] # "PENDING" /\ status[q] # "PENDING"
             => Before(p, q)']_vars

--------------------------------------------------------------------------------
(* prompt_queue.py:13-14: "the user must mark it complete before the next    *)
(* prompt becomes READY_TO_INJECT".  The code does not keep it: a PENDING    *)
(* prompt moved in front of the waiting one and skipped readies the next.    *)
ReadyAfterCompletion ==
    \A p, q \in Prompt : status[p] = "READY_TO_INJECT" => status[q] # "WAITING_COMPLETION"

(* Queues run in order: everything ahead of the current prompt is finished  *)
(* and everything behind it is untouched.  Holds as long as prompts are     *)
(* only appended, and PENDING ones only moved to the end.                   *)
InOrder ==
    \A p, q \in Listed :
        Before(p, q) => status[p] \in PromptTerminal \/ status[q] = "PENDING"
================================================================================
