------------------------------- MODULE Injection -------------------------------
(***************************************************************************)
(* What inject_current_prompt does to the desktop: app_injection.py with the*)
(* target's verification (app_targets.py, window_detection.py), and the    *)
(* edits of the target that run beside it.  The desktop has one clipboard  *)
(* and one focused window, shared by every queue and by the user.          *)
(*                                                                         *)
(* A queue is its current prompt; the queue's own gates are modelled in    *)
(* PromptQueueCalls.tla.  A target is what its verification looks at: the  *)
(* expected value of the hint its mode uses, against the window's.         *)
(***************************************************************************)
EXTENDS Integers

CONSTANTS
    Queue,          \* prompt queues bound to the one target, injecting side by side
    Requests,       \* what inject-current is called with: user_confirmed, allow_target_mismatch,
                    \* restore_clipboard_after
    Editor,         \* callers of update_target
    Window,         \* what may have the focus; "nameless" has a title only, "unreadable" nothing
    Expected,       \* expected titles or names; "blank" is an empty one
    Mode,           \* verification modes in use
    Submits,        \* whether a target submits what it pastes (a set of possibilities)
    Automation,     \* whether pyautogui is installed (a set of possibilities)
    MayDie,         \* an editor may die between its two writes
    MaxMoves        \* bound: what user and editors do while injections are under way

ASSUME InjectionAssumption ==
    /\ Mode \subseteq {"manual_confirm", "none", "window_title_hint", "app_name_hint"}
    /\ Queue \cap {"text", "none"} = {}
    /\ Requests \subseteq [confirmed : BOOLEAN, allowed : BOOLEAN, restore : BOOLEAN]
    /\ Automation \subseteq BOOLEAN /\ Submits \subseteq BOOLEAN /\ MayDie \in BOOLEAN /\ MaxMoves \in Nat

Field == [mode : Mode, confirm : BOOLEAN, expected : Expected, submit : Submits]

NoTarget == [status |-> "NONE"]

VARIABLES
    automation,     \* pyautogui is installed
    window,         \* the focused window
    clipboard,      \* "text" of the user's, or the queue whose prompt it holds
    target,         \* app_targets: status, the fields, and what the fingerprint was made of
    bound,          \* the queues that exist; each holds a foreign key to the target
    prompt,         \* status of the queue's current prompt
    call,           \* the injection each queue is in
    edit,           \* the update each editor is in
    pasted,         \* history: how often the paste hotkey was sent for the queue's prompt
    copied,         \* history: what was last put on the clipboard other than by a restore
    moves,          \* what user and editors did since an injection began (for the bound)
    torn            \* history: an update stopped between its writes, or met another row
                    \* under its id, and none completed since

vars == <<moves, automation, window, clipboard, target, bound, prompt, call, edit, pasted, copied, torn>>

Idle == [pc |-> "idle"]
At(q, pc) == call[q].pc = pc
Exists == target.status # "NONE"

(* The hash of a target's identifying fields, as those fields. *)
Fingerprint(t) == t.expected

Init ==
    /\ automation \in Automation
    /\ window \in Window /\ clipboard = "text"
    /\ target = NoTarget /\ bound = {}
    /\ prompt = [q \in Queue |-> "READY_TO_INJECT"]
    /\ call = [q \in Queue |-> Idle] /\ edit = [e \in Editor |-> Idle]
    /\ pasted = [q \in Queue |-> 0] /\ copied = "text" /\ torn = FALSE /\ moves = 0

--------------------------------------------------------------------------------
(* A call is on its own as long as nobody moves what it has looked at: the   *)
(* focus, the target's row, the clipboard (history).                        *)
Disturbed(by) == [q \in Queue |-> IF q \in by \/ call[q].pc = "idle" THEN call[q]
                                   ELSE [call[q] EXCEPT !.own = FALSE]]

Moved ==
    IF \A q \in Queue : At(q, "idle") THEN moves' = 0
    ELSE moves < MaxMoves /\ moves' = moves + 1

(* The user: focuses a window, copies a text. *)
Focus(w) ==
    /\ Moved
    /\ w # window /\ window' = w
    /\ call' = Disturbed({})
    /\ UNCHANGED <<automation, clipboard, target, bound, prompt, edit, pasted, copied, torn>>

UserCopies ==
    /\ Moved
    /\ clipboard' = "text" /\ copied' = "text"
    /\ call' = Disturbed({})
    /\ UNCHANGED <<automation, window, target, bound, prompt, edit, pasted, torn>>

--------------------------------------------------------------------------------
(* app_targets.py *)

CreateTarget ==
    /\ ~Exists
    /\ \E f \in Field :
          target' = [status |-> "ACTIVE", mode |-> f.mode, confirm |-> f.confirm,
                     expected |-> f.expected, submit |-> f.submit, print |-> Fingerprint(f)]
    /\ UNCHANGED <<moves, automation, window, clipboard, bound, prompt, call, edit, pasted, copied, torn>>

(* The foreign key of prompt_queues.app_target_id: no queue without its      *)
(* target, no deletion of a target that has a queue.  The next target gets   *)
(* the id of the last one deleted (INTEGER PRIMARY KEY).                    *)
BindQueue(q) ==
    /\ Exists /\ q \notin bound
    /\ bound' = bound \cup {q}
    /\ UNCHANGED <<moves, automation, window, clipboard, target, prompt, call, edit, pasted, copied, torn>>

(* Mutant: without the foreign key. *)
DeleteAnyTarget ==
    /\ Exists
    /\ target' = NoTarget /\ torn' = FALSE
    /\ edit' = [e \in Editor |-> IF edit[e].pc = "idle" THEN Idle
                                  ELSE [edit[e] EXCEPT !.own = FALSE]]
    /\ UNCHANGED <<moves, automation, window, clipboard, bound, prompt, call, pasted, copied>>

DeleteTarget ==
    /\ Exists /\ bound = {}
    /\ target' = NoTarget /\ torn' = FALSE
    /\ edit' = [e \in Editor |-> IF edit[e].pc = "idle" THEN Idle
                                  ELSE [edit[e] EXCEPT !.own = FALSE]]
    /\ UNCHANGED <<moves, automation, window, clipboard, bound, prompt, call, pasted, copied>>

SetStatus(status) ==
    /\ Moved
    /\ Exists
    /\ target' = [target EXCEPT !.status = status]
    /\ call' = Disturbed({})
    /\ UNCHANGED <<automation, window, clipboard, bound, prompt, edit, pasted, copied, torn>>

(* update_target: write the given fields, read the row back, and write the   *)
(* fingerprint if it is not the row's.  A row that is gone takes no write.   *)
EditFields(e) ==
    /\ Moved
    /\ edit[e].pc = "idle" /\ Exists
    /\ \/ \E x \in Expected : target' = [target EXCEPT !.expected = x]
       \/ \E m \in Mode : target' = [target EXCEPT !.mode = m]
       \/ \E c \in BOOLEAN : target' = [target EXCEPT !.confirm = c]
    /\ edit' = [edit EXCEPT ![e] = [pc |-> "read", own |-> TRUE]]
    /\ call' = Disturbed({})
    /\ UNCHANGED <<automation, window, clipboard, bound, prompt, pasted, copied, torn>>

(* Mutant: the fingerprint is compared before the fields are written. *)
EditReadUnchanged(e) ==
    /\ edit[e].pc = "read"
    /\ edit' = [edit EXCEPT ![e] = Idle]
    /\ torn' = FALSE
    /\ UNCHANGED <<moves, automation, window, clipboard, target, bound, prompt, call, pasted, copied>>

EditRead(e) ==
    /\ edit[e].pc = "read"
    /\ IF Exists /\ Fingerprint(target) # target.print
       THEN edit' = [edit EXCEPT ![e] = [pc |-> "print", own |-> edit[e].own,
                                         print |-> Fingerprint(target)]]
            /\ UNCHANGED torn
       ELSE edit' = [edit EXCEPT ![e] = Idle] /\ torn' = FALSE
    /\ UNCHANGED <<moves, automation, window, clipboard, target, bound, prompt, call, pasted, copied>>

EditPrint(e) ==
    /\ edit[e].pc = "print"
    /\ target' = IF Exists THEN [target EXCEPT !.print = edit[e].print] ELSE target
    /\ edit' = [edit EXCEPT ![e] = Idle] /\ torn' = ~edit[e].own
    /\ UNCHANGED <<moves, automation, window, clipboard, bound, prompt, call, pasted, copied>>

EditorDies(e) ==
    /\ MayDie /\ edit[e].pc # "idle"
    /\ edit' = [edit EXCEPT ![e] = Idle] /\ torn' = TRUE
    /\ UNCHANGED <<moves, automation, window, clipboard, target, bound, prompt, call, pasted, copied>>

--------------------------------------------------------------------------------
(* verify_active_window_against_target *)
Verification(t) ==
    IF \/ t.mode \in {"manual_confirm", "none"}
       \/ t.expected = "blank" /\ window # "unreadable" THEN "manual_required"
    ELSE IF \/ window = "unreadable"
            \/ window = "nameless" /\ t.mode = "app_name_hint" THEN "unavailable"
    ELSE IF window = t.expected THEN "verified" ELSE "mismatch"

AsksConfirmation(t) == t.mode = "manual_confirm" \/ t.confirm

(* Mutant: the stored flag alone decides. *)
ConfirmationUnlessHinted(t, confirmed) == confirmed \/ ~t.confirm

(* require_target_confirmation *)
ConfirmationGiven(t, confirmed) == confirmed \/ ~AsksConfirmation(t)

(* inject_current_prompt: the queue and its target are read, *)
Begin(q, request) ==
    /\ At(q, "idle") /\ q \in bound
    /\ call' = [call EXCEPT ![q] =
          [pc |-> "verify", target |-> target, request |-> request, backup |-> "none",
           own |-> TRUE]]
    /\ UNCHANGED <<moves, automation, window, clipboard, target, bound, prompt, edit, pasted, copied, torn>>

(* Mutant: the mismatch gate is left to the summary's warnings. *)
VerifyWithWarning(q) ==
    /\ At(q, "verify")
    /\ LET c == call[q] IN
       IF /\ c.target.status = "ACTIVE"
          /\ prompt[q] = "READY_TO_INJECT"
          /\ ConfirmationGiven(c.target, c.request.confirmed)
       THEN call' = [call EXCEPT ![q].pc = "mark", ![q].target = [submit |-> @.submit]]
       ELSE call' = [call EXCEPT ![q] = Idle]
    /\ UNCHANGED <<moves, automation, window, clipboard, target, bound, prompt, edit, pasted, copied, torn>>

(* then the window is, and the gates decide on what was read.  A call with  *)
(* dry_run stops before the gates and changes nothing.                      *)
Verify(q) ==
    /\ At(q, "verify")
    /\ LET c == call[q] IN
       IF /\ c.target.status = "ACTIVE"
          /\ prompt[q] = "READY_TO_INJECT"
          /\ ConfirmationGiven(c.target, c.request.confirmed)
          /\ Verification(c.target) = "mismatch" => c.request.allowed
       THEN call' = [call EXCEPT ![q].pc = "mark", ![q].target = [submit |-> @.submit]]
       ELSE call' = [call EXCEPT ![q] = Idle]
    /\ UNCHANGED <<moves, automation, window, clipboard, target, bound, prompt, edit, pasted, copied, torn>>

Mark(q) ==
    /\ At(q, "mark")
    /\ prompt' = [prompt EXCEPT ![q] = "INJECTING"]
    /\ call' = [call EXCEPT ![q].pc = IF call[q].request.restore THEN "backup" ELSE "copy"]
    /\ UNCHANGED <<moves, automation, window, clipboard, target, bound, edit, pasted, copied, torn>>

(* backup_clipboard: None when it cannot be read *)
Backup(q) ==
    /\ At(q, "backup")
    /\ \E previous \in {clipboard, "none"} :
          call' = [call EXCEPT ![q].pc = "copy", ![q].backup = previous]
    /\ UNCHANGED <<moves, automation, window, clipboard, target, bound, prompt, edit, pasted, copied, torn>>

(* copy_prompt_to_clipboard; when it cannot be set the prompt is reverted.   *)
Copy(q) ==
    /\ At(q, "copy")
    /\ \/ /\ clipboard' = q /\ copied' = q
          /\ call' = [Disturbed({q}) EXCEPT ![q].pc = "paste"]
          /\ UNCHANGED prompt
       \/ /\ prompt' = [prompt EXCEPT ![q] = "READY_TO_INJECT"]
          /\ call' = [call EXCEPT ![q] = Idle]
          /\ UNCHANGED <<clipboard, copied>>
    /\ UNCHANGED <<moves, automation, window, target, bound, edit, pasted, torn>>

(* Mutant: the clipboard is restored whether or not a paste was sent. *)
CopyOnlyRestored(q) ==
    /\ At(q, "paste") /\ ~automation
    /\ call' = [call EXCEPT ![q].pc = IF call[q].request.restore THEN "restore" ELSE "finish"]
    /\ UNCHANGED <<moves, automation, window, clipboard, target, bound, prompt, edit, pasted, copied, torn>>

(* Without automation the prompt stays on the clipboard for the user. *)
CopyOnly(q) ==
    /\ At(q, "paste") /\ ~automation
    /\ call' = [call EXCEPT ![q].pc = "finish"]
    /\ UNCHANGED <<moves, automation, window, clipboard, target, bound, prompt, edit, pasted, copied, torn>>

(* The hotkey goes to the window that has the focus now; an exception of     *)
(* pyautogui ends the call and leaves the prompt INJECTING.                  *)
Paste(q) ==
    /\ At(q, "paste") /\ automation
    /\ \/ /\ pasted' = [pasted EXCEPT ![q] = @ + 1]
          /\ call' = [call EXCEPT ![q].pc = IF call[q].target.submit THEN "submit"
                                            ELSE IF call[q].request.restore THEN "restore" ELSE "finish"]
       \/ /\ call' = [call EXCEPT ![q] = Idle]
          /\ UNCHANGED pasted
    /\ UNCHANGED <<moves, automation, window, clipboard, target, bound, prompt, edit, copied, torn>>

(* send_submit_hotkey: to the focused window too, with the same way out *)
Submit(q) ==
    /\ At(q, "submit")
    /\ \/ call' = [call EXCEPT ![q].pc = IF call[q].request.restore THEN "restore" ELSE "finish"]
       \/ call' = [call EXCEPT ![q] = Idle]
    /\ UNCHANGED <<moves, automation, window, clipboard, target, bound, prompt, edit, pasted, copied, torn>>

(* restore_clipboard, unless the backup or the restore fails *)
Restore(q) ==
    /\ At(q, "restore")
    /\ \/ /\ call[q].backup # "none"
          /\ clipboard' = call[q].backup
          /\ call' = [Disturbed({q}) EXCEPT ![q].pc = "restored"]
       \/ /\ call' = [call EXCEPT ![q].pc = "finish"]
          /\ UNCHANGED clipboard
    /\ UNCHANGED <<moves, automation, window, target, bound, prompt, edit, pasted, copied, torn>>

(* Mutant: any failure gives the prompt back, the paste sent or not. *)
FinishReverting(q) ==
    /\ call[q].pc \in {"finish", "restored"}
    /\ prompt' = [prompt EXCEPT ![q] = IF call[q].pc = "restored" \/ ~call[q].request.restore
                                       THEN "WAITING_COMPLETION" ELSE "READY_TO_INJECT"]
    /\ call' = [call EXCEPT ![q] = Idle]
    /\ UNCHANGED <<moves, automation, window, clipboard, target, bound, edit, pasted, copied, torn>>

Finish(q) ==
    /\ call[q].pc \in {"finish", "restored"}
    /\ prompt' = [prompt EXCEPT ![q] = "WAITING_COMPLETION"]
    /\ call' = [call EXCEPT ![q] = Idle]
    /\ UNCHANGED <<moves, automation, window, clipboard, target, bound, edit, pasted, copied, torn>>

--------------------------------------------------------------------------------
TargetStep ==
    \/ CreateTarget \/ DeleteTarget
    \/ \E q \in Queue : BindQueue(q)
    \/ \E status \in {"ACTIVE", "DISABLED"} : SetStatus(status)
    \/ \E e \in Editor : EditFields(e) \/ EditRead(e) \/ EditPrint(e) \/ EditorDies(e)

Inject(q) ==
    \/ \E request \in Requests : Begin(q, request)
    \/ Verify(q) \/ Mark(q) \/ Backup(q) \/ Copy(q) \/ CopyOnly(q) \/ Paste(q)
    \/ Submit(q) \/ Restore(q) \/ Finish(q)

Next ==
    \/ UserCopies \/ \E w \in Window : Focus(w)
    \/ TargetStep
    \/ \E q \in Queue : Inject(q)

Spec == Init /\ [][Next]_vars

--------------------------------------------------------------------------------
(* A row: all expected_* columns in one, and the fingerprint made of them.   *)
AppTarget == [status : {"ACTIVE", "DISABLED"}, mode : Mode, confirm : BOOLEAN,
              expected : Expected, submit : Submits, print : Expected]

(* Types, and the foreign key: a queue has its target. *)
InjectionTypeOK ==
    /\ automation \in BOOLEAN /\ window \in Window /\ torn \in BOOLEAN
    /\ {clipboard, copied} \subseteq {"text"} \cup Queue
    /\ target \in {NoTarget} \cup AppTarget
    /\ bound \subseteq Queue /\ (bound # {} => Exists)
    /\ prompt \in [Queue -> {"READY_TO_INJECT", "INJECTING", "WAITING_COMPLETION"}]
    /\ pasted \in [Queue -> Nat]

(* A prompt is pasted at most once however often it is tried: it is only     *)
(* given back for another try when no paste was sent for it, and it waits    *)
(* for completion after exactly one paste, or, without automation, none     *)
(* (prompt_queue.py: the revert on an InjectionError).                       *)
PastedOnce ==
    \A q \in Queue :
        /\ pasted[q] <= 1
        /\ prompt[q] = "READY_TO_INJECT" => pasted[q] = 0
        /\ prompt[q] = "WAITING_COMPLETION" => (pasted[q] = 1 <=> automation)

(* app_injection.py:215-216: the clipboard is restored only when a paste was *)
(* sent.  As long as none was, what was last copied is there to be pasted by*)
(* hand, whichever calls overlap.                                           *)
ManualPasteWorks ==
    clipboard # copied => \E q \in Queue : pasted[q] > 0

(* The clipboard a call restores is the one it found: its own prompt does    *)
(* not stay behind unless somebody else copied meanwhile.                   *)
GivenBack ==
    \A q \in Queue : At(q, "restored") /\ call[q].own => clipboard # q

(* A paste sends the queue's own prompt, to an enabled target whose window   *)
(* matches its hint or was overridden, with the confirmation the target asks*)
(* for, unless focus, target or clipboard were moved by another during the  *)
(* call (inject_current_prompt reads them once, at its start).              *)
PasteWasChecked ==
    [][\A q \in Queue :
          pasted'[q] # pasted[q] /\ call[q].own =>
             /\ clipboard = q
             /\ target.status = "ACTIVE"
             /\ Verification(target) = "mismatch" => call[q].request.allowed
             /\ AsksConfirmation(target) => call[q].request.confirmed]_vars

(* The fingerprint of a target is that of its fields when no update is under *)
(* way, also after one that died halfway as soon as another has completed   *)
(* (update_target writes the two in turn).  Holds for one editor.            *)
FingerprintCurrent ==
    Exists /\ ~torn /\ (\A e \in Editor : edit[e].pc = "idle")
       => target.print = Fingerprint(target)
================================================================================
