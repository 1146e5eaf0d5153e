---------------------------- MODULE InjectionProofs ----------------------------
(***************************************************************************)
(* Proofs about Injection for any queues, requests, windows and targets.   *)
(*                                                                         *)
(* What is pasted, restored and checked is proved for any number of queues *)
(* and editors.  PasteInv says at each step of a call what was pasted and  *)
(* what a call on its own still knows: the target it read agrees with the  *)
(* row in everything its gates look at, though an editor may have          *)
(* rewritten the fingerprint in between.                                   *)
(* The fingerprint is proved current for one editor; a second one may      *)
(* write its older fingerprint last.                                       *)
(***************************************************************************)
EXTENDS Injection, TLAPS

Reading == [pc : {"verify"}, target : AppTarget, request : Requests, backup : {"none"}, own : BOOLEAN]

Gated == {"mark", "backup", "copy", "paste"}
Sent == {"submit", "restore", "restored"}
Working == [pc : Gated \cup Sent \cup {"finish"}, target : [submit : Submits], request : Requests,
            backup : {"none", "text"} \cup Queue, own : BOOLEAN]

Editing == [pc : {"read"}, own : BOOLEAN] \cup [pc : {"print"}, own : BOOLEAN, print : Expected]

(* The shapes of the rows and of the calls; who injects has a target.        *)
Types ==
    /\ InjectionTypeOK
    /\ call \in [Queue -> {Idle} \cup Reading \cup Working]
    /\ edit \in [Editor -> {Idle} \cup Editing]
    /\ \A q \in Queue : call[q].pc # "idle" => q \in bound

(* How often the prompt was pasted, by the step its injection is at.         *)
PastedSoFar(q) ==
    /\ pasted[q] <= 1
    /\ prompt[q] = "READY_TO_INJECT" => pasted[q] = 0
    /\ prompt[q] = "WAITING_COMPLETION" => (pasted[q] = 1 <=> automation)
    /\ call[q].pc = "mark" => prompt[q] = "READY_TO_INJECT"
    /\ call[q].pc \in {"backup", "copy", "paste"} => prompt[q] = "INJECTING" /\ pasted[q] = 0
    /\ call[q].pc \in Sent => prompt[q] = "INJECTING" /\ pasted[q] = 1 /\ automation
    /\ call[q].pc = "finish" => prompt[q] = "INJECTING" /\ (pasted[q] = 1 <=> automation)

SameGates(t, u) == t.status = u.status /\ t.mode = u.mode /\ t.confirm = u.confirm /\ t.expected = u.expected

GatesPassed(q) ==
    /\ target.status = "ACTIVE"
    /\ ConfirmationGiven(target, call[q].request.confirmed)
    /\ Verification(target) = "mismatch" => call[q].request.allowed

(* What a call that nobody disturbed still knows. *)
OnItsOwn(q) ==
    call[q].pc # "idle" /\ call[q].own =>
        /\ call[q].pc = "verify" => SameGates(call[q].target, target)
        /\ call[q].pc \in Gated => GatesPassed(q)
        /\ call[q].pc = "paste" => clipboard = q
        /\ call[q].pc = "restored" => clipboard = call[q].backup

(* A prompt that is still to be copied is neither on the clipboard nor in    *)
(* anybody's backup of it.                                                   *)
ToBeCopied(q) == prompt[q] = "READY_TO_INJECT" \/ call[q].pc \in {"backup", "copy"}

NowhereYet(q) ==
    ToBeCopied(q) => clipboard # q /\ \A r \in Queue : call[r].pc # "idle" => call[r].backup # q

(* No call holds its own prompt as the clipboard it found. *)
BackupIsOthers(q) == call[q].pc # "idle" => call[q].backup # q

PasteInv ==
    /\ Types
    /\ ManualPasteWorks
    /\ \A q \in Queue : PastedSoFar(q) /\ OnItsOwn(q) /\ NowhereYet(q) /\ BackupIsOthers(q)

(* An update that read the row it wrote holds the row's fingerprint. *)
PrintHeld ==
    \A e \in Editor : edit[e].pc = "print" /\ edit[e].own =>
        Exists /\ edit[e].print = Fingerprint(target)

PrintInv == PrintHeld /\ FingerprintCurrent

OneEditor == \A e, f \in Editor : e = f
--------------------------------------------------------------------------------
(* A disturbed call is where it was, but no longer on its own.               *)
LEMMA DisturbedCalls ==
    ASSUME Types, NEW by \in SUBSET Queue
    PROVE  /\ Disturbed(by) \in [Queue -> {Idle} \cup Reading \cup Working]
           /\ \A q \in by : Disturbed(by)[q] = call[q]
           /\ \A q \in Queue : /\ Disturbed(by)[q].pc = call[q].pc
                               /\ call[q].pc = "idle" => Disturbed(by)[q] = Idle
                               /\ call[q].pc # "idle" =>
                                     /\ Disturbed(by)[q].target = call[q].target
                                     /\ Disturbed(by)[q].request = call[q].request
                                     /\ Disturbed(by)[q].backup = call[q].backup
                                     /\ Disturbed(by)[q].own => q \in by /\ call[q].own
<1>. SUFFICES ASSUME NEW q \in Queue
              PROVE  /\ Disturbed(by)[q] \in {Idle} \cup Reading \cup Working
                     /\ q \in by => Disturbed(by)[q] = call[q]
                     /\ Disturbed(by)[q].pc = call[q].pc
                     /\ call[q].pc = "idle" => Disturbed(by)[q] = Idle
                     /\ call[q].pc # "idle" =>
                           /\ Disturbed(by)[q].target = call[q].target
                           /\ Disturbed(by)[q].request = call[q].request
                           /\ Disturbed(by)[q].backup = call[q].backup
                           /\ Disturbed(by)[q].own => q \in by /\ call[q].own
  BY DEF Disturbed
<1>1. call[q] \in {Idle} \cup Reading \cup Working
  BY DEF Types
<1>2. Disturbed(by)[q] = IF q \in by \/ call[q].pc = "idle" THEN call[q] ELSE [call[q] EXCEPT !.own = FALSE]
  BY DEF Disturbed
<1>3. CASE call[q] = Idle
  BY <1>2, <1>3 DEF Idle
<1>4. CASE call[q] \in Reading
  BY <1>2, <1>4 DEF Reading
<1>5. CASE call[q] \in Working
  <2>1. /\ [call[q] EXCEPT !.own = FALSE] \in Working
        /\ call[q].pc # "idle"
    BY <1>5 DEF Working, Gated, Sent
  <2>2. CASE q \in by
    BY <1>2, <1>5, <2>1, <2>2
  <2>3. CASE q \notin by
    <3>1. Disturbed(by)[q] = [call[q] EXCEPT !.own = FALSE]
      BY <1>2, <2>1, <2>3
    <3>2. /\ Disturbed(by)[q].pc = call[q].pc /\ Disturbed(by)[q].target = call[q].target
          /\ Disturbed(by)[q].request = call[q].request /\ Disturbed(by)[q].backup = call[q].backup
          /\ Disturbed(by)[q].own = FALSE
      BY <3>1, <1>5 DEF Working
    <3>. QED  BY <2>1, <2>3, <3>1, <3>2
  <2>. QED  BY <2>2, <2>3
<1>. QED  BY <1>1, <1>3, <1>4, <1>5

(* What a call holds, by its step. *)
LEMMA CallShape ==
    ASSUME Types, NEW q \in Queue
    PROVE  /\ call[q].pc = "idle" => call[q] = Idle
           /\ call[q].pc = "verify" => call[q] \in Reading
           /\ call[q].pc \in Gated \cup Sent \cup {"finish"} => call[q] \in Working
           /\ call[q].pc \in {"idle", "verify", "finish"} \cup Gated \cup Sent
BY DEF Types, Idle, Reading, Working, Gated, Sent

LEMMA EditShape ==
    ASSUME Types, NEW e \in Editor
    PROVE  /\ edit[e].pc = "idle" => edit[e] = Idle
           /\ edit[e].pc = "read" => edit[e] \in [pc : {"read"}, own : BOOLEAN]
           /\ edit[e].pc = "print" => edit[e] \in [pc : {"print"}, own : BOOLEAN, print : Expected]
           /\ edit[e].pc \in {"idle", "read", "print"}
BY DEF Types, Idle, Editing

LEMMA InitPasteInv == Init => PasteInv /\ PrintInv
<1>. SUFFICES ASSUME Init PROVE PasteInv /\ PrintInv
  OBVIOUS
<1>1. /\ \A q \in Queue : call[q] = Idle /\ pasted[q] = 0 /\ prompt[q] = "READY_TO_INJECT"
      /\ \A e \in Editor : edit[e] = Idle
      /\ Idle.pc = "idle" /\ ~Exists
  BY DEF Init, Idle, Exists, NoTarget
<1>2. Types
  BY <1>1, InjectionAssumption DEF Init, Types, InjectionTypeOK
<1>3. ManualPasteWorks
  BY DEF Init, ManualPasteWorks
<1>4. ASSUME NEW q \in Queue
      PROVE  PastedSoFar(q) /\ OnItsOwn(q) /\ NowhereYet(q) /\ BackupIsOthers(q)
  BY <1>1, InjectionAssumption
  DEF Init, PastedSoFar, OnItsOwn, NowhereYet, BackupIsOthers, Sent, Gated
<1>5. PrintHeld /\ FingerprintCurrent
  BY <1>1 DEF PrintHeld, FingerprintCurrent
<1>. QED  BY <1>2, <1>3, <1>4, <1>5 DEF PasteInv, PrintInv

--------------------------------------------------------------------------------
(* A step of queue q's injection that leaves the desktop and the target as   *)
(* they are keeps PasteInv when it does so for q.                            *)
LEMMA OneCall ==
    ASSUME PasteInv, NEW q \in Queue,
           call' \in [Queue -> {Idle} \cup Reading \cup Working],
           prompt' \in [Queue -> {"READY_TO_INJECT", "INJECTING", "WAITING_COMPLETION"}],
           pasted' \in [Queue -> Nat], pasted'[q] >= pasted[q],
           \A r \in Queue \ {q} : call'[r] = call[r] /\ prompt'[r] = prompt[r] /\ pasted'[r] = pasted[r],
           UNCHANGED <<automation, window, clipboard, copied, target, bound, edit, torn>>,
           call'[q].pc # "idle" =>
              /\ q \in bound
              /\ call'[q].backup # q
              /\ \/ call'[q].backup \in {"none", clipboard}
                 \/ call[q].pc # "idle" /\ call'[q].backup = call[q].backup,
           ToBeCopied(q)' => ToBeCopied(q),
           PastedSoFar(q)', OnItsOwn(q)'
    PROVE  PasteInv'
<1>1. Types'
  BY DEF PasteInv, Types, InjectionTypeOK, Exists
<1>2. ManualPasteWorks'
  <2>. SUFFICES ASSUME clipboard # copied PROVE \E r \in Queue : pasted'[r] > 0
    BY DEF ManualPasteWorks
  <2>1. PICK r \in Queue : pasted[r] > 0
    BY DEF PasteInv, ManualPasteWorks
  <2>2. pasted \in [Queue -> Nat]
    BY DEF PasteInv, Types, InjectionTypeOK
  <2>. QED  BY <2>1, <2>2
<1>3. ASSUME NEW r \in Queue
      PROVE  PastedSoFar(r)' /\ OnItsOwn(r)' /\ BackupIsOthers(r)'
  <2>1. CASE r = q
    BY <2>1 DEF BackupIsOthers
  <2>2. CASE r # q
    <3>1. PastedSoFar(r) /\ OnItsOwn(r) /\ BackupIsOthers(r)
      BY DEF PasteInv
    <3>2. call'[r] = call[r] /\ prompt'[r] = prompt[r] /\ pasted'[r] = pasted[r]
      BY <2>2
    <3>3. PastedSoFar(r)' /\ BackupIsOthers(r)'
      BY <3>1, <3>2 DEF PastedSoFar, BackupIsOthers
    <3>4. OnItsOwn(r)'
      BY <3>1, <3>2 DEF OnItsOwn, SameGates, GatesPassed, Verification, ConfirmationGiven, AsksConfirmation
    <3>. QED  BY <3>3, <3>4
  <2>. QED  BY <2>1, <2>2
<1>4. ASSUME NEW r \in Queue, ToBeCopied(r)'
      PROVE  /\ clipboard # r
             /\ \A s \in Queue : call'[s].pc # "idle" => call'[s].backup # r
  <2>1. ToBeCopied(r)
    BY <1>4 DEF ToBeCopied
  <2>2. clipboard # r /\ \A s \in Queue : call[s].pc # "idle" => call[s].backup # r
    BY <2>1 DEF PasteInv, NowhereYet
  <2>3. ASSUME NEW s \in Queue, call'[s].pc # "idle" PROVE call'[s].backup # r
    <3>1. CASE s = q
      BY <2>2, <2>3, <3>1, InjectionAssumption
    <3>2. CASE s # q
      BY <2>2, <2>3, <3>2
    <3>. QED  BY <3>1, <3>2
  <2>. QED  BY <2>2, <2>3
<1>5. \A r \in Queue : NowhereYet(r)'
  BY <1>4 DEF NowhereYet
<1>. QED  BY <1>1, <1>2, <1>3, <1>5 DEF PasteInv

(* The user, an edit of the target or another injection moved what the calls *)
(* had looked at.                                                            *)
LEMMA AllDisturbed ==
    ASSUME PasteInv,
           call' = Disturbed({}),
           clipboard' \in {clipboard, "text"},
           (clipboard' = clipboard /\ copied' = copied) \/ clipboard' = copied',
           InjectionTypeOK', edit' \in [Editor -> {Idle} \cup Editing],
           UNCHANGED <<automation, prompt, pasted, bound>>
    PROVE  PasteInv'
<1>1. /\ call' \in [Queue -> {Idle} \cup Reading \cup Working]
      /\ \A q \in Queue : /\ call'[q].pc = call[q].pc
                          /\ call[q].pc # "idle" => call'[q].backup = call[q].backup /\ ~call'[q].own
  <2>1. {} \in SUBSET Queue
    OBVIOUS
  <2>. QED  BY <2>1, DisturbedCalls DEF PasteInv
<1>2. Types'
  BY <1>1 DEF PasteInv, Types
<1>3. ManualPasteWorks'
  BY DEF PasteInv, ManualPasteWorks
<1>4. ASSUME NEW q \in Queue
      PROVE  PastedSoFar(q)' /\ OnItsOwn(q)' /\ NowhereYet(q)' /\ BackupIsOthers(q)'
  <2>1. PastedSoFar(q) /\ NowhereYet(q) /\ BackupIsOthers(q)
    BY DEF PasteInv
  <2>2. PastedSoFar(q)' /\ OnItsOwn(q)' /\ BackupIsOthers(q)'
    BY <1>1, <2>1 DEF PastedSoFar, OnItsOwn, BackupIsOthers
  <2>3. NowhereYet(q)'
    <3>. SUFFICES ASSUME ToBeCopied(q)'
                  PROVE  clipboard' # q /\ \A r \in Queue : call'[r].pc # "idle" => call'[r].backup # q
      BY DEF NowhereYet
    <3>1. ToBeCopied(q)
      BY <1>1 DEF ToBeCopied
    <3>. QED  BY <1>1, <2>1, <3>1, InjectionAssumption DEF NowhereYet
  <2>. QED  BY <2>2, <2>3
<1>. QED  BY <1>2, <1>3, <1>4 DEF PasteInv

(* Nothing of desktop or injections moves, and the target keeps what the     *)
(* gates look at.                                                            *)
LEMMA CallsStay ==
    ASSUME PasteInv,
           UNCHANGED <<automation, window, clipboard, copied, prompt, pasted, call>>,
           InjectionTypeOK', edit' \in [Editor -> {Idle} \cup Editing], bound \subseteq bound',
           bound = {} \/ SameGates(target', target)
    PROVE  PasteInv'
<1>1. Types' /\ ManualPasteWorks'
  BY DEF PasteInv, Types, ManualPasteWorks
<1>2. ASSUME NEW q \in Queue
      PROVE  PastedSoFar(q)' /\ OnItsOwn(q)' /\ NowhereYet(q)' /\ BackupIsOthers(q)'
  <2>1. PastedSoFar(q) /\ OnItsOwn(q) /\ NowhereYet(q) /\ BackupIsOthers(q)
    BY DEF PasteInv
  <2>2. PastedSoFar(q)' /\ NowhereYet(q)' /\ BackupIsOthers(q)'
    BY <2>1 DEF PastedSoFar, NowhereYet, BackupIsOthers, ToBeCopied
  <2>3. call[q].pc # "idle" => SameGates(target', target)
    BY DEF PasteInv, Types
  <2>4. OnItsOwn(q)'
    BY <2>1, <2>3 DEF OnItsOwn, SameGates, GatesPassed, Verification, ConfirmationGiven, AsksConfirmation
  <2>. QED  BY <2>2, <2>4
<1>. QED  BY <1>1, <1>2 DEF PasteInv
--------------------------------------------------------------------------------
(* The user and the target beside the injections.                            *)
LEMMA UserKeepsPasteInv ==
    ASSUME PasteInv, UserCopies \/ \E w \in Window : Focus(w)
    PROVE  PasteInv'
<1>1. PasteInv /\ InjectionTypeOK /\ edit \in [Editor -> {Idle} \cup Editing]
  BY DEF PasteInv, Types
<1>2. CASE UserCopies
  <2>1. InjectionTypeOK'
    BY <1>1, <1>2 DEF UserCopies, InjectionTypeOK, Exists
  <2>. QED  BY <1>1, <1>2, <2>1, AllDisturbed DEF UserCopies
<1>3. ASSUME NEW w \in Window, Focus(w) PROVE PasteInv'
  <2>1. InjectionTypeOK'
    BY <1>1, <1>3 DEF Focus, InjectionTypeOK, Exists
  <2>. QED  BY <1>1, <1>3, <2>1, AllDisturbed DEF Focus
<1>. QED  BY <1>2, <1>3

(* What a target row becomes by one of its writes. *)
LEMMA TargetRow ==
    ASSUME Types, Exists
    PROVE  /\ target \in AppTarget
           /\ \A v \in {"ACTIVE", "DISABLED"} : [target EXCEPT !.status = v] \in AppTarget
           /\ \A v \in Expected :
                 /\ [target EXCEPT !.expected = v] \in AppTarget
                 /\ [target EXCEPT !.print = v] \in AppTarget
                 /\ SameGates([target EXCEPT !.print = v], target)
                 /\ [target EXCEPT !.print = v].print = v
           /\ \A v \in Mode : [target EXCEPT !.mode = v] \in AppTarget
           /\ \A v \in BOOLEAN : [target EXCEPT !.confirm = v] \in AppTarget
           /\ \A t \in AppTarget : t.status # "NONE" /\ Fingerprint(t) \in Expected
<1>1. target \in AppTarget
  BY DEF Types, InjectionTypeOK, Exists, NoTarget
<1>. QED  BY <1>1 DEF AppTarget, SameGates, Fingerprint

LEMMA TargetWritesKeepPasteInv ==
    ASSUME PasteInv,
           \/ \E status \in {"ACTIVE", "DISABLED"} : SetStatus(status)
           \/ \E e \in Editor : EditFields(e)
    PROVE  PasteInv'
<1>1. PasteInv /\ Types /\ InjectionTypeOK /\ edit \in [Editor -> {Idle} \cup Editing]
  BY DEF PasteInv, Types
<1>2. ASSUME NEW status \in {"ACTIVE", "DISABLED"}, SetStatus(status) PROVE PasteInv'
  <2>1. target' \in AppTarget /\ target'.status # "NONE"
    BY <1>1, <1>2, TargetRow DEF SetStatus
  <2>2. InjectionTypeOK'
    BY <1>1, <1>2, <2>1 DEF SetStatus, InjectionTypeOK, Exists
  <2>. QED  BY <1>1, <1>2, <2>2, AllDisturbed DEF SetStatus
<1>3. ASSUME NEW e \in Editor, EditFields(e) PROVE PasteInv'
  <2>1. target' \in AppTarget /\ target'.status # "NONE"
    BY <1>1, <1>3, TargetRow DEF EditFields
  <2>2. InjectionTypeOK'
    BY <1>1, <1>3, <2>1 DEF EditFields, InjectionTypeOK, Exists
  <2>3. edit' \in [Editor -> {Idle} \cup Editing]
    <3>1. [pc |-> "read", own |-> TRUE] \in Editing
      BY DEF Editing
    <3>. QED  BY <1>1, <1>3, <3>1 DEF EditFields
  <2>. QED  BY <1>1, <1>3, <2>2, <2>3, AllDisturbed DEF EditFields
<1>. QED  BY <1>2, <1>3

(* Edits of the target: the types of what they leave. *)
LEMMA EditsKeepTypes ==
    ASSUME Types, NEW e \in Editor, EditRead(e) \/ EditPrint(e) \/ EditorDies(e)
    PROVE  /\ InjectionTypeOK'
           /\ edit' \in [Editor -> {Idle} \cup Editing]
           /\ bound = {} \/ SameGates(target', target)
<1>1. InjectionTypeOK /\ edit \in [Editor -> {Idle} \cup Editing]
  BY DEF Types
<1>2. SameGates(target, target)
  BY DEF SameGates
<1>3. CASE EditRead(e)
  <2>1. edit[e] \in [pc : {"read"}, own : BOOLEAN]
    BY <1>3, EditShape DEF EditRead
  <2>2. Exists => [pc |-> "print", own |-> edit[e].own, print |-> Fingerprint(target)] \in Editing
    BY <2>1, TargetRow DEF Editing
  <2>3. edit' \in [Editor -> {Idle} \cup Editing]
    BY <1>1, <1>3, <2>2 DEF EditRead
  <2>4. InjectionTypeOK'
    BY <1>1, <1>3 DEF EditRead, InjectionTypeOK, Exists
  <2>. QED  BY <1>2, <1>3, <2>3, <2>4 DEF EditRead
<1>4. CASE EditPrint(e)
  <2>1. edit[e] \in [pc : {"print"}, own : BOOLEAN, print : Expected]
    BY <1>4, EditShape DEF EditPrint
  <2>2. edit' \in [Editor -> {Idle} \cup Editing]
    BY <1>1, <1>4 DEF EditPrint
  <2>3. Exists => target' \in AppTarget /\ target'.status # "NONE" /\ SameGates(target', target)
    BY <1>4, <2>1, TargetRow DEF EditPrint
  <2>4. ~Exists => target' = target
    BY <1>4 DEF EditPrint
  <2>5. InjectionTypeOK'
    BY <1>1, <1>4, <2>1, <2>3, <2>4 DEF EditPrint, InjectionTypeOK, Exists
  <2>. QED  BY <1>2, <2>2, <2>3, <2>4, <2>5
<1>5. CASE EditorDies(e)
  <2>1. InjectionTypeOK' /\ edit' \in [Editor -> {Idle} \cup Editing]
    BY <1>1, <1>5 DEF EditorDies, InjectionTypeOK, Exists
  <2>. QED  BY <1>2, <1>5, <2>1 DEF EditorDies
<1>. QED  BY <1>3, <1>4, <1>5

LEMMA TargetStepKeepsPasteInv ==
    ASSUME PasteInv, TargetStep
    PROVE  PasteInv'
<1>1. PasteInv /\ Types /\ InjectionTypeOK /\ edit \in [Editor -> {Idle} \cup Editing]
  BY DEF PasteInv, Types
<1>2. CASE CreateTarget
  <2>1. bound = {}
    BY <1>1, <1>2 DEF CreateTarget, InjectionTypeOK
  <2>2. target' \in AppTarget
    BY <1>2 DEF CreateTarget, AppTarget, Field, Fingerprint
  <2>3. InjectionTypeOK'
    BY <1>1, <1>2, <2>1, <2>2 DEF CreateTarget, InjectionTypeOK
  <2>. QED  BY <1>1, <1>2, <2>1, <2>3, CallsStay DEF CreateTarget
<1>3. CASE DeleteTarget
  <2>1. ASSUME NEW e \in Editor, edit[e].pc # "idle" PROVE [edit[e] EXCEPT !.own = FALSE] \in Editing
    <3>1. edit[e] \in Editing
      BY <1>1, <2>1 DEF Idle
    <3>. QED  BY <3>1 DEF Editing
  <2>2. edit' \in [Editor -> {Idle} \cup Editing]
    BY <1>3, <2>1 DEF DeleteTarget
  <2>3. InjectionTypeOK'
    BY <1>1, <1>3 DEF DeleteTarget, InjectionTypeOK
  <2>. QED  BY <1>1, <1>3, <2>2, <2>3, CallsStay DEF DeleteTarget
<1>4. ASSUME NEW q \in Queue, BindQueue(q) PROVE PasteInv'
  <2>1. InjectionTypeOK' /\ bound \subseteq bound' /\ SameGates(target', target)
    BY <1>1, <1>4 DEF BindQueue, InjectionTypeOK, Exists, SameGates
  <2>. QED  BY <1>1, <1>4, <2>1, CallsStay DEF BindQueue
<1>5. ASSUME NEW e \in Editor, EditRead(e) \/ EditPrint(e) \/ EditorDies(e) PROVE PasteInv'
  <2>1. UNCHANGED <<automation, window, clipboard, copied, prompt, pasted, call, bound>>
    BY <1>5 DEF EditRead, EditPrint, EditorDies
  <2>. QED  BY <1>1, <1>5, <2>1, EditsKeepTypes, CallsStay
<1>. QED  BY <1>2, <1>3, <1>4, <1>5, TargetWritesKeepPasteInv DEF TargetStep
--------------------------------------------------------------------------------
(* The steps of an injection.                                                *)
LEMMA ToStep ==
    ASSUME NEW q \in Queue, call[q] \in Working,
           NEW pc \in Gated \cup Sent \cup {"finish"}, call'[q] = [call[q] EXCEPT !.pc = pc]
    PROVE  /\ call'[q] \in Working
           /\ call'[q].pc = pc
           /\ call'[q].request = call[q].request
           /\ call'[q].backup = call[q].backup
           /\ call'[q].own = call[q].own
BY DEF Working

(* What InjectionTypeOK says of the variables an injection writes. *)
LEMMA PasteTypes ==
    ASSUME PasteInv
    PROVE  /\ Types /\ call \in [Queue -> {Idle} \cup Reading \cup Working]
           /\ prompt \in [Queue -> {"READY_TO_INJECT", "INJECTING", "WAITING_COMPLETION"}]
           /\ pasted \in [Queue -> Nat]
           /\ automation \in BOOLEAN
           /\ clipboard \in {"text"} \cup Queue /\ copied \in {"text"} \cup Queue
           /\ \A q \in Queue : call[q].pc # "idle" => q \in bound
           /\ \A q \in bound : Exists
           /\ Idle.pc = "idle"
BY DEF PasteInv, Types, InjectionTypeOK, Idle

(* A step from one gated step to another, or to one after the paste, that    *)
(* leaves the desktop alone leaves the call its knowledge.                   *)
LEMMA StillChecked ==
    ASSUME PasteInv, NEW q \in Queue,
           call[q] \in Working,
           call'[q].pc \in {"backup", "copy", "submit", "restore", "finish"},
           call'[q].pc \in {"backup", "copy"} => call[q].pc \in Gated,
           call'[q].own = call[q].own, call'[q].request = call[q].request,
           UNCHANGED <<window, target>>
    PROVE  OnItsOwn(q)'
<1>1. OnItsOwn(q) /\ call[q].pc # "idle"
  BY DEF PasteInv, Working, Gated, Sent
<1>. QED  BY <1>1 DEF OnItsOwn, Gated, GatesPassed, Verification, ConfirmationGiven, AsksConfirmation

(* A call that ended leaves nothing to know. *)
LEMMA EndedCall ==
    ASSUME NEW q \in Queue, call'[q] = Idle
    PROVE  call'[q].pc = "idle" /\ OnItsOwn(q)'
BY DEF OnItsOwn, Idle

LEMMA BeginKeepsPasteInv ==
    ASSUME PasteInv, NEW q \in Queue, NEW request \in Requests, Begin(q, request)
    PROVE  PasteInv'
<1>1. /\ call[q].pc = "idle" /\ q \in bound
      /\ call' = [call EXCEPT ![q] = [pc |-> "verify", target |-> target, request |-> request,
                                      backup |-> "none", own |-> TRUE]]
      /\ UNCHANGED <<automation, window, clipboard, target, bound, prompt, edit, pasted, copied, torn>>
  BY DEF Begin, At
<1>2. target \in AppTarget
  BY <1>1, PasteTypes, TargetRow
<1>3. /\ call'[q] \in Reading
      /\ call'[q].pc = "verify" /\ call'[q].target = target /\ call'[q].backup = "none"
  BY <1>1, <1>2, PasteTypes DEF Reading
<1>4. /\ call' \in [Queue -> {Idle} \cup Reading \cup Working]
      /\ \A r \in Queue \ {q} : call'[r] = call[r]
  BY <1>1, <1>3, PasteTypes
<1>5. PastedSoFar(q)'
  BY <1>1, <1>3 DEF PasteInv, PastedSoFar, Sent
<1>6. OnItsOwn(q)'
  BY <1>1, <1>3 DEF OnItsOwn, SameGates, Gated
<1>7. ToBeCopied(q)' => ToBeCopied(q)
  BY <1>1, <1>3 DEF ToBeCopied
<1>8. call'[q].backup # q
  BY <1>3, InjectionAssumption
<1>9. /\ \A r \in Queue \ {q} : call'[r] = call[r] /\ prompt'[r] = prompt[r] /\ pasted'[r] = pasted[r]
      /\ pasted' \in [Queue -> Nat] /\ pasted'[q] >= pasted[q]
      /\ prompt' \in [Queue -> {"READY_TO_INJECT", "INJECTING", "WAITING_COMPLETION"}]
      /\ call'[q].backup \in {"none", clipboard}
      /\ q \in bound
  BY <1>1, <1>3, <1>4, PasteTypes
<1>. QED  BY <1>1, <1>4, <1>5, <1>6, <1>7, <1>8, <1>9, OneCall

LEMMA VerifyKeepsPasteInv ==
    ASSUME PasteInv, NEW q \in Queue, Verify(q)
    PROVE  PasteInv'
<1>1. /\ call[q].pc = "verify"
      /\ UNCHANGED <<automation, window, clipboard, target, bound, prompt, edit, pasted, copied, torn>>
  BY DEF Verify, At
<1>2. call[q] \in Reading /\ PastedSoFar(q) /\ OnItsOwn(q) /\ BackupIsOthers(q)
  BY <1>1, PasteTypes, CallShape DEF PasteInv
<1>3. CASE /\ call[q].target.status = "ACTIVE"
           /\ prompt[q] = "READY_TO_INJECT"
           /\ ConfirmationGiven(call[q].target, call[q].request.confirmed)
           /\ Verification(call[q].target) = "mismatch" => call[q].request.allowed
           /\ call' = [call EXCEPT ![q].pc = "mark", ![q].target = [submit |-> @.submit]]
  <2>1. call'[q] = [call[q] EXCEPT !.pc = "mark", !.target = [submit |-> call[q].target.submit]]
    BY <1>3, PasteTypes
  <2>2. call[q].target.submit \in Submits
    BY <1>2 DEF Reading, AppTarget
  <2>3. [submit |-> call[q].target.submit] \in [submit : Submits]
    BY <2>2
  <2>. DEFINE read == [submit |-> call[q].target.submit]
  <2>. HIDE DEF read
  <2>4. /\ call'[q] \in Working
        /\ call'[q].pc = "mark" /\ call'[q].request = call[q].request
        /\ call'[q].backup = call[q].backup /\ call'[q].own = call[q].own
    <3>1. call'[q] = [call[q] EXCEPT !.pc = "mark", !.target = read] /\ read \in [submit : Submits]
      BY <2>1, <2>3 DEF read
    <3>. QED  BY <1>2, <3>1 DEF Reading, Working, Gated
  <2>5. /\ call' \in [Queue -> {Idle} \cup Reading \cup Working]
        /\ \A r \in Queue \ {q} : call'[r] = call[r]
    BY <1>3, <2>4, PasteTypes
  <2>6. PastedSoFar(q)'
    BY <1>1, <1>2, <1>3, <2>4 DEF PastedSoFar, Sent
  <2>7. OnItsOwn(q)'
    BY <1>1, <1>2, <1>3, <2>4
    DEF OnItsOwn, SameGates, Gated, GatesPassed, Verification, ConfirmationGiven, AsksConfirmation
  <2>8. ToBeCopied(q)' => ToBeCopied(q)
    BY <1>1, <2>4 DEF ToBeCopied
  <2>. QED  BY <1>1, <1>2, <2>4, <2>5, <2>6, <2>7, <2>8, PasteTypes, OneCall DEF BackupIsOthers
<1>4. CASE call' = [call EXCEPT ![q] = Idle]
  <2>1. /\ call'[q] = Idle
        /\ call' \in [Queue -> {Idle} \cup Reading \cup Working]
        /\ \A r \in Queue \ {q} : call'[r] = call[r]
    BY <1>4, PasteTypes
  <2>2. PastedSoFar(q)'
    BY <1>1, <1>2, <2>1, EndedCall DEF PastedSoFar, Sent
  <2>3. ToBeCopied(q)' => ToBeCopied(q)
    BY <1>1, <2>1, EndedCall DEF ToBeCopied
  <2>. QED  BY <1>1, <2>1, <2>2, <2>3, EndedCall, PasteTypes, OneCall
<1>. QED  BY <1>3, <1>4 DEF Verify

LEMMA MarkKeepsPasteInv ==
    ASSUME PasteInv, NEW q \in Queue, Mark(q)
    PROVE  PasteInv'
<1>. DEFINE pc == IF call[q].request.restore THEN "backup" ELSE "copy"
<1>1. /\ call[q].pc = "mark"
      /\ prompt' = [prompt EXCEPT ![q] = "INJECTING"]
      /\ call' = [call EXCEPT ![q].pc = pc]
      /\ UNCHANGED <<automation, window, clipboard, target, bound, edit, pasted, copied, torn>>
  BY DEF Mark, At
<1>2. pc \in {"backup", "copy"}
  OBVIOUS
<1>. HIDE DEF pc
<1>3. call[q] \in Working /\ PastedSoFar(q) /\ BackupIsOthers(q)
  BY <1>1, PasteTypes, CallShape DEF PasteInv, Gated
<1>4. /\ call'[q] = [call[q] EXCEPT !.pc = pc] /\ prompt'[q] = "INJECTING"
      /\ prompt' \in [Queue -> {"READY_TO_INJECT", "INJECTING", "WAITING_COMPLETION"}]
      /\ \A r \in Queue \ {q} : call'[r] = call[r] /\ prompt'[r] = prompt[r]
  BY <1>1, PasteTypes
<1>5. /\ call'[q] \in Working
      /\ call'[q].pc = pc /\ call'[q].request = call[q].request
      /\ call'[q].backup = call[q].backup /\ call'[q].own = call[q].own
  BY <1>2, <1>3, <1>4, ToStep DEF Gated
<1>6. call' \in [Queue -> {Idle} \cup Reading \cup Working]
  BY <1>1, <1>4, <1>5, PasteTypes
<1>7. PastedSoFar(q)'
  BY <1>1, <1>2, <1>3, <1>4, <1>5 DEF PastedSoFar, Sent
<1>8. OnItsOwn(q)'
  BY <1>1, <1>2, <1>3, <1>5, StillChecked DEF Gated
<1>9. ToBeCopied(q)' => ToBeCopied(q)
  BY <1>1, <1>3 DEF ToBeCopied, PastedSoFar
<1>. QED  BY <1>1, <1>3, <1>4, <1>5, <1>6, <1>7, <1>8, <1>9, PasteTypes, OneCall DEF BackupIsOthers

LEMMA BackupKeepsPasteInv ==
    ASSUME PasteInv, NEW q \in Queue, Backup(q)
    PROVE  PasteInv'
<1>1. PICK previous \in {clipboard, "none"} :
          /\ call[q].pc = "backup"
          /\ call' = [call EXCEPT ![q].pc = "copy", ![q].backup = previous]
          /\ UNCHANGED <<automation, window, clipboard, target, bound, prompt, edit, pasted, copied, torn>>
  BY DEF Backup, At
<1>2. call[q] \in Working /\ PastedSoFar(q) /\ NowhereYet(q)
  BY <1>1, PasteTypes, CallShape DEF PasteInv, Gated
<1>3. previous # q
  BY <1>1, <1>2, InjectionAssumption DEF NowhereYet, ToBeCopied
<1>4. /\ call'[q] = [call[q] EXCEPT !.pc = "copy", !.backup = previous]
      /\ \A r \in Queue \ {q} : call'[r] = call[r]
  BY <1>1, PasteTypes
<1>5. previous \in {"none", "text"} \cup Queue
  BY PasteTypes
<1>6. /\ call'[q] \in Working
      /\ call'[q].pc = "copy" /\ call'[q].request = call[q].request
      /\ call'[q].backup = previous /\ call'[q].own = call[q].own
  BY <1>2, <1>4, <1>5 DEF Working, Gated
<1>7. call' \in [Queue -> {Idle} \cup Reading \cup Working]
  BY <1>1, <1>4, <1>6, PasteTypes
<1>8. PastedSoFar(q)'
  BY <1>1, <1>2, <1>6 DEF PastedSoFar, Sent
<1>9. OnItsOwn(q)'
  BY <1>1, <1>2, <1>6, StillChecked DEF Gated
<1>10. ToBeCopied(q)' => ToBeCopied(q)
  BY <1>1 DEF ToBeCopied
<1>. QED  BY <1>1, <1>3, <1>4, <1>6, <1>7, <1>8, <1>9, <1>10, PasteTypes, OneCall

(* The steps that only take the call further, once its prompt is copied.     *)
LEMMA GoesOn ==
    ASSUME PasteInv, NEW q \in Queue, NEW pc \in {"submit", "restore", "finish"},
           call[q] \in Working,
           call' = [call EXCEPT ![q].pc = pc],
           pasted' \in [Queue -> Nat], pasted'[q] >= pasted[q],
           \A r \in Queue \ {q} : pasted'[r] = pasted[r],
           UNCHANGED <<automation, window, clipboard, copied, target, bound, prompt, edit, torn>>,
           prompt[q] = "INJECTING", pasted'[q] = 1 <=> automation, pasted'[q] <= 1,
           pc # "finish" => automation
    PROVE  PasteInv'
<1>1. /\ call'[q] = [call[q] EXCEPT !.pc = pc]
      /\ \A r \in Queue \ {q} : call'[r] = call[r]
  BY PasteTypes
<1>2. /\ call'[q] \in Working
      /\ call'[q].pc = pc /\ call'[q].request = call[q].request
      /\ call'[q].backup = call[q].backup /\ call'[q].own = call[q].own
  <2>1. pc \in Gated \cup Sent \cup {"finish"}
    BY DEF Sent
  <2>. QED  BY <1>1, <2>1, ToStep
<1>3. call' \in [Queue -> {Idle} \cup Reading \cup Working]
  BY <1>2, PasteTypes
<1>4. PastedSoFar(q)'
  BY <1>2 DEF PastedSoFar, Sent
<1>5. OnItsOwn(q)'
  BY <1>2, StillChecked DEF Gated
<1>6. ~ToBeCopied(q)'
  BY <1>2 DEF ToBeCopied
<1>7. call[q].pc # "idle" /\ q \in bound /\ call[q].backup # q
  BY PasteTypes DEF PasteInv, BackupIsOthers, Working, Gated, Sent
<1>8. /\ prompt' \in [Queue -> {"READY_TO_INJECT", "INJECTING", "WAITING_COMPLETION"}]
      /\ \A r \in Queue \ {q} : call'[r] = call[r] /\ prompt'[r] = prompt[r] /\ pasted'[r] = pasted[r]
  BY <1>1, PasteTypes
<1>. QED  BY <1>2, <1>3, <1>4, <1>5, <1>6, <1>7, <1>8, OneCall

(* The steps that end the call. *)
LEMMA Ends ==
    ASSUME PasteInv, NEW q \in Queue,
           NEW status \in {"READY_TO_INJECT", "INJECTING", "WAITING_COMPLETION"},
           call' = [call EXCEPT ![q] = Idle],
           prompt' = [prompt EXCEPT ![q] = status],
           UNCHANGED <<automation, window, clipboard, copied, target, bound, pasted, edit, torn>>,
           status = "READY_TO_INJECT" => ToBeCopied(q) /\ pasted[q] = 0,
           status = "WAITING_COMPLETION" => (pasted[q] = 1 <=> automation)
    PROVE  PasteInv'
<1>1. /\ call'[q] = Idle
      /\ prompt'[q] = status
      /\ call' \in [Queue -> {Idle} \cup Reading \cup Working]
      /\ prompt' \in [Queue -> {"READY_TO_INJECT", "INJECTING", "WAITING_COMPLETION"}]
      /\ pasted' \in [Queue -> Nat] /\ pasted'[q] >= pasted[q]
      /\ \A r \in Queue \ {q} : call'[r] = call[r] /\ prompt'[r] = prompt[r] /\ pasted'[r] = pasted[r]
  BY PasteTypes
<1>2. call'[q].pc = "idle" /\ OnItsOwn(q)'
  BY <1>1, EndedCall
<1>3. PastedSoFar(q)'
  BY <1>1, <1>2 DEF PasteInv, PastedSoFar, Sent
<1>4. ToBeCopied(q)' => ToBeCopied(q)
  BY <1>1, <1>2 DEF ToBeCopied
<1>. QED  BY <1>1, <1>2, <1>3, <1>4, OneCall

(* The clipboard is taken for a prompt, or given back: the others are        *)
(* disturbed.                                                                *)
LEMMA ClipboardTaken ==
    ASSUME PasteInv, NEW q \in Queue, NEW pc \in {"paste", "restored"},
           call[q] \in Working,
           call' = [Disturbed({q}) EXCEPT ![q].pc = pc],
           clipboard' \in {"text"} \cup Queue, copied' \in {"text"} \cup Queue,
           UNCHANGED <<automation, window, target, bound, prompt, pasted, edit, torn>>,
           ManualPasteWorks',
           \A r \in Queue \ {q} : ToBeCopied(r) => clipboard' # r,
           prompt[q] = "INJECTING",
           pc = "paste" => pasted[q] = 0 /\ clipboard' = q /\ call[q].pc \in Gated,
           pc = "restored" => pasted[q] = 1 /\ automation /\ clipboard' = call[q].backup
    PROVE  PasteInv'
<1>1. {q} \in SUBSET Queue /\ Types
  BY PasteTypes
<1>2. /\ Disturbed({q}) \in [Queue -> {Idle} \cup Reading \cup Working]
      /\ Disturbed({q})[q] = call[q]
      /\ \A r \in Queue \ {q} : /\ Disturbed({q})[r].pc = call[r].pc
                                /\ call[r].pc # "idle" => /\ Disturbed({q})[r].backup = call[r].backup
                                                          /\ ~Disturbed({q})[r].own
  BY <1>1, DisturbedCalls
<1>3. /\ call'[q] = [call[q] EXCEPT !.pc = pc]
      /\ \A r \in Queue \ {q} : /\ call'[r].pc = call[r].pc
                                /\ call[r].pc # "idle" => call'[r].backup = call[r].backup /\ ~call'[r].own
  BY <1>2
<1>4. /\ call'[q] \in Working
      /\ call'[q].pc = pc /\ call'[q].request = call[q].request
      /\ call'[q].backup = call[q].backup /\ call'[q].own = call[q].own
  <2>1. pc \in Gated \cup Sent \cup {"finish"}
    BY DEF Gated, Sent
  <2>. QED  BY <1>3, <2>1, ToStep
<1>5. call' \in [Queue -> {Idle} \cup Reading \cup Working]
  BY <1>2, <1>4
<1>6. call[q].pc # "idle" /\ q \in bound
  BY PasteTypes DEF Working, Gated, Sent
<1>7. Types'
  BY <1>1, <1>3, <1>5, <1>6 DEF Types, InjectionTypeOK, Exists
<1>8. ASSUME NEW r \in Queue
      PROVE  PastedSoFar(r)' /\ OnItsOwn(r)' /\ NowhereYet(r)' /\ BackupIsOthers(r)'
  <2>1. PastedSoFar(r) /\ OnItsOwn(r) /\ NowhereYet(r) /\ BackupIsOthers(r)
    BY DEF PasteInv
  <2>2. CASE r = q
    <3>1. PastedSoFar(r)' /\ BackupIsOthers(r)'
      BY <1>4, <1>6, <2>1, <2>2 DEF PastedSoFar, BackupIsOthers, Sent
    <3>2. OnItsOwn(r)'
      BY <1>4, <1>6, <2>1, <2>2
      DEF OnItsOwn, Gated, GatesPassed, Verification, ConfirmationGiven, AsksConfirmation
    <3>3. NowhereYet(r)'
      BY <1>4, <2>2 DEF NowhereYet, ToBeCopied
    <3>. QED  BY <3>1, <3>2, <3>3
  <2>3. CASE r # q
    <3>1. PastedSoFar(r)' /\ OnItsOwn(r)' /\ BackupIsOthers(r)'
      BY <1>3, <2>1, <2>3 DEF PastedSoFar, OnItsOwn, BackupIsOthers
    <3>2. NowhereYet(r)'
      <4>. SUFFICES ASSUME ToBeCopied(r)'
                    PROVE  /\ clipboard' # r
                           /\ \A s \in Queue : call'[s].pc # "idle" => call'[s].backup # r
        BY DEF NowhereYet
      <4>1. ToBeCopied(r)
        BY <1>3, <2>3 DEF ToBeCopied
      <4>2. \A s \in Queue : call[s].pc # "idle" => call[s].backup # r
        BY <2>1, <4>1 DEF NowhereYet
      <4>3. ASSUME NEW s \in Queue, call'[s].pc # "idle" PROVE call'[s].backup # r
        <5>1. call[s].pc # "idle" /\ call'[s].backup = call[s].backup
          BY <1>3, <1>4, <1>6, <4>3
        <5>. QED  BY <4>2, <5>1
      <4>4. clipboard' # r
        BY <2>3, <4>1
      <4>. QED  BY <4>3, <4>4
    <3>. QED  BY <3>1, <3>2
  <2>. QED  BY <2>2, <2>3
<1>. QED  BY <1>7, <1>8 DEF PasteInv

LEMMA CopyKeepsPasteInv ==
    ASSUME PasteInv, NEW q \in Queue, Copy(q)
    PROVE  PasteInv'
<1>1. /\ call[q].pc = "copy"
      /\ UNCHANGED <<automation, window, target, bound, edit, pasted, torn>>
  BY DEF Copy, At
<1>2. call[q] \in Working /\ PastedSoFar(q)
  BY <1>1, PasteTypes, CallShape DEF PasteInv, Gated
<1>3. prompt[q] = "INJECTING" /\ pasted[q] = 0
  BY <1>1, <1>2 DEF PastedSoFar
<1>4. CASE /\ clipboard' = q /\ copied' = q
           /\ call' = [Disturbed({q}) EXCEPT ![q].pc = "paste"]
           /\ UNCHANGED prompt
  <2>1. ManualPasteWorks'
    BY <1>4 DEF ManualPasteWorks
  <2>. QED  BY <1>1, <1>2, <1>3, <1>4, <2>1, ClipboardTaken DEF Gated
<1>5. CASE /\ prompt' = [prompt EXCEPT ![q] = "READY_TO_INJECT"]
           /\ call' = [call EXCEPT ![q] = Idle]
           /\ UNCHANGED <<clipboard, copied>>
  BY <1>1, <1>3, <1>5, Ends DEF ToBeCopied
<1>. QED  BY <1>4, <1>5 DEF Copy

(* The paste: not without automation, sent, or failed before it was sent.    *)
LEMMA PasteKeepsPasteInv ==
    ASSUME PasteInv, NEW q \in Queue, CopyOnly(q) \/ Paste(q)
    PROVE  PasteInv'
<1>1. /\ call[q].pc = "paste"
      /\ UNCHANGED <<automation, window, clipboard, target, bound, prompt, edit, copied, torn>>
  BY DEF CopyOnly, Paste, At
<1>2. call[q] \in Working /\ PastedSoFar(q)
  BY <1>1, PasteTypes, CallShape DEF PasteInv, Gated
<1>3. prompt[q] = "INJECTING" /\ pasted[q] = 0 /\ pasted \in [Queue -> Nat]
  BY <1>1, <1>2, PasteTypes DEF PastedSoFar
<1>4. CASE CopyOnly(q)
  <2>1. /\ ~automation /\ call' = [call EXCEPT ![q].pc = "finish"] /\ UNCHANGED pasted
        /\ pasted'[q] >= pasted[q] /\ pasted'[q] <= 1 /\ (pasted'[q] = 1 <=> automation)
        /\ pasted' \in [Queue -> Nat]
        /\ \A r \in Queue \ {q} : pasted'[r] = pasted[r]
    BY <1>3, <1>4 DEF CopyOnly
  <2>. QED  BY <1>1, <1>2, <1>3, <2>1, GoesOn
<1>5. CASE /\ automation /\ pasted' = [pasted EXCEPT ![q] = @ + 1]
           /\ call' = [call EXCEPT ![q].pc = IF call[q].target.submit THEN "submit"
                                             ELSE IF call[q].request.restore THEN "restore" ELSE "finish"]
  <2>. DEFINE pc == IF call[q].target.submit THEN "submit"
                    ELSE IF call[q].request.restore THEN "restore" ELSE "finish"
  <2>1. pc \in {"submit", "restore", "finish"} /\ call' = [call EXCEPT ![q].pc = pc]
    BY <1>5
  <2>. HIDE DEF pc
  <2>2. /\ pasted'[q] >= pasted[q] /\ pasted'[q] <= 1 /\ (pasted'[q] = 1 <=> automation)
        /\ pasted' \in [Queue -> Nat]
        /\ \A r \in Queue \ {q} : pasted'[r] = pasted[r]
    BY <1>3, <1>5
  <2>. QED  BY <1>1, <1>2, <1>3, <1>5, <2>1, <2>2, GoesOn
<1>6. CASE /\ call' = [call EXCEPT ![q] = Idle]
           /\ UNCHANGED pasted
  <2>1. prompt' = [prompt EXCEPT ![q] = "INJECTING"]
    BY <1>1, <1>3, PasteTypes
  <2>. QED  BY <1>1, <1>6, <2>1, Ends
<1>. QED  BY <1>4, <1>5, <1>6 DEF Paste

LEMMA SubmitKeepsPasteInv ==
    ASSUME PasteInv, NEW q \in Queue, Submit(q)
    PROVE  PasteInv'
<1>1. /\ call[q].pc = "submit"
      /\ UNCHANGED <<automation, window, clipboard, target, bound, prompt, edit, pasted, copied, torn>>
  BY DEF Submit, At
<1>2. call[q] \in Working /\ PastedSoFar(q)
  BY <1>1, PasteTypes, CallShape DEF PasteInv, Sent
<1>3. prompt[q] = "INJECTING" /\ pasted[q] = 1 /\ automation /\ pasted \in [Queue -> Nat]
  BY <1>1, <1>2, PasteTypes DEF PastedSoFar, Sent
<1>4. CASE call' = [call EXCEPT ![q].pc = IF call[q].request.restore THEN "restore" ELSE "finish"]
  <2>. DEFINE pc == IF call[q].request.restore THEN "restore" ELSE "finish"
  <2>1. pc \in {"submit", "restore", "finish"} /\ call' = [call EXCEPT ![q].pc = pc]
    BY <1>4
  <2>. HIDE DEF pc
  <2>2. /\ pasted'[q] >= pasted[q] /\ pasted'[q] <= 1 /\ (pasted'[q] = 1 <=> automation)
        /\ pasted' \in [Queue -> Nat]
        /\ \A r \in Queue \ {q} : pasted'[r] = pasted[r]
    BY <1>1, <1>3
  <2>. QED  BY <1>1, <1>2, <1>3, <2>1, <2>2, GoesOn
<1>5. CASE call' = [call EXCEPT ![q] = Idle]
  <2>1. prompt' = [prompt EXCEPT ![q] = "INJECTING"]
    BY <1>1, <1>3, PasteTypes
  <2>. QED  BY <1>1, <1>5, <2>1, Ends
<1>. QED  BY <1>4, <1>5 DEF Submit

LEMMA RestoreKeepsPasteInv ==
    ASSUME PasteInv, NEW q \in Queue, Restore(q)
    PROVE  PasteInv'
<1>1. /\ call[q].pc = "restore"
      /\ UNCHANGED <<automation, window, target, bound, prompt, edit, pasted, copied, torn>>
  BY DEF Restore, At
<1>2. call[q] \in Working /\ PastedSoFar(q)
  BY <1>1, PasteTypes, CallShape DEF PasteInv, Sent
<1>3. prompt[q] = "INJECTING" /\ pasted[q] = 1 /\ automation /\ pasted \in [Queue -> Nat]
  BY <1>1, <1>2, PasteTypes DEF PastedSoFar, Sent
<1>4. CASE /\ call[q].backup # "none"
           /\ clipboard' = call[q].backup
           /\ call' = [Disturbed({q}) EXCEPT ![q].pc = "restored"]
  <2>1. ManualPasteWorks'
    BY <1>1, <1>3 DEF ManualPasteWorks
  <2>2. clipboard' \in {"text"} \cup Queue
    BY <1>2, <1>4 DEF Working
  <2>3. \A r \in Queue \ {q} : ToBeCopied(r) => clipboard' # r
    BY <1>1, <1>4 DEF PasteInv, NowhereYet
  <2>. QED  BY <1>1, <1>2, <1>3, <1>4, <2>1, <2>2, <2>3, PasteTypes, ClipboardTaken
<1>5. CASE /\ call' = [call EXCEPT ![q].pc = "finish"]
           /\ UNCHANGED clipboard
  <2>1. /\ pasted'[q] >= pasted[q] /\ pasted'[q] <= 1 /\ (pasted'[q] = 1 <=> automation)
        /\ pasted' \in [Queue -> Nat]
        /\ \A r \in Queue \ {q} : pasted'[r] = pasted[r]
    BY <1>1, <1>3
  <2>. QED  BY <1>1, <1>2, <1>3, <1>5, <2>1, GoesOn
<1>. QED  BY <1>4, <1>5 DEF Restore

LEMMA FinishKeepsPasteInv ==
    ASSUME PasteInv, NEW q \in Queue, Finish(q)
    PROVE  PasteInv'
<1>1. pasted[q] = 1 <=> automation
  <2>1. PastedSoFar(q)
    BY DEF PasteInv
  <2>. QED  BY <2>1, PasteTypes DEF PastedSoFar, Finish, Sent
<1>. QED  BY <1>1, Ends DEF Finish

LEMMA NextKeepsPasteInv == PasteInv /\ [Next]_vars => PasteInv'
<1>. SUFFICES ASSUME PasteInv, [Next]_vars PROVE PasteInv'
  OBVIOUS
<1>1. CASE UserCopies \/ \E w \in Window : Focus(w)
  BY <1>1, UserKeepsPasteInv
<1>2. CASE TargetStep
  BY <1>2, TargetStepKeepsPasteInv
<1>3. ASSUME NEW q \in Queue, Inject(q) PROVE PasteInv'
  BY <1>3, BeginKeepsPasteInv, VerifyKeepsPasteInv, MarkKeepsPasteInv, BackupKeepsPasteInv,
     CopyKeepsPasteInv, PasteKeepsPasteInv, SubmitKeepsPasteInv, RestoreKeepsPasteInv,
     FinishKeepsPasteInv DEF Inject
<1>4. CASE UNCHANGED vars
  <2>1. InjectionTypeOK' /\ edit' \in [Editor -> {Idle} \cup Editing] /\ SameGates(target', target)
    BY <1>4 DEF PasteInv, Types, InjectionTypeOK, Exists, SameGates, vars
  <2>. QED  BY <1>4, <2>1, CallsStay DEF vars
<1>. QED  BY <1>1, <1>2, <1>3, <1>4 DEF Next

(* The injections keep PasteInv, however many queues, users and editors.     *)
THEOREM PasteInvariance == Spec => []PasteInv
BY InitPasteInv, NextKeepsPasteInv, PTL DEF Spec

(* The variables keep their types; a queue that exists has its target.       *)
THEOREM InjectionTypes == Spec => []InjectionTypeOK
<1>1. PasteInv => InjectionTypeOK
  BY DEF PasteInv, Types
<1>. QED  BY <1>1, PasteInvariance, PTL

(* No prompt is pasted twice, and one that waits for completion was pasted   *)
(* exactly when the program could: inject_current_prompt gives a prompt back *)
(* only when no hotkey was sent for it.                                      *)
THEOREM PromptsArePastedOnce == Spec => []PastedOnce
<1>1. PasteInv => PastedOnce
  BY DEF PasteInv, PastedOnce, PastedSoFar
<1>. QED  BY <1>1, PasteInvariance, PTL

(* As long as nothing was pasted the clipboard holds what was last copied,   *)
(* for the user to paste by hand.                                            *)
THEOREM ManualPasteStaysPossible == Spec => []ManualPasteWorks
<1>1. PasteInv => ManualPasteWorks
  BY DEF PasteInv
<1>. QED  BY <1>1, PasteInvariance, PTL

(* A call that restores the clipboard without being disturbed leaves what it *)
(* found, never its own prompt.                                              *)
THEOREM ClipboardIsGivenBack == Spec => []GivenBack
<1>1. PasteInv => GivenBack
  <2>. SUFFICES ASSUME PasteInv, NEW q \in Queue, At(q, "restored"), call[q].own
                PROVE  clipboard # q
    BY DEF GivenBack
  <2>1. OnItsOwn(q) /\ BackupIsOthers(q) /\ call[q].pc = "restored"
    BY DEF PasteInv, At
  <2>. QED  BY <2>1 DEF OnItsOwn, BackupIsOthers
<1>. QED  BY <1>1, PasteInvariance, PTL

(* A paste nobody interfered with sends the queue's own prompt to a target   *)
(* that passes, in its present row, every gate the call checked.             *)
THEOREM PastesAreChecked == Spec => PasteWasChecked
<1>1. PasteInv /\ [Next]_vars =>
        [\A q \in Queue :
            pasted'[q] # pasted[q] /\ call[q].own =>
               /\ clipboard = q
               /\ target.status = "ACTIVE"
               /\ Verification(target) = "mismatch" => call[q].request.allowed
               /\ AsksConfirmation(target) => call[q].request.confirmed]_vars
  <2>. SUFFICES ASSUME PasteInv, Next, NEW q \in Queue, pasted'[q] # pasted[q], call[q].own
                PROVE  /\ clipboard = q
                       /\ target.status = "ACTIVE"
                       /\ Verification(target) = "mismatch" => call[q].request.allowed
                       /\ AsksConfirmation(target) => call[q].request.confirmed
    OBVIOUS
  <2>1. PICK r \in Queue : Inject(r)
    <3>1. UserCopies \/ (\E w \in Window : Focus(w)) \/ TargetStep => UNCHANGED pasted
      BY DEF UserCopies, Focus, TargetStep, CreateTarget, DeleteTarget, BindQueue, SetStatus,
             EditFields, EditRead, EditPrint, EditorDies
    <3>. QED  BY <3>1 DEF Next
  <2>2. Paste(r) /\ pasted' = [pasted EXCEPT ![r] = @ + 1]
    BY <2>1 DEF Inject, Begin, Verify, Mark, Backup, Copy, CopyOnly, Paste, Submit, Restore, Finish
  <2>3. r = q
    BY <2>2, PasteTypes
  <2>4. call[q].pc = "paste" /\ OnItsOwn(q)
    BY <2>2, <2>3 DEF PasteInv, Paste, At
  <2>. QED  BY <2>4 DEF OnItsOwn, Gated, GatesPassed, ConfirmationGiven
<1>. QED  BY <1>1, PasteInvariance, PTL DEF Spec, PasteWasChecked

--------------------------------------------------------------------------------
(* One editor's two writes.                                                  *)
LEMMA NextKeepsPrintInv ==
    ASSUME OneEditor
    PROVE  PasteInv /\ PrintInv /\ [Next]_vars => PrintInv'
<1>. SUFFICES ASSUME PasteInv, PrintInv, [Next]_vars PROVE PrintInv'
  OBVIOUS
<1>1. Types /\ PrintHeld /\ FingerprintCurrent /\ edit \in [Editor -> {Idle} \cup Editing]
  BY DEF PasteInv, PrintInv, Types
<1>2. CASE UNCHANGED <<target, edit, torn>>
  BY <1>1, <1>2 DEF PrintInv, PrintHeld, FingerprintCurrent, Exists, Fingerprint
<1>3. CASE CreateTarget
  <2>1. target'.print = Fingerprint(target')
    BY <1>3 DEF CreateTarget, Fingerprint
  <2>2. FingerprintCurrent'
    BY <2>1 DEF FingerprintCurrent, Fingerprint
  <2>3. PrintHeld'
    BY <1>1, <1>3 DEF CreateTarget, PrintHeld
  <2>. QED  BY <2>2, <2>3 DEF PrintInv
<1>4. CASE DeleteTarget
  <2>1. ~Exists'
    BY <1>4 DEF DeleteTarget, Exists, NoTarget
  <2>2. ASSUME NEW e \in Editor, edit'[e].pc = "print" PROVE ~edit'[e].own
    <3>1. edit'[e] = IF edit[e].pc = "idle" THEN Idle ELSE [edit[e] EXCEPT !.own = FALSE]
      BY <1>4 DEF DeleteTarget
    <3>2. edit[e].pc # "idle"
      BY <2>2, <3>1 DEF Idle
    <3>3. edit[e] \in Editing
      BY <1>1, <3>2 DEF Idle
    <3>. QED  BY <3>1, <3>2, <3>3 DEF Editing
  <2>. QED  BY <2>1, <2>2 DEF PrintInv, PrintHeld, FingerprintCurrent
<1>5. ASSUME NEW status \in {"ACTIVE", "DISABLED"}, SetStatus(status) PROVE PrintInv'
  <2>1. target \in AppTarget
    BY <1>1, <1>5, TargetRow DEF SetStatus
  <2>2. /\ target'.status # "NONE" /\ target'.print = target.print
        /\ target'.expected = target.expected
        /\ edit' = edit /\ torn' = torn
    BY <1>5, <2>1 DEF SetStatus, AppTarget
  <2>. QED  BY <1>1, <1>5, <2>2 DEF SetStatus, PrintInv, PrintHeld, FingerprintCurrent, Exists, Fingerprint
<1>6. ASSUME NEW e \in Editor, EditFields(e) PROVE PrintInv'
  <2>1. edit'[e].pc = "read"
    BY <1>1, <1>6 DEF EditFields
  <2>. QED  BY <2>1 DEF OneEditor, PrintInv, PrintHeld, FingerprintCurrent
<1>7. ASSUME NEW e \in Editor, EditRead(e) PROVE PrintInv'
  <2>1. CASE Exists /\ Fingerprint(target) # target.print
    <3>1. /\ edit'[e].pc = "print" /\ edit'[e].print = Fingerprint(target)
          /\ target' = target
      BY <1>1, <1>7, <2>1 DEF EditRead
    <3>. QED  BY <2>1, <3>1 DEF OneEditor, PrintInv, PrintHeld, FingerprintCurrent, Exists, Fingerprint
  <2>2. CASE ~(Exists /\ Fingerprint(target) # target.print)
    <3>1. edit'[e].pc = "idle" /\ target' = target
      BY <1>1, <1>7, <2>2 DEF EditRead, Idle
    <3>. QED  BY <2>2, <3>1 DEF OneEditor, PrintInv, PrintHeld, FingerprintCurrent, Exists, Fingerprint
  <2>. QED  BY <2>1, <2>2
<1>8. ASSUME NEW e \in Editor, EditPrint(e) PROVE PrintInv'
  <2>1. edit'[e].pc = "idle"
    BY <1>1, <1>8 DEF EditPrint, Idle
  <2>2. PrintHeld'
    BY <2>1 DEF OneEditor, PrintHeld
  <2>3. ASSUME Exists', ~torn' PROVE target'.print = Fingerprint(target')
    <3>1. edit[e].pc = "print" /\ edit[e].own
      BY <1>8, <2>3 DEF EditPrint
    <3>2. Exists /\ edit[e].print = Fingerprint(target)
      BY <1>1, <3>1 DEF PrintHeld
    <3>3. target' = [target EXCEPT !.print = edit[e].print] /\ target \in AppTarget
      BY <1>1, <1>8, <3>2, TargetRow DEF EditPrint
    <3>. QED  BY <3>2, <3>3 DEF AppTarget, Fingerprint
  <2>. QED  BY <2>2, <2>3 DEF PrintInv, FingerprintCurrent, Fingerprint
<1>9. ASSUME NEW e \in Editor, EditorDies(e) PROVE PrintInv'
  <2>1. edit'[e].pc = "idle" /\ torn'
    BY <1>1, <1>9 DEF EditorDies, Idle
  <2>. QED  BY <2>1 DEF OneEditor, PrintInv, PrintHeld, FingerprintCurrent
<1>10. ASSUME NEW q \in Queue, BindQueue(q) \/ Inject(q) PROVE UNCHANGED <<target, edit, torn>>
  BY <1>10 DEF BindQueue, Inject, Begin, Verify, Mark, Backup, Copy, CopyOnly, Paste, Submit, Restore, Finish
<1>11. UserCopies \/ (\E w \in Window : Focus(w)) \/ UNCHANGED vars => UNCHANGED <<target, edit, torn>>
  BY DEF UserCopies, Focus, vars
<1>. QED  BY <1>2, <1>3, <1>4, <1>5, <1>6, <1>7, <1>8, <1>9, <1>10, <1>11 DEF Next, TargetStep

(* With one caller of update_target at a time the stored fingerprint is that *)
(* of the stored fields whenever no update is under way and the last one was *)
(* not cut short.                                                            *)
THEOREM FingerprintsAreCurrent ==
    ASSUME OneEditor
    PROVE  Spec => []FingerprintCurrent
<1>1. PrintInv => FingerprintCurrent
  BY DEF PrintInv
<1>. QED  BY <1>1, InitPasteInv, PasteInvariance, NextKeepsPrintInv, PTL DEF Spec
================================================================================
