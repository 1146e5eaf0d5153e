--------------------------- MODULE PromptQueueProofs ---------------------------
(***************************************************************************)
(* Proofs about PromptQueue for any number of prompts and any positions,   *)
(* then about PromptQueueCalls for any number of clients.                  *)
(*                                                                         *)
(* The inductive invariant of the atomic queue is IInv: the checked        *)
(* invariants need each other (DeliveredOnce needs NoOrphans to know that  *)
(* a new row is undelivered, FinishedTogether needs it for a queue that    *)
(* has just been created).  Under concurrent calls less remains: CallsInv, *)
(* which rests on what every write leaves true for the others (Kept), and  *)
(* ActiveInv when one client injects.  A lone client is back at the atomic *)
(* queue: LoneInv says that what it has read still holds, and on the mapped*)
(* statuses Orderly is inductive beside it.                                *)
(***************************************************************************)
EXTENDS PromptQueueCalls, FiniteSetTheorems, WellFoundedInduction, TLAPS

IInv ==
    /\ TypeOK
    /\ OneActive
    /\ FinishedTogether
    /\ DeliveredOnce
    /\ NoOrphans

--------------------------------------------------------------------------------
(* A nonempty set of naturals has a least element. *)
LEMMA LeastNat ==
    ASSUME NEW T \in SUBSET Nat, T # {}
    PROVE  \E m \in T : \A n \in T : m <= n
<1>1. PICK m \in T : \A n \in T : <<n, m>> \notin OpToRel(<, Nat)
  BY NatLessThanWellFounded, WFMin
<1>2. \A n \in T : ~(n < m)
  BY <1>1 DEF OpToRel
<1>. QED  BY <1>2

(* Subsets of Prompt are finite and have a natural cardinality. *)
LEMMA PromptSubset ==
    ASSUME NEW S \in SUBSET Prompt
    PROVE  /\ IsFiniteSet(S)
           /\ Cardinality(S) \in Nat
<1>1. IsFiniteSet(Prompt)
  BY NumPromptsAssumption, FS_Interval DEF Prompt
<1>2. IsFiniteSet(S)
  BY <1>1, FS_Subset
<1>. QED  BY <1>2, FS_CardinalityType

(* Before orders the prompts strictly and totally. *)
LEMMA BeforeTotal ==
    ASSUME TypeOK
    PROVE  /\ \A p \in Prompt : ~Before(p, p)
           /\ \A p, q \in Prompt : p # q => Before(p, q) \/ Before(q, p)
           /\ \A p, q, r \in Prompt : Before(p, q) /\ Before(q, r) => Before(p, r)
<1>1. \A p \in Prompt : p \in Int /\ position[p] \in Int
  BY NumPromptsAssumption DEF Prompt, TypeOK
<1>. QED  BY <1>1 DEF Before

(* The rank of a prompt, counted within S, grows along the order. *)
LEMMA RankGrows ==
    ASSUME TypeOK, NEW S \in SUBSET Prompt, NEW p \in S, NEW q \in Prompt,
           Before(p, q)
    PROVE  Cardinality({r \in S : Before(r, p)}) < Cardinality({r \in S : Before(r, q)})
<1> DEFINE P == {r \in S : Before(r, p)}
           Q == {r \in S : Before(r, q)}
<1>1. P \subseteq Q /\ p \in Q /\ p \notin P
  BY BeforeTotal
<1>2. IsFiniteSet(Q) /\ Cardinality(Q) \in Nat /\ Cardinality(P) \in Nat
  BY PromptSubset
<1>3. Cardinality(P) <= Cardinality(Q) /\ Cardinality(P) # Cardinality(Q)
  BY <1>1, <1>2, FS_Subset
<1>. QED  BY <1>2, <1>3

(* First(S) is the least prompt of a nonempty S. *)
LEMMA FirstIsLeast ==
    ASSUME TypeOK, NEW S \in SUBSET Prompt, S # {}
    PROVE  First(S) \in S /\ \A q \in S \ {First(S)} : Before(First(S), q)
<1> DEFINE rank(p) == Cardinality({r \in S : Before(r, p)})
           ranks == {rank(p) : p \in S}
<1>1. ranks \in SUBSET Nat /\ ranks # {}
  BY PromptSubset
<1>2. PICK m \in ranks : \A n \in ranks : m <= n
  BY <1>1, LeastNat
<1>3. PICK p \in S : m = rank(p)
  BY <1>2
<1>4. ASSUME NEW q \in S, q # p
      PROVE  Before(p, q)
  <2>1. CASE Before(q, p)
    <3>1. rank(q) < rank(p)
      BY <2>1, RankGrows
    <3>2. rank(p) <= rank(q) /\ rank(p) \in Nat /\ rank(q) \in Nat
      BY <1>1, <1>2, <1>3
    <3>. QED  BY <3>1, <3>2
  <2>. QED  BY <1>4, <2>1, BeforeTotal
<1>. QED  BY <1>4 DEF First

(* Among any prompts one has the highest position. *)
LEMMA HighestPosition ==
    ASSUME TypeOK, NEW S \in SUBSET Prompt, S # {}
    PROVE  \E x \in S : \A q \in S : position[q] <= position[x]
<1> DEFINE above(p) == Cardinality({r \in S : position[p] < position[r]})
           heights == {above(p) : p \in S}
<1>1. \A p \in Prompt : position[p] \in Int
  BY DEF TypeOK
<1>2. heights \in SUBSET Nat /\ heights # {}
  BY <1>1, PromptSubset
<1>3. PICK m \in heights : \A n \in heights : m <= n
  BY <1>2, LeastNat
<1>4. PICK p \in S : m = above(p)
  BY <1>3
<1>5. ASSUME NEW q \in S
      PROVE  position[q] <= position[p]
  <2>1. CASE position[p] < position[q]
    <3> DEFINE P == {r \in S : position[p] < position[r]}
               Q == {r \in S : position[q] < position[r]}
    <3>1. Q \subseteq P /\ q \in P /\ q \notin Q
      BY <1>1, <1>5, <2>1
    <3>2. IsFiniteSet(P) /\ Cardinality(P) \in Nat /\ Cardinality(Q) \in Nat
      BY <1>1, PromptSubset
    <3>3. Cardinality(Q) <= Cardinality(P) /\ Cardinality(Q) # Cardinality(P)
      BY <3>1, <3>2, FS_Subset
    <3>4. Cardinality(P) <= Cardinality(Q)
      BY <1>3, <1>4, <1>5
    <3>. QED  BY <3>2, <3>3, <3>4
  <2>. QED  BY <1>1, <1>5, <2>1
<1>. QED  BY <1>4, <1>5

(* An append position is an integer: some listed prompt has the largest one. *)
LEMMA LastPositionType ==
    ASSUME TypeOK
    PROVE  LastPosition \in Int
<1>1. Listed \in SUBSET Prompt /\ \A p \in Prompt : position[p] \in Int
  BY DEF Listed, TypeOK
<1>. QED  BY <1>1, HighestPosition DEF LastPosition

(* Reordering hands out integer positions and keeps the relative order of   *)
(* every two prompts other than the one that is moved.                      *)
LEMMA RenumberedKeepsOrder ==
    ASSUME TypeOK, NEW p \in Prompt, NEW n \in Int, status[p] # "NONE"
    PROVE  /\ Renumbered(p, n) \in [Prompt -> Int]
           /\ \A a, b \in Listed \ {p} :
                 Before(a, b) => Renumbered(p, n)[a] < Renumbered(p, n)[b]
           /\ \A q \in Prompt : IF status[q] = "NONE" THEN Renumbered(p, n)[q] = position[q]
                               ELSE Renumbered(p, n)[q] # 0
<1> DEFINE others == Listed \ {p}
           rank(q) == Cardinality({r \in others : Before(r, q)})
           index == IF n - 1 < 0 THEN 0
                    ELSE IF n - 1 > Cardinality(others) THEN Cardinality(others)
                    ELSE n - 1
<1>1. others \in SUBSET Prompt /\ p \in Prompt /\ \A q \in Prompt : position[q] \in Int
  BY DEF Listed, TypeOK
<1>2. index \in Nat
  BY <1>1, PromptSubset
<1>3. \A q \in Prompt : rank(q) \in Nat
  BY <1>1, PromptSubset
<1>4. Renumbered(p, n) =
        [q \in Prompt |->
            IF q = p THEN index + 1
            ELSE IF q \notin others THEN position[q]
            ELSE IF rank(q) < index THEN rank(q) + 1
            ELSE rank(q) + 2]
  BY DEF Renumbered
<1> HIDE DEF index, rank, others
<1>5. Renumbered(p, n) \in [Prompt -> Int]
  BY <1>1, <1>2, <1>3, <1>4
<1>6. ASSUME NEW a \in others, NEW b \in others, Before(a, b)
      PROVE  Renumbered(p, n)[a] < Renumbered(p, n)[b]
  <2>1. rank(a) < rank(b)
    BY <1>1, <1>6, RankGrows DEF rank
  <2>2. a \in Prompt /\ b \in Prompt /\ a # p /\ b # p
    BY <1>1 DEF others
  <2>. QED  BY <1>2, <1>3, <1>4, <2>1, <2>2
<1>7. \A q \in Prompt : IF status[q] = "NONE" THEN Renumbered(p, n)[q] = position[q]
                       ELSE Renumbered(p, n)[q] # 0
  <2>1. \A q \in Prompt : q \in others <=> q # p /\ status[q] # "NONE"
    BY DEF others, Listed
  <2>. QED  BY <1>2, <1>3, <1>4, <2>1
<1>. QED  BY <1>5, <1>6, <1>7 DEF others

--------------------------------------------------------------------------------
(* The prompt the handlers call current is a live one. *)
LEMMA CurrentIsLive ==
    ASSUME TypeOK, Live(status) # {}
    PROVE  Current \in Prompt /\ status[Current] \notin PromptTerminal \cup {"NONE"}
<1>1. Live(status) \in SUBSET Prompt
  BY DEF Live
<1>. QED  BY <1>1, FirstIsLeast DEF Current, Live

(* What finishing the current prompt does to the prompts: the current one   *)
(* gets the outcome, at most one PENDING prompt becomes READY_TO_INJECT and *)
(* every other one keeps its status.                                        *)
LEMMA FinishEffect ==
    ASSUME TypeOK, Live(status) # {}, NEW outcome \in {"DONE", "SKIPPED"},
           FinishPrompt(outcome)
    PROVE  LET finished == [status EXCEPT ![Current] = outcome]
           IN  /\ \A p \in Prompt :
                     \/ status'[p] = finished[p]
                     \/ finished[p] = "PENDING" /\ status'[p] = "READY_TO_INJECT"
               /\ DOMAIN status' = Prompt
               /\ status'[Current] = outcome
               /\ Live(status') = Live(finished)
               /\ queue' = QueueAfter(finished)
<1> DEFINE finished == [status EXCEPT ![Current] = outcome]
           Statuses == {"NONE", "PENDING", "READY_TO_INJECT", "INJECTING",
                        "WAITING_COMPLETION", "DONE", "SKIPPED", "CANCELLED"}
<1>1. Current \in Prompt /\ status \in [Prompt -> Statuses] /\ outcome \in Statuses
  BY CurrentIsLive DEF TypeOK
<1>2. finished \in [Prompt -> Statuses] /\ finished[Current] = outcome
  BY <1>1
<1>3. status' = ReadyNext(finished) /\ queue' = QueueAfter(finished)
  BY DEF FinishPrompt
<1> HIDE DEF finished
<1>4. CASE Pending(finished) = {}
  BY <1>2, <1>3, <1>4 DEF ReadyNext, finished
<1>5. CASE Pending(finished) # {}
  <2> DEFINE next == First(Pending(finished))
  <2>1. next \in Prompt /\ finished[next] = "PENDING"
    BY <1>5, FirstIsLeast DEF Pending
  <2>2. status' = [finished EXCEPT ![next] = "READY_TO_INJECT"]
    BY <1>3, <1>5 DEF ReadyNext
  <2> HIDE DEF next
  <2>3. next # Current
    BY <1>2, <2>1
  <2>4. Live(status') = Live(finished)
    BY <1>2, <2>1, <2>2 DEF Live, PromptTerminal
  <2>. QED  BY <1>1, <1>2, <1>3, <2>1, <2>2, <2>3, <2>4 DEF finished
<1>. QED  BY <1>4, <1>5

--------------------------------------------------------------------------------
(* The invariant holds before the queue is created. *)
LEMMA InitIInv == Init => IInv
<1>. SUFFICES ASSUME Init
              PROVE  IInv
  OBVIOUS
<1>1. \A p \in Prompt : status[p] = "NONE" /\ delivered[p] = 0
  BY DEF Init
<1>2. Listed = {} /\ Active = {}
  BY <1>1 DEF Listed, Active, PromptActive
<1>3. TypeOK
  <2>1. started \in BOOLEAN
    BY DEF Init
  <2>2. position \in [Prompt -> Int] /\ delivered \in [Prompt -> Nat]
    BY DEF Init
  <2>. QED  BY <2>1, <2>2 DEF Init, TypeOK
<1>. QED
  BY <1>1, <1>2, <1>3 DEF IInv, OneActive, FinishedTogether, DeliveredOnce,
                          PromptInjectable, NoOrphans

(* Adding, moving and the queue-level operations.                           *)
LEMMA CreateKeepsIInv == IInv /\ CreateQueue => IInv'
BY DEF IInv, CreateQueue, TypeOK, OneActive, Active, FinishedTogether, QueueExists,
       DeliveredOnce, NoOrphans, Listed, Live

(* Deleting takes every prompt along. *)
LEMMA DeleteKeepsIInv == IInv /\ DeleteQueue => IInv'
BY DEF IInv, DeleteQueue, TypeOK, OneActive, Active, PromptActive, FinishedTogether,
       QueueExists, DeliveredOnce, PromptInjectable, NoOrphans, Listed

(* The app target is no part of the invariant. *)
LEMMA TargetKeepsIInv == IInv /\ SetTargetStatus => IInv'
BY DEF IInv, SetTargetStatus, TypeOK, OneActive, Active, FinishedTogether, QueueExists,
       DeliveredOnce, NoOrphans, Listed, Live

(* A new prompt is the only change, and it is undelivered. *)
LEMMA AddKeepsIInv ==
    ASSUME IInv, NEW at \in Int, AddPrompt(at)
    PROVE  IInv'
<1>1. PICK p \in Prompt \ Listed :
         /\ status' = [status EXCEPT ![p] = "PENDING"]
         /\ position' = [position EXCEPT ![p] = at]
  BY DEF AddPrompt
<1>2. status[p] = "NONE" /\ queue # "DELETED" /\ queue # "NONE" /\ delivered[p] = 0
  BY <1>1 DEF AddPrompt, Listed, QueueExists, IInv, NoOrphans
<1>3. TypeOK'
  BY <1>1 DEF AddPrompt, IInv, TypeOK
<1>4. OneActive'
  BY <1>1 DEF IInv, TypeOK, OneActive, Active, PromptActive
<1>5. FinishedTogether'
  <2>1. queue' \notin QueueTerminal /\ p \in Live(status')
    BY <1>1 DEF AddPrompt, QueueTerminal, Live, PromptTerminal, IInv, TypeOK
  <2>. QED  BY <2>1 DEF FinishedTogether
<1>6. DeliveredOnce'
  BY <1>1, <1>2 DEF AddPrompt, IInv, TypeOK, DeliveredOnce, PromptInjectable
<1>7. NoOrphans'
  BY <1>1, <1>2 DEF AddPrompt, IInv, TypeOK, NoOrphans, QueueExists, Listed
<1>. QED  BY <1>3, <1>4, <1>5, <1>6, <1>7 DEF IInv

(* Reordering changes positions only. *)
LEMMA ReorderKeepsIInv ==
    ASSUME IInv, NEW p \in Prompt, NEW n \in NewPositions, Reorder(p, n)
    PROVE  IInv'
<1>1. position' \in [Prompt -> Int]
  BY RenumberedKeepsOrder, PositionsAssumption DEF Reorder, IInv
<1>. QED
  BY <1>1 DEF IInv, Reorder, TypeOK, OneActive, Active, FinishedTogether, QueueExists,
              DeliveredOnce, NoOrphans, Listed, Live

(* Pausing and resuming change the queue's status only. *)
LEMMA PauseKeepsIInv == IInv /\ (PauseQueue \/ ResumeQueue) => IInv'
BY DEF IInv, PauseQueue, ResumeQueue, TypeOK, OneActive, Active, FinishedTogether,
       QueueExists, QueueTerminal, DeliveredOnce, NoOrphans, Listed, Live

(* Cancelling ends the queue and every live prompt. *)
LEMMA CancelKeepsIInv == IInv /\ CancelQueue => IInv'
<1>. SUFFICES ASSUME IInv, CancelQueue
              PROVE  IInv'
  OBVIOUS
<1>1. \A p \in Prompt : \/ status'[p] = status[p] /\ p \notin Live(status)
                        \/ status'[p] = "CANCELLED" /\ p \in Live(status)
  BY DEF CancelQueue, CancelledStatus
<1>2. TypeOK'
  BY DEF IInv, TypeOK, CancelQueue, CancelledStatus
<1>3. Live(status') = {} /\ queue' = "CANCELLED"
  BY <1>1 DEF CancelQueue, Live, PromptTerminal
<1>4. OneActive'
  BY <1>3 DEF OneActive, Active, PromptActive, Live, PromptTerminal
<1>5. FinishedTogether'
  BY <1>3 DEF FinishedTogether, QueueTerminal
<1>6. DeliveredOnce'
  BY <1>1 DEF IInv, DeliveredOnce, PromptInjectable, CancelQueue
<1>7. NoOrphans'
  BY <1>1, <1>3 DEF IInv, NoOrphans, CancelQueue, QueueExists, Listed, Live
<1>. QED  BY <1>2, <1>4, <1>5, <1>6, <1>7 DEF IInv

(* Injecting: the current prompt was injectable, hence not active and not   *)
(* delivered, and it is the only prompt that changes.                       *)
LEMMA InjectKeepsIInv ==
    ASSUME IInv, InjectSubmitted \/ InjectRefused \/ InjectAborted
    PROVE  IInv'
<1>1. Current \in Prompt /\ status[Current] \in PromptInjectable
  BY CurrentIsLive DEF IInv, InjectSubmitted, InjectRefused, InjectAborted, Injectable
<1>2. /\ QueueExists /\ queue \notin QueueTerminal /\ Active = {}
      /\ queue' = IF queue \in {"DRAFT", "READY"} THEN "RUNNING" ELSE queue
      /\ started' \in BOOLEAN
      /\ target' = target /\ position' = position
  BY DEF InjectSubmitted, InjectRefused, InjectAborted, Injectable, StartQueue, IInv, TypeOK
<1>3. PICK new \in {"WAITING_COMPLETION", "READY_TO_INJECT", "INJECTING"} :
         /\ status' = [status EXCEPT ![Current] = new]
         /\ \/ delivered' = [delivered EXCEPT ![Current] = @ + 1] /\ new # "READY_TO_INJECT"
            \/ delivered' = delivered /\ new # "WAITING_COMPLETION"
  BY DEF InjectSubmitted, InjectRefused, InjectAborted
<1> DEFINE c == Current
<1>4. /\ c \in Prompt /\ status[c] \in PromptInjectable /\ status' = [status EXCEPT ![c] = new]
      /\ \/ delivered' = [delivered EXCEPT ![c] = @ + 1] /\ new # "READY_TO_INJECT"
         \/ delivered' = delivered /\ new # "WAITING_COMPLETION"
  BY <1>1, <1>3
<1> HIDE DEF c
<1>5. delivered[c] = 0
  BY <1>4 DEF IInv, DeliveredOnce
<1>6. TypeOK'
  BY <1>2, <1>4 DEF IInv, TypeOK
<1>7. OneActive'
  <2>1. \A p \in Prompt \ {c} : status'[p] \notin PromptActive
    BY <1>2, <1>4 DEF Active, IInv, TypeOK
  <2>. QED  BY <2>1 DEF OneActive, Active
<1>8. FinishedTogether'
  <2>1. c \in Live(status') /\ queue' \notin QueueTerminal
    BY <1>2, <1>4 DEF Live, PromptTerminal, QueueTerminal, IInv, TypeOK
  <2>. QED  BY <2>1 DEF FinishedTogether
<1>9. DeliveredOnce'
  BY <1>4, <1>5 DEF IInv, DeliveredOnce, TypeOK, PromptInjectable
<1>10. NoOrphans'
  BY <1>2, <1>4, <1>5 DEF IInv, NoOrphans, TypeOK, QueueExists, Listed, PromptInjectable
<1>. QED  BY <1>6, <1>7, <1>8, <1>9, <1>10 DEF IInv

(* Completing or skipping: the finished prompt leaves the active set, the   *)
(* readied one does not enter it, and the queue is DONE with its last one.  *)
LEMMA FinishKeepsIInv ==
    ASSUME IInv, QueueExists, Live(status) # {},
           NEW outcome \in {"DONE", "SKIPPED"}, FinishPrompt(outcome),
           outcome = "DONE" => status[Current] = "WAITING_COMPLETION"
    PROVE  IInv'
<1> DEFINE c == Current
           finished == [status EXCEPT ![c] = outcome]
<1>1. /\ TypeOK
      /\ c \in Prompt /\ status[c] \notin PromptTerminal \cup {"NONE"}
      /\ outcome = "DONE" => status[c] = "WAITING_COMPLETION"
      /\ UNCHANGED <<started, target, position, delivered>>
  BY CurrentIsLive DEF IInv, FinishPrompt
<1>2. /\ \A p \in Prompt :
            \/ status'[p] = finished[p]
            \/ finished[p] = "PENDING" /\ status'[p] = "READY_TO_INJECT"
      /\ DOMAIN status' = Prompt
      /\ status'[c] = outcome
      /\ Live(status') = Live(finished)
      /\ queue' = QueueAfter(finished)
  BY <1>1, FinishEffect
<1> HIDE DEF c
<1>3. \A p \in Prompt \ {c} :
         \/ status'[p] = status[p]
         \/ status[p] = "PENDING" /\ status'[p] = "READY_TO_INJECT"
  BY <1>1, <1>2 DEF TypeOK
<1>4. queue \notin QueueTerminal
  BY DEF IInv, FinishedTogether, Listed, Live
<1>5. queue' = IF Live(status') = {} THEN "DONE" ELSE queue
  BY <1>2, <1>4 DEF QueueAfter
<1>6. status' \in [Prompt -> {"NONE", "PENDING", "READY_TO_INJECT", "INJECTING",
                              "WAITING_COMPLETION", "DONE", "SKIPPED", "CANCELLED"}]
  <2>1. status' = [p \in Prompt |-> status'[p]]
    BY <1>2, <1>1 DEF FinishPrompt, ReadyNext, TypeOK
  <2>2. \A p \in Prompt : status'[p] \in {"NONE", "PENDING", "READY_TO_INJECT", "INJECTING",
                              "WAITING_COMPLETION", "DONE", "SKIPPED", "CANCELLED"}
    BY <1>1, <1>2, <1>3 DEF TypeOK
  <2>. QED  BY <2>1, <2>2
<1>7. TypeOK'
  BY <1>1, <1>5, <1>6 DEF TypeOK
<1>8. OneActive'
  <2>1. \A p \in Prompt : status'[p] \in PromptActive => status[p] \in PromptActive
    BY <1>1, <1>2, <1>3 DEF PromptActive
  <2>. QED  BY <2>1 DEF IInv, OneActive, Active
<1>9. FinishedTogether'
  BY <1>4, <1>5 DEF FinishedTogether, QueueTerminal
<1>10. DeliveredOnce'
  <2>1. delivered' = delivered
    BY <1>1
  <2>2. ASSUME NEW p \in Prompt \ {c}
        PROVE  /\ delivered[p] <= 1
               /\ status'[p] \in PromptInjectable => delivered[p] = 0
               /\ status'[p] \in {"WAITING_COMPLETION", "DONE"} => delivered[p] = 1
    BY <1>3, <2>2 DEF IInv, DeliveredOnce, PromptInjectable
  <2>3. /\ delivered[c] <= 1
        /\ status'[c] \in PromptInjectable => delivered[c] = 0
        /\ status'[c] \in {"WAITING_COMPLETION", "DONE"} => delivered[c] = 1
    BY <1>1, <1>2 DEF IInv, DeliveredOnce, PromptInjectable
  <2>. QED  BY <2>1, <2>2, <2>3 DEF DeliveredOnce
<1>11. NoOrphans'
  <2>1. \A p \in Prompt : status'[p] = "NONE" => status[p] = "NONE"
    BY <1>1, <1>2, <1>3
  <2>2. QueueExists'
    BY <1>5 DEF QueueExists
  <2>. QED
    BY <1>1, <2>1, <2>2 DEF IInv, NoOrphans, QueueExists, Listed
<1>. QED  BY <1>7, <1>8, <1>9, <1>10, <1>11 DEF IInv

(* Every action preserves the invariant. *)
LEMMA NextKeepsIInv == IInv /\ [Next]_vars => IInv'
<1>. SUFFICES ASSUME IInv, [Next]_vars
              PROVE  IInv'
  OBVIOUS
<1>1. CASE CreateQueue \/ DeleteQueue \/ SetTargetStatus
  BY <1>1, CreateKeepsIInv, DeleteKeepsIInv, TargetKeepsIInv
<1>2. CASE AddAtEnd
  BY <1>2, LastPositionType, AddKeepsIInv DEF AddAtEnd, IInv
<1>3. CASE AddAtPosition
  BY <1>3, PositionsAssumption, AddKeepsIInv DEF AddAtPosition
<1>4. CASE \E p \in Prompt, n \in NewPositions : Reorder(p, n)
  BY <1>4, ReorderKeepsIInv
<1>5. CASE InjectSubmitted \/ InjectRefused \/ InjectAborted
  BY <1>5, InjectKeepsIInv
<1>6. CASE MarkCurrentComplete
  BY <1>6, FinishKeepsIInv DEF MarkCurrentComplete
<1>7. CASE SkipCurrentPrompt
  BY <1>7, FinishKeepsIInv DEF SkipCurrentPrompt
<1>8. CASE PauseQueue \/ ResumeQueue \/ CancelQueue
  BY <1>8, PauseKeepsIInv, CancelKeepsIInv
<1>9. CASE UNCHANGED vars
  BY <1>9 DEF vars, IInv, TypeOK, OneActive, Active, FinishedTogether, QueueExists,
              DeliveredOnce, NoOrphans, Listed, Live
<1>. QED
  BY <1>1, <1>2, <1>3, <1>4, <1>5, <1>6, <1>7, <1>8, <1>9 DEF Next

(* Every reachable state satisfies the inductive invariant. *)
THEOREM Invariance == Spec => []IInv
BY InitIInv, NextKeepsIInv, PTL DEF Spec

(* The variables keep their types, whatever is added, moved or injected.    *)
THEOREM TypeCorrect == Spec => []TypeOK
BY Invariance, PTL DEF IInv

(* prompt_queue.py:12: never two active prompts in one queue.               *)
THEOREM OnlyOneActive == Spec => []OneActive
BY Invariance, PTL DEF IInv

(* The queue row and its prompt rows finish together.                       *)
THEOREM QueueAndPromptsFinishTogether == Spec => []FinishedTogether
BY Invariance, PTL DEF IInv

(* No prompt is delivered to the app twice, and none is DONE undelivered.   *)
THEOREM NoSecondDelivery == Spec => []DeliveredOnce
BY Invariance, PTL DEF IInv

(* delete_prompt_queue leaves no prompt behind, and a new prompt row starts  *)
(* undelivered: no row belongs to a queue that is not there.                 *)
THEOREM NothingOrphaned == Spec => []NoOrphans
BY Invariance, PTL DEF IInv

--------------------------------------------------------------------------------
(* The step form of TerminalStays, action by action. *)
LEMMA TerminalStep ==
    ASSUME IInv, [Next]_vars, NEW p \in Prompt, status[p] \in PromptTerminal
    PROVE  status'[p] \in {status[p], "NONE"}
<1>1. CASE UNCHANGED status
  BY <1>1
<1>2. CASE DeleteQueue
  BY <1>2 DEF DeleteQueue
<1>3. CASE AddAtEnd \/ AddAtPosition
  <2>1. PICK r \in Prompt \ Listed : status' = [status EXCEPT ![r] = "PENDING"]
    BY <1>3 DEF AddAtEnd, AddAtPosition, AddPrompt
  <2>2. r # p
    BY <2>1 DEF Listed, PromptTerminal
  <2>. QED  BY <2>1, <2>2 DEF IInv, TypeOK
<1>4. CASE InjectSubmitted \/ InjectRefused \/ InjectAborted
  <2>1. Current # p
    BY <1>4, CurrentIsLive DEF IInv, InjectSubmitted, InjectRefused, InjectAborted, Injectable
  <2>. QED  BY <1>4, <2>1 DEF InjectSubmitted, InjectRefused, InjectAborted, IInv, TypeOK
<1>5. CASE MarkCurrentComplete \/ SkipCurrentPrompt
  <2>1. PICK outcome \in {"DONE", "SKIPPED"} : FinishPrompt(outcome) /\ Live(status) # {}
    BY <1>5 DEF MarkCurrentComplete, SkipCurrentPrompt
  <2>2. TypeOK /\ Current # p
    BY <2>1, CurrentIsLive DEF IInv
  <2>3. status'[p] = [status EXCEPT ![Current] = outcome][p]
          \/ /\ [status EXCEPT ![Current] = outcome][p] = "PENDING"
             /\ status'[p] = "READY_TO_INJECT"
    BY <2>1, <2>2, FinishEffect
  <2>. QED  BY <2>2, <2>3 DEF TypeOK, PromptTerminal
<1>6. CASE CancelQueue
  BY <1>6 DEF CancelQueue, CancelledStatus, Live
<1>. QED
  BY <1>1, <1>2, <1>3, <1>4, <1>5, <1>6
     DEF Next, vars, CreateQueue, SetTargetStatus, Reorder, PauseQueue, ResumeQueue

(* A finished prompt stays finished. *)
THEOREM FinishedPromptsStay == Spec => TerminalStays
<1>1. IInv /\ [Next]_vars
        => [\A p \in Prompt :
              status[p] \in PromptTerminal => status'[p] \in {status[p], "NONE"}]_vars
  BY TerminalStep
<1>. QED  BY <1>1, Invariance, PTL DEF Spec, TerminalStays

(* The step form of OrderStable: appending gives a position to a row that   *)
(* was not there, and a reorder keeps the order of the unmoved prompts.     *)
LEMMA OrderStep ==
    ASSUME IInv, [Next]_vars, NEW p \in Listed, NEW q \in Listed,
           Before(p, q), status[p] # "PENDING", status[q] # "PENDING"
    PROVE  Before(p, q)'
<1>1. p \in Prompt /\ q \in Prompt /\ TypeOK
  BY DEF Listed, IInv
<1>2. CASE UNCHANGED position
  BY <1>2 DEF Before
<1>3. CASE AddAtEnd \/ AddAtPosition
  <2>1. PICK r \in Prompt \ Listed : \E at : position' = [position EXCEPT ![r] = at]
    BY <1>3 DEF AddAtEnd, AddAtPosition, AddPrompt
  <2>2. PICK at : position' = [position EXCEPT ![r] = at]
    BY <2>1
  <2>. QED  BY <1>1, <2>2 DEF Before, TypeOK
<1>4. ASSUME NEW r \in Prompt, NEW n \in NewPositions, Reorder(r, n)
      PROVE  Before(p, q)'
  <2>1. status[r] = "PENDING" /\ position' = Renumbered(r, n) /\ n \in Int
    BY <1>4, PositionsAssumption DEF Reorder
  <2>2. p \in Listed \ {r} /\ q \in Listed \ {r}
    BY <2>1
  <2>3. position'[p] < position'[q]
    BY <1>1, <2>1, <2>2, RenumberedKeepsOrder
  <2>. QED  BY <2>3 DEF Before
<1>. QED
  BY <1>2, <1>3, <1>4
     DEF Next, vars, CreateQueue, DeleteQueue, SetTargetStatus, InjectSubmitted, InjectRefused,
         InjectAborted, MarkCurrentComplete, SkipCurrentPrompt, FinishPrompt, PauseQueue,
         ResumeQueue, CancelQueue

(* prompt_queue.py:16: only PENDING prompts change places.                  *)
THEOREM OnlyPendingPromptsMove == Spec => OrderStable
<1>1. IInv /\ [Next]_vars
        => [\A p, q \in Listed :
              Before(p, q) /\ status[p] # "PENDING" /\ status[q] # "PENDING"
                 => Before(p, q)']_vars
  BY OrderStep
<1>. QED  BY <1>1, Invariance, PTL DEF Spec, OrderStable

--------------------------------------------------------------------------------
(* Where a call is: with its prompt marked, or about to mark it. *)
Marked == {"injectPaste", "injectSubmit", "injectRevert"}
Starting == {"injectStart", "injectMark"}
HasPrompt == Marked \cup Starting \cup {"reorder", "reorderSet", "injectActive", "complete",
                                       "skip", "advanceReady"}
Injects == Marked \cup Starting \cup {"injectTarget", "injectCurrent", "injectActive"}

(* What the rows promise whoever writes them. *)
RowsOK ==
    /\ TypeOK
    /\ NoOrphans
    /\ HistoryIsTrue
    /\ \A p \in Prompt : status[p] = "WAITING_COMPLETION" => delivered[p] >= 1

(* What a call may rely on: its prompt is there unless the queue was deleted,*)
(* and once marked it is never PENDING again.                               *)
CallFits(c) ==
    /\ call[c].pc \in HasPrompt =>
          call[c].cur \in Prompt /\ (status[call[c].cur] # "NONE" \/ queue = "DELETED")
    /\ call[c].pc = "switch" => call[c].seen \in {"READY", "RUNNING", "PAUSED"}
    /\ call[c].pc \in Marked => status[call[c].cur] # "PENDING"
    /\ call[c].pc \in {"injectSubmit", "complete"} => delivered[call[c].cur] >= 1
    /\ call[c].pc \in Injects => c \in Injectors

CallsInv ==
    /\ RowsOK
    /\ call \in [Clients -> CallRecord]
    /\ \A c \in Clients : CallFits(c)

(* What a write leaves true for the calls beside it. *)
Kept ==
    /\ queue = "DELETED" => queue' = "DELETED"
    /\ \A p \in Prompt :
          /\ status[p] # "NONE" => status'[p] # "NONE" \/ queue' = "DELETED"
          /\ status'[p] = "PENDING" => status[p] = "PENDING" \/ (status[p] = "NONE" /\ queue # "DELETED")
          /\ delivered[p] <= delivered'[p]

(* With one injecting client: the active prompt is the one it marked last.   *)
OneInjector == \A c, d \in Injectors : c = d

ActiveInv ==
    /\ OneActive
    /\ \A c \in Clients :
          /\ call[c].pc \in Starting => Active = {}
          /\ call[c].pc \in Marked => Active \subseteq {call[c].cur}

--------------------------------------------------------------------------------
(* A call that returns is idle, one that goes on keeps what it has read.     *)
LEMMA IdleIs == Idle \in CallRecord /\ Idle.pc = "idle"
<1>1. [p \in Prompt |-> 0] \in [Prompt -> Int]
  OBVIOUS
<1>. QED  BY <1>1, NumPromptsAssumption DEF Idle, CallRecord

(* A call that returns. *)
LEMMA ReturnIs ==
    ASSUME call \in [Clients -> CallRecord], NEW c \in Clients, Return(c)
    PROVE  /\ call' \in [Clients -> CallRecord]
           /\ call'[c].pc = "idle" /\ call'[c] = Idle
           /\ \A d \in Clients \ {c} : call'[d] = call[d]
BY IdleIs DEF Return, CallRecord

(* A call that goes on. *)
LEMMA GotoIs ==
    ASSUME call \in [Clients -> CallRecord], NEW c \in Clients,
           NEW pc \in {"addReady", "injectCurrent", "injectStart", "injectMark", "injectPaste",
                       "injectSubmit", "injectRevert", "advanceCheck", "advanceQueue",
                       "advanceDone", "cancelList"},
           Goto(c, pc)
    PROVE  /\ call' \in [Clients -> CallRecord]
           /\ call'[c].pc = pc /\ call'[c].seen = call[c].seen /\ call'[c].cur = call[c].cur
           /\ call'[c].was = call[c].was /\ call'[c].todo = call[c].todo
           /\ \A d \in Clients \ {c} : call'[d] = call[d]
<1>1. call[c] \in CallRecord
  OBVIOUS
<1>2. call' = [call EXCEPT ![c] = [call[c] EXCEPT !.pc = pc]]
  BY DEF Goto
<1> DEFINE r == [call[c] EXCEPT !.pc = pc]
<1>3. /\ r \in CallRecord /\ r.pc = pc /\ r.seen = call[c].seen /\ r.cur = call[c].cur
      /\ r.was = call[c].was /\ r.todo = call[c].todo
  BY <1>1 DEF CallRecord
<1> HIDE DEF r
<1>4. call' = [call EXCEPT ![c] = r]
  BY <1>2 DEF r
<1>. QED  BY <1>3, <1>4

(* A write of one client that keeps the rows in order keeps all calls.       *)
LEMMA WriteKeepsCalls ==
    ASSUME CallsInv, NEW c \in Clients, Kept, RowsOK',
           call' \in [Clients -> CallRecord],
           \A d \in Clients \ {c} : call'[d] = call[d],
           CallFits(c)'
    PROVE  CallsInv'
<1>1. ASSUME NEW d \in Clients \ {c}
      PROVE  CallFits(d)'
  <2>1. call'[d] = call[d] /\ CallFits(d)
    BY <1>1 DEF CallsInv
  <2>2. \A p \in Prompt : status[p] = "NONE" /\ queue = "DELETED" => status'[p] = "NONE"
    BY DEF RowsOK, NoOrphans, QueueExists, Kept, Listed
  <2>3. \A p \in Prompt : delivered[p] \in Nat /\ delivered'[p] \in Nat
    BY DEF CallsInv, RowsOK, TypeOK
  <2>4. call[d].pc \in HasPrompt =>
          call[d].cur \in Prompt /\ (status'[call[d].cur] # "NONE" \/ queue' = "DELETED")
    BY <2>1 DEF CallFits, Kept
  <2>5. call[d].pc \in Marked => status'[call[d].cur] # "PENDING"
    <3>. SUFFICES ASSUME call[d].pc \in Marked PROVE status'[call[d].cur] # "PENDING"
      OBVIOUS
    <3>1. call[d].cur \in Prompt /\ status[call[d].cur] # "PENDING"
          /\ (status[call[d].cur] # "NONE" \/ queue = "DELETED")
      BY <2>1 DEF CallFits, HasPrompt
    <3>. QED  BY <3>1, <2>2 DEF Kept
  <2>6. call[d].pc \in {"injectSubmit", "complete"} => delivered'[call[d].cur] >= 1
    <3>. SUFFICES ASSUME call[d].pc \in {"injectSubmit", "complete"}
                  PROVE  delivered'[call[d].cur] >= 1
      OBVIOUS
    <3>1. call[d].cur \in Prompt /\ delivered[call[d].cur] >= 1
      BY <2>1 DEF CallFits, HasPrompt, Marked
    <3>2. delivered[call[d].cur] <= delivered'[call[d].cur]
      BY <3>1 DEF Kept
    <3>. QED  BY <3>1, <3>2, <2>3
  <2>. QED  BY <2>1, <2>4, <2>5, <2>6 DEF CallFits
<1>. QED  BY <1>1 DEF CallsInv

(* A step that only reads keeps the rows and what the others rely on.        *)
LEMMA ReadKeepsRows ==
    ASSUME RowsOK, UNCHANGED vars
    PROVE  RowsOK' /\ Kept
<1>1. RowsOK'
  BY DEF RowsOK, vars, TypeOK, NoOrphans, QueueExists, Listed, HistoryIsTrue
<1>2. \A p \in Prompt : delivered[p] <= delivered'[p]
  BY DEF RowsOK, TypeOK, vars
<1>. QED  BY <1>1, <1>2 DEF Kept, vars

(* The status of a queue that is there is written. *)
LEMMA QueueWrite ==
    ASSUME RowsOK, NEW value \in {"READY", "RUNNING", "PAUSED", "DONE", "CANCELLED"},
           SetQueue(value), started' \in BOOLEAN, UNCHANGED <<target, status, position, delivered>>
    PROVE  RowsOK' /\ Kept /\ Active' = Active
<1>1. queue' = IF QueueExists THEN value ELSE queue
  BY DEF SetQueue
<1>2. TypeOK'
  BY <1>1 DEF RowsOK, TypeOK
<1>3. NoOrphans'
  BY <1>1 DEF RowsOK, NoOrphans, QueueExists, Listed
<1>4. HistoryIsTrue' /\ Active' = Active
  BY DEF RowsOK, HistoryIsTrue, Active
<1>5. Kept
  BY <1>1 DEF Kept, QueueExists, RowsOK, TypeOK
<1>. QED  BY <1>2, <1>3, <1>4, <1>5 DEF RowsOK

(* The status of a prompt is written.  DONE and WAITING_COMPLETION claim a   *)
(* delivery; PENDING is never written again.                                *)
LEMMA PromptWrite ==
    ASSUME RowsOK, NEW p \in Prompt,
           NEW value \in {"READY_TO_INJECT", "INJECTING", "WAITING_COMPLETION", "DONE",
                          "SKIPPED", "CANCELLED"},
           SetPrompt(p, value), UNCHANGED promptOnly,
           value \in {"DONE", "WAITING_COMPLETION"} => delivered[p] >= 1
    PROVE  /\ RowsOK' /\ Kept
           /\ status'[p] # "PENDING" \/ status[p] = "NONE"
           /\ \A q \in Prompt \ {p} : status'[q] = status[q]
           /\ status[p] = "NONE" => status' = status
           /\ status[p] # "NONE" => status'[p] = value
<1>1. /\ status' = IF status[p] = "NONE" THEN status ELSE [status EXCEPT ![p] = value]
      /\ UNCHANGED <<queue, started, target, position, delivered>>
  BY DEF SetPrompt, promptOnly
<1>2. TypeOK'
  BY <1>1 DEF RowsOK, TypeOK
<1>3. /\ \A q \in Prompt \ {p} : status'[q] = status[q]
      /\ status[p] = "NONE" => status' = status
      /\ status[p] # "NONE" => status'[p] = value
  BY <1>1 DEF RowsOK, TypeOK
<1>4. NoOrphans'
  BY <1>1, <1>3 DEF RowsOK, NoOrphans, QueueExists, Listed
<1>5. HistoryIsTrue' /\ \A q \in Prompt : status'[q] = "WAITING_COMPLETION" => delivered'[q] >= 1
  BY <1>1, <1>3 DEF RowsOK, HistoryIsTrue
<1>6. Kept
  BY <1>1, <1>3 DEF Kept, RowsOK, TypeOK
<1>. QED  BY <1>2, <1>3, <1>4, <1>5, <1>6 DEF RowsOK

--------------------------------------------------------------------------------
(* A step that only reads. *)
LEMMA ReadKeepsCalls ==
    ASSUME CallsInv, NEW c \in Clients, UNCHANGED vars,
           call' \in [Clients -> CallRecord],
           \A d \in Clients \ {c} : call'[d] = call[d],
           CallFits(c)'
    PROVE  CallsInv'
BY ReadKeepsRows, WriteKeepsCalls DEF CallsInv

(* A call that ends relies on nothing. *)
LEMMA ReturnFits ==
    ASSUME NEW c, call'[c].pc = "idle"
    PROVE  CallFits(c)'
BY DEF CallFits, HasPrompt, Marked, Starting, Injects

(* A call that begins, given what it has read. *)
LEMMA BeginIs ==
    ASSUME call \in [Clients -> CallRecord], NEW c \in Clients, NEW r \in CallRecord,
           call' = [call EXCEPT ![c] = r]
    PROVE  /\ call' \in [Clients -> CallRecord] /\ call'[c] = r
           /\ \A d \in Clients \ {c} : call'[d] = call[d]
OBVIOUS

(* A prompt's id can be kept in a call. *)
LEMMA PromptIsId == \A p \in Prompt : p \in 0 .. NumPrompts
BY NumPromptsAssumption DEF Prompt

(* add_prompt_to_queue. *)
LEMMA AddKeepsCalls ==
    ASSUME CallsInv, NEW c \in Clients, Adding(c)
    PROVE  CallsInv'
<1>1. CASE AddGet(c)
  <2>1. queue \in {"NONE", "DRAFT", "READY", "RUNNING", "PAUSED"} /\ UNCHANGED vars
    BY <1>1 DEF AddGet, CallsInv, RowsOK, TypeOK, QueueTerminal, QueueExists
  <2>2. PICK r \in CallRecord : r = [call[c] EXCEPT !.pc = "addLast", !.seen = queue]
    BY <2>1 DEF CallsInv, CallRecord
  <2>3. call' = [call EXCEPT ![c] = r]
    BY <1>1, <2>2 DEF AddGet
  <2>4. r.pc = "addLast"
    BY <2>2 DEF CallsInv, CallRecord
  <2>5. call' \in [Clients -> CallRecord] /\ call'[c] = r /\ \A d \in Clients \ {c} : call'[d] = call[d]
    BY <2>3, BeginIs DEF CallsInv
  <2>6. CallFits(c)'
    BY <2>4, <2>5 DEF CallFits, HasPrompt, Marked, Starting, Injects
  <2>. QED  BY <2>1, <2>5, <2>6, ReadKeepsCalls
<1>4. CASE AddLast(c)
  <2>1. PICK at \in AddPositions \cup {LastPosition + 1} :
           call' = [call EXCEPT ![c].pc = "addInsert", ![c].at = at]
    BY <1>4 DEF AddLast
  <2>2. at \in Int /\ UNCHANGED vars
    BY <1>4, PositionsAssumption, LastPositionType DEF AddLast, CallsInv, RowsOK
  <2>3. PICK r \in CallRecord : r = [call[c] EXCEPT !.pc = "addInsert", !.at = at]
    BY <2>2 DEF CallsInv, CallRecord
  <2>4. call' = [call EXCEPT ![c] = r]
    BY <2>1, <2>3
  <2>5. r.pc = "addInsert"
    BY <2>3 DEF CallsInv, CallRecord
  <2>6. call' \in [Clients -> CallRecord] /\ call'[c] = r /\ \A d \in Clients \ {c} : call'[d] = call[d]
    BY <2>4, BeginIs DEF CallsInv
  <2>7. CallFits(c)'
    BY <2>5, <2>6 DEF CallFits, HasPrompt, Marked, Starting, Injects
  <2>. QED  BY <2>2, <2>6, <2>7, ReadKeepsCalls
<1>2. CASE AddInsert(c)
  <2>1. CASE ~QueueExists \/ Listed = Prompt
    <3>1. Return(c) /\ UNCHANGED vars
      BY <1>2, <2>1 DEF AddInsert, Listed
    <3>. QED  BY <3>1, ReturnIs, ReturnFits, ReadKeepsCalls DEF CallsInv
  <2>2. CASE QueueExists /\ Listed # Prompt
    <3>1. PICK p \in Prompt \ Listed :
             /\ status' = [status EXCEPT ![p] = "PENDING"]
             /\ position' = [position EXCEPT ![p] = call[c].at]
      BY <1>2, <2>2 DEF AddInsert
    <3>2. UNCHANGED <<queue, started, target, delivered>>
      BY <1>2, <2>2 DEF AddInsert
    <3>3. call[c].at \in Int
      BY DEF CallsInv, CallRecord
    <3>4. status[p] = "NONE" /\ queue \notin {"NONE", "DELETED"} /\ delivered[p] = 0
      BY <3>1, <2>2 DEF Listed, QueueExists, CallsInv, RowsOK, NoOrphans
    <3>5. TypeOK'
      BY <3>1, <3>2, <3>3 DEF CallsInv, RowsOK, TypeOK
    <3>6. /\ status'[p] = "PENDING"
          /\ \A q \in Prompt \ {p} : status'[q] = status[q]
      BY <3>1 DEF CallsInv, RowsOK, TypeOK
    <3>7. RowsOK' /\ Kept
      <4>1. NoOrphans'
        BY <3>2, <3>4, <3>6 DEF CallsInv, RowsOK, NoOrphans, QueueExists, Listed
      <4>2. HistoryIsTrue' /\ \A q \in Prompt : status'[q] = "WAITING_COMPLETION" => delivered'[q] >= 1
        BY <3>2, <3>4, <3>6 DEF CallsInv, RowsOK, HistoryIsTrue
      <4>3. \A q \in Prompt : delivered[q] <= delivered'[q]
        BY <3>2 DEF CallsInv, RowsOK, TypeOK
      <4>4. Kept
        BY <3>2, <3>4, <3>6, <4>3 DEF Kept
      <4>. QED  BY <3>5, <4>1, <4>2, <4>4 DEF RowsOK
    <3>8. Goto(c, "addReady") \/ Return(c)
      BY <1>2, <2>2 DEF AddInsert
    <3>9. call' \in [Clients -> CallRecord] /\ call'[c].pc \in {"addReady", "idle"}
          /\ \A d \in Clients \ {c} : call'[d] = call[d]
      BY <3>8, ReturnIs, GotoIs DEF CallsInv
    <3>10. CallFits(c)'
      BY <3>9 DEF CallFits, HasPrompt, Marked, Starting, Injects
    <3>. QED  BY <3>7, <3>9, <3>10, WriteKeepsCalls
  <2>. QED  BY <2>1, <2>2
<1>3. CASE AddReady(c)
  <2>1. SetQueue("READY") /\ Return(c) /\ UNCHANGED queueOnly
    BY <1>3 DEF AddReady
  <2>2. RowsOK' /\ Kept
    BY <2>1, QueueWrite DEF queueOnly, CallsInv, RowsOK, TypeOK
  <2>. QED  BY <2>1, <2>2, ReturnIs, ReturnFits, WriteKeepsCalls DEF CallsInv
<1>. QED  BY <1>1, <1>2, <1>3, <1>4 DEF Adding

(* reorder_prompt. *)
LEMMA ReorderKeepsCalls ==
    ASSUME CallsInv, NEW c \in Clients, Reordering(c)
    PROVE  CallsInv'
<1>1. ASSUME NEW p \in Prompt, ReorderGet(c, p)
      PROVE  CallsInv'
  <2>1. status[p] = "PENDING" /\ UNCHANGED vars
    BY <1>1 DEF ReorderGet
  <2>2. PICK r \in CallRecord : r = [call[c] EXCEPT !.pc = "reorder", !.cur = p]
    BY PromptIsId DEF CallsInv, CallRecord
  <2>3. call' = [call EXCEPT ![c] = r]
    BY <1>1, <2>2 DEF ReorderGet
  <2>4. r.pc = "reorder" /\ r.cur = p
    BY <2>2 DEF CallsInv, CallRecord
  <2>5. call' \in [Clients -> CallRecord] /\ call'[c] = r /\ \A d \in Clients \ {c} : call'[d] = call[d]
    BY <2>3, BeginIs DEF CallsInv
  <2>6. CallFits(c)'
    BY <2>1, <2>4, <2>5 DEF CallFits, HasPrompt, Marked, Starting, Injects, vars
  <2>. QED  BY <2>1, <2>5, <2>6, ReadKeepsCalls
<1>2. ASSUME NEW n \in NewPositions, ReorderList(c, n)
      PROVE  CallsInv'
  <2>1. call[c].pc = "reorder" /\ UNCHANGED vars
    BY <1>2 DEF ReorderList, At
  <2>2. call[c].cur \in Prompt /\ n \in Int /\ TypeOK
    BY <2>1, PositionsAssumption DEF CallsInv, CallFits, HasPrompt, RowsOK
  <2>3. CASE status[call[c].cur] = "NONE"
    BY <1>2, <2>1, <2>3, ReturnIs, ReturnFits, ReadKeepsCalls DEF ReorderList, CallsInv
  <2>4. CASE status[call[c].cur] # "NONE"
    <3>1. PICK places \in [Prompt -> Int] : places = Renumbered(call[c].cur, n)
      BY <2>2, <2>4, RenumberedKeepsOrder
    <3>2. PICK r \in CallRecord : r = [call[c] EXCEPT !.pc = "reorderSet", !.places = places]
      BY DEF CallsInv, CallRecord
    <3>3. call' = [call EXCEPT ![c] = r]
      BY <1>2, <2>4, <3>1, <3>2 DEF ReorderList
    <3>4. r.pc = "reorderSet" /\ r.cur = call[c].cur
      BY <3>2 DEF CallsInv, CallRecord
    <3>5. call' \in [Clients -> CallRecord] /\ call'[c] = r /\ \A d \in Clients \ {c} : call'[d] = call[d]
      BY <3>3, BeginIs DEF CallsInv
    <3>6. CallFits(c)'
      BY <2>1, <2>2, <2>4, <3>4, <3>5 DEF CallFits, HasPrompt, Marked, Starting, Injects, vars
    <3>. QED  BY <2>1, <3>5, <3>6, ReadKeepsCalls
  <2>. QED  BY <2>3, <2>4
<1>3. CASE ReorderSet(c)
  <2>1. Return(c) /\ UNCHANGED <<queue, started, target, status, delivered>>
    BY <1>3 DEF ReorderSet
  <2>2. TypeOK /\ call[c].places \in [Prompt -> Int]
    BY DEF CallsInv, RowsOK, CallRecord
  <2>3. position' \in [Prompt -> Int]
    BY <1>3, <2>2 DEF ReorderSet, TypeOK
  <2>4. RowsOK'
    BY <2>1, <2>3 DEF CallsInv, RowsOK, TypeOK, NoOrphans, QueueExists, Listed, HistoryIsTrue
  <2>5. Kept
    BY <2>1 DEF Kept, CallsInv, RowsOK, TypeOK
  <2>. QED  BY <2>1, <2>4, <2>5, ReturnIs, ReturnFits, WriteKeepsCalls DEF CallsInv
<1>. QED  BY <1>1, <1>2, <1>3 DEF Reordering

(* create_queue, delete_queue and the app-target switches. *)
LEMMA SingleKeepsCalls ==
    ASSUME CallsInv, NEW c \in Clients, SingleWrite(c)
    PROVE  CallsInv'
<1>0. call' = call /\ At(c, "idle")
  BY DEF SingleWrite
<1>1. CASE CreateQueue
  <2>1. RowsOK'
    BY <1>1 DEF CreateQueue, CallsInv, RowsOK, TypeOK, NoOrphans, QueueExists, Listed, HistoryIsTrue
  <2>2. Kept
    BY <1>1 DEF CreateQueue, Kept, CallsInv, RowsOK, TypeOK
  <2>. QED  BY <1>0, <2>1, <2>2, ReturnFits, WriteKeepsCalls DEF CallsInv, At
<1>2. CASE DeleteQueue
  <2>1. RowsOK'
    BY <1>2 DEF DeleteQueue, CallsInv, RowsOK, TypeOK, NoOrphans, QueueExists, Listed, HistoryIsTrue
  <2>2. Kept
    BY <1>2 DEF DeleteQueue, Kept, CallsInv, RowsOK, TypeOK
  <2>. QED  BY <1>0, <2>1, <2>2, ReturnFits, WriteKeepsCalls DEF CallsInv, At
<1>3. CASE SetTargetStatus
  <2>1. RowsOK'
    BY <1>3 DEF SetTargetStatus, CallsInv, RowsOK, TypeOK, NoOrphans, QueueExists, Listed, HistoryIsTrue
  <2>2. Kept
    BY <1>3 DEF SetTargetStatus, Kept, CallsInv, RowsOK, TypeOK
  <2>. QED  BY <1>0, <2>1, <2>2, ReturnFits, WriteKeepsCalls DEF CallsInv, At
<1>. QED  BY <1>1, <1>2, <1>3 DEF SingleWrite

(* inject_current_prompt: the marked prompt is never PENDING again, and one  *)
(* that waits was delivered.                                                *)
LEMMA InjectKeepsCalls ==
    ASSUME CallsInv, NEW c \in Clients, Injecting(c)
    PROVE  CallsInv'
<1>0. /\ call \in [Clients -> CallRecord] /\ call[c] \in CallRecord
      /\ RowsOK /\ CallFits(c)
  BY DEF CallsInv
<1>1. CASE InjectGetQueue(c)
  <2>1. queue \in {"DRAFT", "READY", "RUNNING"} /\ UNCHANGED vars /\ c \in Injectors
    BY <1>0, <1>1 DEF InjectGetQueue, RowsOK, TypeOK, QueueTerminal, QueueExists
  <2>2. PICK r \in CallRecord : r = [call[c] EXCEPT !.pc = "injectTarget", !.seen = queue]
    BY <1>0, <2>1 DEF CallRecord
  <2>3. call' = [call EXCEPT ![c] = r]
    BY <1>1, <2>2 DEF InjectGetQueue
  <2>4. r.pc = "injectTarget"
    BY <1>0, <2>2 DEF CallRecord
  <2>5. call' \in [Clients -> CallRecord] /\ call'[c] = r /\ \A d \in Clients \ {c} : call'[d] = call[d]
    BY <1>0, <2>3, BeginIs
  <2>6. CallFits(c)'
    BY <2>1, <2>4, <2>5 DEF CallFits, HasPrompt, Marked, Starting, Injects
  <2>. QED  BY <2>1, <2>5, <2>6, ReadKeepsCalls
<1>2. CASE InjectGetTarget(c)
  <2>1. UNCHANGED vars /\ (Goto(c, "injectCurrent") \/ Return(c)) /\ call[c].pc = "injectTarget"
    BY <1>2 DEF InjectGetTarget, At
  <2>2. call' \in [Clients -> CallRecord] /\ call'[c].pc \in {"injectCurrent", "idle"}
        /\ \A d \in Clients \ {c} : call'[d] = call[d]
    BY <1>0, <2>1, ReturnIs, GotoIs
  <2>3. CallFits(c)'
    BY <1>0, <2>1, <2>2 DEF CallFits, HasPrompt, Marked, Starting, Injects
  <2>. QED  BY <2>1, <2>2, <2>3, ReadKeepsCalls
<1>3. CASE InjectGetCurrent(c)
  <2>1. UNCHANGED vars /\ call[c].pc = "injectCurrent"
    BY <1>3 DEF InjectGetCurrent, At
  <2>2. CASE Live(status) # {} /\ status[Current] \in PromptInjectable
    <3>1. Current \in Prompt /\ status[Current] # "NONE"
      BY <1>0, <2>2, CurrentIsLive DEF RowsOK
    <3>2. PICK r \in CallRecord :
             r = [call[c] EXCEPT !.pc = "injectActive", !.cur = Current, !.was = status[Current]]
      BY <1>0, <2>2, <3>1, PromptIsId DEF CallRecord, PromptInjectable
    <3>3. call' = [call EXCEPT ![c] = r]
      BY <1>3, <2>2, <3>2 DEF InjectGetCurrent
    <3>4. r.pc = "injectActive" /\ r.cur = Current
      BY <1>0, <3>2 DEF CallRecord
    <3>5. call' \in [Clients -> CallRecord] /\ call'[c] = r /\ \A d \in Clients \ {c} : call'[d] = call[d]
      BY <1>0, <3>3, BeginIs
    <3>6. CallFits(c)'
      BY <1>0, <2>1, <3>1, <3>4, <3>5 DEF CallFits, HasPrompt, Marked, Starting, Injects, vars
    <3>. QED  BY <2>1, <3>5, <3>6, ReadKeepsCalls
  <2>3. CASE ~(Live(status) # {} /\ status[Current] \in PromptInjectable)
    <3>1. Return(c)
      BY <1>3, <2>3 DEF InjectGetCurrent
    <3>. QED  BY <1>0, <2>1, <3>1, ReturnIs, ReturnFits, ReadKeepsCalls
  <2>. QED  BY <2>2, <2>3
<1>4. CASE InjectCheckActive(c)
  <2>1. /\ UNCHANGED vars /\ call[c].pc = "injectActive"
        /\ Goto(c, "injectStart") \/ Goto(c, "injectMark") \/ Return(c)
    BY <1>4 DEF InjectCheckActive, At
  <2>2. call' \in [Clients -> CallRecord] /\ \A d \in Clients \ {c} : call'[d] = call[d]
    BY <1>0, <2>1, ReturnIs, GotoIs
  <2>3. call'[c].pc = "idle" \/ (call'[c].pc \in {"injectStart", "injectMark"} /\ call'[c].cur = call[c].cur)
    BY <1>0, <2>1, ReturnIs, GotoIs
  <2>4. CallFits(c)'
    BY <1>0, <2>1, <2>3 DEF CallFits, HasPrompt, Marked, Starting, Injects, vars
  <2>. QED  BY <2>1, <2>2, <2>4, ReadKeepsCalls
<1>5. CASE InjectStart(c)
  <2>1. /\ SetQueue("RUNNING") /\ call[c].pc = "injectStart" /\ Goto(c, "injectMark")
        /\ started' \in BOOLEAN /\ UNCHANGED <<target, status, position, delivered>>
    BY <1>0, <1>5 DEF InjectStart, At, RowsOK, TypeOK
  <2>2. RowsOK' /\ Kept
    BY <1>0, <2>1, QueueWrite
  <2>3. /\ call' \in [Clients -> CallRecord] /\ \A d \in Clients \ {c} : call'[d] = call[d]
        /\ call'[c].pc = "injectMark" /\ call'[c].cur = call[c].cur
    BY <1>0, <2>1, GotoIs
  <2>4. CallFits(c)'
    BY <1>0, <2>1, <2>2, <2>3 DEF CallFits, HasPrompt, Marked, Starting, Injects, Kept
  <2>. QED  BY <2>2, <2>3, <2>4, WriteKeepsCalls
<1>6. CASE InjectMark(c)
  <2>1. /\ SetPrompt(call[c].cur, "INJECTING") /\ call[c].pc = "injectMark" /\ Goto(c, "injectPaste")
        /\ UNCHANGED promptOnly
    BY <1>6 DEF InjectMark, At
  <2>2. call[c].cur \in Prompt /\ (status[call[c].cur] # "NONE" \/ queue = "DELETED")
    BY <1>0, <2>1 DEF CallFits, HasPrompt, Starting
  <2>3. /\ RowsOK' /\ Kept
        /\ status[call[c].cur] = "NONE" => status' = status
        /\ status[call[c].cur] # "NONE" => status'[call[c].cur] = "INJECTING"
    BY <1>0, <2>1, <2>2, PromptWrite
  <2>4. /\ call' \in [Clients -> CallRecord] /\ \A d \in Clients \ {c} : call'[d] = call[d]
        /\ call'[c].pc = "injectPaste" /\ call'[c].cur = call[c].cur
    BY <1>0, <2>1, GotoIs
  <2>5. CallFits(c)'
    BY <1>0, <2>1, <2>2, <2>3, <2>4 DEF CallFits, HasPrompt, Marked, Starting, Injects, Kept
  <2>. QED  BY <2>3, <2>4, <2>5, WriteKeepsCalls
<1>7. CASE InjectPaste(c)
  <2> DEFINE p == call[c].cur
  <2>1. call[c].pc = "injectPaste" /\ UNCHANGED <<queue, started, target, status, position>>
    BY <1>7 DEF InjectPaste, At
  <2>2. p \in Prompt /\ (status[p] # "NONE" \/ queue = "DELETED") /\ status[p] # "PENDING"
    BY <1>0, <2>1 DEF CallFits, HasPrompt, Marked
  <2>3. \/ delivered' = [delivered EXCEPT ![p] = @ + 1] /\ (Goto(c, "injectSubmit") \/ Return(c))
        \/ delivered' = delivered /\ (Goto(c, "injectRevert") \/ Return(c))
    BY <1>7 DEF InjectPaste
  <2>4. /\ call' \in [Clients -> CallRecord] /\ \A d \in Clients \ {c} : call'[d] = call[d]
        /\ \/ call'[c].pc = "idle"
           \/ call'[c].pc = "injectSubmit" /\ call'[c].cur = p /\ delivered' = [delivered EXCEPT ![p] = @ + 1]
           \/ call'[c].pc = "injectRevert" /\ call'[c].cur = p
    BY <1>0, <2>3, ReturnIs, GotoIs
  <2> HIDE DEF p
  <2>5. /\ delivered \in [Prompt -> Nat] /\ delivered' \in [Prompt -> Nat]
        /\ \A q \in Prompt : delivered[q] <= delivered'[q]
        /\ \A q \in Prompt \ {p} : delivered'[q] = delivered[q]
        /\ delivered' = [delivered EXCEPT ![p] = @ + 1] => delivered'[p] >= 1
    BY <1>0, <2>2, <2>3 DEF RowsOK, TypeOK
  <2>6. RowsOK'
    <3>1. TypeOK'
      BY <1>0, <2>1, <2>5 DEF RowsOK, TypeOK
    <3>2. NoOrphans'
      BY <1>0, <2>1, <2>2, <2>5 DEF RowsOK, NoOrphans, QueueExists, Listed
    <3>3. HistoryIsTrue'
      <4>1. ASSUME NEW q \in Prompt
            PROVE  /\ status[q] = "DONE" => delivered'[q] >= 1
                   /\ status[q] = "PENDING" => delivered'[q] = 0
        BY <1>0, <2>2, <2>5 DEF RowsOK, HistoryIsTrue
      <4>. QED  BY <2>1, <4>1 DEF HistoryIsTrue
    <3>4. \A q \in Prompt : status'[q] = "WAITING_COMPLETION" => delivered'[q] >= 1
      BY <1>0, <2>1, <2>5 DEF RowsOK
    <3>. QED  BY <3>1, <3>2, <3>3, <3>4 DEF RowsOK
  <2>7. Kept
    BY <2>1, <2>5 DEF Kept
  <2>8. CallFits(c)'
    BY <1>0, <2>1, <2>2, <2>4, <2>5 DEF CallFits, HasPrompt, Marked, Starting, Injects
  <2>. QED  BY <2>4, <2>6, <2>7, <2>8, WriteKeepsCalls
<1>8. CASE InjectSubmit(c) \/ InjectRevert(c)
  <2>1. PICK value \in {"WAITING_COMPLETION", "READY_TO_INJECT"} :
           SetPrompt(call[c].cur, value) /\ (value = "WAITING_COMPLETION" => call[c].pc = "injectSubmit")
    BY <1>8 DEF InjectSubmit, InjectRevert, At
  <2>2. Return(c) /\ UNCHANGED promptOnly /\ call[c].pc \in {"injectSubmit", "injectRevert"}
    BY <1>8 DEF InjectSubmit, InjectRevert, At
  <2>3. call[c].cur \in Prompt /\ (value = "WAITING_COMPLETION" => delivered[call[c].cur] >= 1)
    BY <1>0, <2>1, <2>2 DEF CallFits, HasPrompt, Marked
  <2>4. RowsOK' /\ Kept
    BY <1>0, <2>1, <2>2, <2>3, PromptWrite
  <2>. QED  BY <1>0, <2>2, <2>4, ReturnIs, ReturnFits, WriteKeepsCalls
<1>. QED  BY <1>1, <1>2, <1>3, <1>4, <1>5, <1>6, <1>7, <1>8 DEF Injecting

(* mark_current_complete, skip_current_prompt and _advance_queue.            *)
LEMMA FinishKeepsCalls ==
    ASSUME CallsInv, NEW c \in Clients, Finishing(c)
    PROVE  CallsInv'
<1>0. /\ call \in [Clients -> CallRecord] /\ call[c] \in CallRecord
      /\ RowsOK /\ TypeOK /\ CallFits(c)
  BY DEF CallsInv, RowsOK
<1>1. CASE CompleteGet(c) \/ SkipGet(c)
  <2>1. PICK pc \in {"complete", "skip"} :
           /\ call' = [call EXCEPT ![c].pc = pc, ![c].cur = Current]
           /\ Live(status) # {} /\ (pc = "complete" => status[Current] = "WAITING_COMPLETION")
           /\ UNCHANGED vars
    BY <1>1 DEF CompleteGet, SkipGet
  <2>2. Current \in Prompt /\ status[Current] # "NONE"
    BY <1>0, <2>1, CurrentIsLive
  <2>3. PICK r \in CallRecord : r = [call[c] EXCEPT !.pc = pc, !.cur = Current]
    BY <1>0, <2>2, PromptIsId DEF CallRecord
  <2>4. call' = [call EXCEPT ![c] = r]
    BY <2>1, <2>3
  <2>5. r.pc = pc /\ r.cur = Current
    BY <1>0, <2>3 DEF CallRecord
  <2>6. call' \in [Clients -> CallRecord] /\ call'[c] = r /\ \A d \in Clients \ {c} : call'[d] = call[d]
    BY <1>0, <2>4, BeginIs
  <2>7. pc = "complete" => delivered[Current] >= 1
    BY <1>0, <2>1, <2>2 DEF RowsOK
  <2>8. CallFits(c)'
    BY <2>1, <2>2, <2>5, <2>6, <2>7 DEF CallFits, HasPrompt, Marked, Starting, Injects, vars
  <2>. QED  BY <2>1, <2>6, <2>8, ReadKeepsCalls
<1>2. CASE FinishSet(c)
  <2>1. PICK outcome \in {"DONE", "SKIPPED"} :
           SetPrompt(call[c].cur, outcome) /\ (outcome = "DONE" => call[c].pc = "complete")
    BY <1>2 DEF FinishSet, At
  <2>2. /\ UNCHANGED promptOnly /\ call[c].pc \in {"complete", "skip"}
        /\ call' = [call EXCEPT ![c] = [Idle EXCEPT !.pc = "advance"]]
    BY <1>2 DEF FinishSet, At
  <2>3. call[c].cur \in Prompt /\ (outcome = "DONE" => delivered[call[c].cur] >= 1)
    BY <1>0, <2>1, <2>2 DEF CallFits, HasPrompt
  <2>4. RowsOK' /\ Kept
    BY <1>0, <2>1, <2>2, <2>3, PromptWrite
  <2>5. PICK r \in CallRecord : r = [Idle EXCEPT !.pc = "advance"]
    BY IdleIs DEF CallRecord
  <2>6. r.pc = "advance"
    BY <2>5, IdleIs DEF CallRecord
  <2>7. call' \in [Clients -> CallRecord] /\ call'[c] = r /\ \A d \in Clients \ {c} : call'[d] = call[d]
    BY <1>0, <2>2, <2>5, BeginIs
  <2>8. CallFits(c)'
    BY <2>6, <2>7 DEF CallFits, HasPrompt, Marked, Starting, Injects
  <2>. QED  BY <2>4, <2>7, <2>8, WriteKeepsCalls
<1>3. CASE AdvanceNext(c)
  <2>1. UNCHANGED vars
    BY <1>3 DEF AdvanceNext
  <2>2. CASE Pending(status) = {}
    <3>1. Goto(c, "advanceCheck")
      BY <1>3, <2>2 DEF AdvanceNext
    <3>2. call' \in [Clients -> CallRecord] /\ call'[c].pc = "advanceCheck"
          /\ \A d \in Clients \ {c} : call'[d] = call[d]
      BY <1>0, <3>1, GotoIs
    <3>3. CallFits(c)'
      BY <3>2 DEF CallFits, HasPrompt, Marked, Starting, Injects
    <3>. QED  BY <2>1, <3>2, <3>3, ReadKeepsCalls
  <2>3. CASE Pending(status) # {}
    <3> DEFINE next == First(Pending(status))
    <3>1. next \in Prompt /\ status[next] = "PENDING"
      BY <1>0, <2>3, FirstIsLeast DEF Pending
    <3>2. call' = [call EXCEPT ![c].pc = "advanceReady", ![c].cur = next]
      BY <1>3, <2>3 DEF AdvanceNext
    <3> HIDE DEF next
    <3>3. PICK r \in CallRecord : r = [call[c] EXCEPT !.pc = "advanceReady", !.cur = next]
      BY <1>0, <3>1, PromptIsId DEF CallRecord
    <3>4. call' = [call EXCEPT ![c] = r]
      BY <3>2, <3>3
    <3>5. r.pc = "advanceReady" /\ r.cur = next
      BY <1>0, <3>3 DEF CallRecord
    <3>6. call' \in [Clients -> CallRecord] /\ call'[c] = r /\ \A d \in Clients \ {c} : call'[d] = call[d]
      BY <1>0, <3>4, BeginIs
    <3>7. CallFits(c)'
      BY <2>1, <3>1, <3>5, <3>6 DEF CallFits, HasPrompt, Marked, Starting, Injects, vars
    <3>. QED  BY <2>1, <3>6, <3>7, ReadKeepsCalls
  <2>. QED  BY <2>2, <2>3
<1>4. CASE AdvanceReady(c)
  <2>1. SetPrompt(call[c].cur, "READY_TO_INJECT") /\ Return(c) /\ UNCHANGED promptOnly
        /\ call[c].pc = "advanceReady"
    BY <1>4 DEF AdvanceReady, At
  <2>2. call[c].cur \in Prompt
    BY <1>0, <2>1 DEF CallFits, HasPrompt
  <2>3. RowsOK' /\ Kept
    BY <1>0, <2>1, <2>2, PromptWrite
  <2>. QED  BY <1>0, <2>1, <2>3, ReturnIs, ReturnFits, WriteKeepsCalls
<1>5. CASE AdvanceCheck(c) \/ AdvanceQueue(c)
  <2>1. UNCHANGED vars /\ (Goto(c, "advanceQueue") \/ Goto(c, "advanceDone") \/ Return(c))
    BY <1>5 DEF AdvanceCheck, AdvanceQueue
  <2>2. call' \in [Clients -> CallRecord] /\ \A d \in Clients \ {c} : call'[d] = call[d]
    BY <1>0, <2>1, ReturnIs, GotoIs
  <2>3. call'[c].pc \in {"idle", "advanceQueue", "advanceDone"}
    BY <1>0, <2>1, ReturnIs, GotoIs
  <2>4. CallFits(c)'
    BY <2>3 DEF CallFits, HasPrompt, Marked, Starting, Injects
  <2>. QED  BY <2>1, <2>2, <2>4, ReadKeepsCalls
<1>6. CASE AdvanceDone(c)
  <2>1. SetQueue("DONE") /\ Return(c) /\ UNCHANGED queueOnly
    BY <1>6 DEF AdvanceDone
  <2>2. RowsOK' /\ Kept
    BY <1>0, <2>1, QueueWrite DEF queueOnly, TypeOK
  <2>. QED  BY <1>0, <2>1, <2>2, ReturnIs, ReturnFits, WriteKeepsCalls
<1>. QED  BY <1>1, <1>2, <1>3, <1>4, <1>5, <1>6 DEF Finishing

(* pause_queue, resume_queue and cancel_queue.                               *)
LEMMA SwitchKeepsCalls ==
    ASSUME CallsInv, NEW c \in Clients, Switching(c)
    PROVE  CallsInv'
<1>0. /\ call \in [Clients -> CallRecord] /\ call[c] \in CallRecord
      /\ RowsOK /\ TypeOK /\ CallFits(c)
  BY DEF CallsInv, RowsOK
<1>1. CASE PauseGet(c) \/ ResumeGet(c)
  <2>1. UNCHANGED vars /\ \E s \in {"PAUSED", "RUNNING", "READY"} :
           call' = [call EXCEPT ![c].pc = "switch", ![c].seen = s]
    BY <1>1 DEF PauseGet, ResumeGet
  <2>2. PICK s \in {"PAUSED", "RUNNING", "READY"} :
           call' = [call EXCEPT ![c].pc = "switch", ![c].seen = s]
    BY <2>1
  <2>3. PICK r \in CallRecord : r = [call[c] EXCEPT !.pc = "switch", !.seen = s]
    BY <1>0 DEF CallRecord
  <2>4. call' = [call EXCEPT ![c] = r] /\ r.pc = "switch" /\ r.seen = s
    BY <1>0, <2>2, <2>3 DEF CallRecord
  <2>5. call' \in [Clients -> CallRecord] /\ call'[c] = r /\ \A d \in Clients \ {c} : call'[d] = call[d]
    BY <1>0, <2>4, BeginIs
  <2>6. CallFits(c)'
    BY <2>4, <2>5 DEF CallFits, HasPrompt, Marked, Starting, Injects
  <2>. QED  BY <2>1, <2>5, <2>6, ReadKeepsCalls
<1>2. CASE SwitchSet(c)
  <2>1. SetQueue(call[c].seen) /\ Return(c) /\ UNCHANGED queueOnly
        /\ call[c].seen \in {"READY", "RUNNING", "PAUSED"}
    BY <1>0, <1>2 DEF SwitchSet, At, CallFits
  <2>2. RowsOK' /\ Kept
    BY <1>0, <2>1, QueueWrite DEF queueOnly, TypeOK
  <2>. QED  BY <1>0, <2>1, <2>2, ReturnIs, ReturnFits, WriteKeepsCalls
<1>3. CASE CancelGet(c)
  <2>1. UNCHANGED vars /\ Goto(c, "cancelList")
    BY <1>3 DEF CancelGet
  <2>2. call' \in [Clients -> CallRecord] /\ call'[c].pc = "cancelList"
        /\ \A d \in Clients \ {c} : call'[d] = call[d]
    BY <1>0, <2>1, GotoIs
  <2>3. CallFits(c)'
    BY <2>2 DEF CallFits, HasPrompt, Marked, Starting, Injects
  <2>. QED  BY <2>1, <2>2, <2>3, ReadKeepsCalls
<1>4. CASE CancelList(c)
  <2>1. UNCHANGED vars /\ call' = [call EXCEPT ![c].pc = "cancel", ![c].todo = Live(status)]
    BY <1>4 DEF CancelList
  <2>2. PICK r \in CallRecord : r = [call[c] EXCEPT !.pc = "cancel", !.todo = Live(status)]
    BY <1>0 DEF CallRecord, Live
  <2>3. call' = [call EXCEPT ![c] = r]
    BY <2>1, <2>2
  <2>4. r.pc = "cancel"
    BY <1>0, <2>2 DEF CallRecord
  <2>5. call' \in [Clients -> CallRecord] /\ call'[c] = r /\ \A d \in Clients \ {c} : call'[d] = call[d]
    BY <1>0, <2>3, BeginIs
  <2>6. CallFits(c)'
    BY <2>4, <2>5 DEF CallFits, HasPrompt, Marked, Starting, Injects
  <2>. QED  BY <2>1, <2>5, <2>6, ReadKeepsCalls
<1>5. CASE CancelOne(c)
  <2>1. PICK p \in call[c].todo :
           SetPrompt(p, "CANCELLED") /\ call' = [call EXCEPT ![c].todo = @ \ {p}]
    BY <1>5 DEF CancelOne
  <2>2. UNCHANGED promptOnly /\ call[c].pc = "cancel" /\ p \in Prompt
    BY <1>0, <1>5, <2>1 DEF CancelOne, At, CallRecord
  <2>3. RowsOK' /\ Kept
    BY <1>0, <2>1, <2>2, PromptWrite
  <2>4. PICK r \in CallRecord : r = [call[c] EXCEPT !.todo = @ \ {p}]
    BY <1>0 DEF CallRecord
  <2>5. call' = [call EXCEPT ![c] = r] /\ r.pc = "cancel"
    BY <1>0, <2>1, <2>2, <2>4 DEF CallRecord
  <2>6. call' \in [Clients -> CallRecord] /\ call'[c] = r /\ \A d \in Clients \ {c} : call'[d] = call[d]
    BY <1>0, <2>5, BeginIs
  <2>7. CallFits(c)'
    BY <2>5, <2>6 DEF CallFits, HasPrompt, Marked, Starting, Injects
  <2>. QED  BY <2>3, <2>6, <2>7, WriteKeepsCalls
<1>6. CASE CancelSet(c)
  <2>1. SetQueue("CANCELLED") /\ Return(c) /\ UNCHANGED queueOnly
    BY <1>6 DEF CancelSet
  <2>2. RowsOK' /\ Kept
    BY <1>0, <2>1, QueueWrite DEF queueOnly, TypeOK
  <2>. QED  BY <1>0, <2>1, <2>2, ReturnIs, ReturnFits, WriteKeepsCalls
<1>. QED  BY <1>1, <1>2, <1>3, <1>4, <1>5, <1>6 DEF Switching

(* Before the first call there is no queue. *)
LEMMA InitCallsInv == CallsInit => CallsInv
<1>. SUFFICES ASSUME CallsInit PROVE CallsInv
  OBVIOUS
<1>1. Init /\ call = [c \in Clients |-> Idle]
  BY DEF CallsInit
<1>2. TypeOK /\ NoOrphans
  BY <1>1, InitIInv DEF IInv
<1>3. \A p \in Prompt : status[p] = "NONE"
  BY <1>1 DEF Init
<1>4. RowsOK
  BY <1>2, <1>3 DEF RowsOK, HistoryIsTrue
<1>5. call \in [Clients -> CallRecord] /\ \A c \in Clients : call[c].pc = "idle"
  BY <1>1, IdleIs
<1>6. \A c \in Clients : CallFits(c)
  BY <1>5 DEF CallFits, HasPrompt, Marked, Starting, Injects
<1>. QED  BY <1>4, <1>5, <1>6 DEF CallsInv

(* Every storage call of every client keeps the invariant, and so does death. *)
LEMMA NextKeepsCallsInv == CallsInv /\ [CallsNext]_callVars => CallsInv'
<1>. SUFFICES ASSUME CallsInv, [CallsNext]_callVars PROVE CallsInv'
  OBVIOUS
<1>1. CASE UNCHANGED callVars
  BY <1>1 DEF callVars, CallsInv, RowsOK, TypeOK, NoOrphans, QueueExists, Listed, HistoryIsTrue,
              CallFits
<1>2. ASSUME NEW c \in Clients, Step(c) PROVE CallsInv'
  <2>1. CASE Die(c)
    <3>1. UNCHANGED vars /\ Return(c)
      BY <2>1 DEF Die
    <3>. QED  BY <3>1, ReturnIs, ReturnFits, ReadKeepsCalls DEF CallsInv
  <2>. QED
    BY <1>2, <2>1, SingleKeepsCalls, AddKeepsCalls, ReorderKeepsCalls, InjectKeepsCalls,
       FinishKeepsCalls, SwitchKeepsCalls DEF Step
<1>. QED  BY <1>1, <1>2 DEF CallsNext

(* Every reachable state satisfies the invariant, for any number of clients, *)
(* all of which may inject and die.                                         *)
THEOREM CallsInvariance == CallsSpec => []CallsInv
BY InitCallsInv, NextKeepsCallsInv, PTL DEF CallsSpec

(* The rows and the calls keep their types, whoever is at work on them.      *)
THEOREM CallTypes == CallsSpec => []CallsTypeOK
<1>1. CallsInv => CallsTypeOK
  BY DEF CallsInv, RowsOK, CallsTypeOK, CallRecord
<1>. QED  BY <1>1, CallsInvariance, PTL

(* However calls interleave and die, no status claims an injection that did  *)
(* not happen nor denies one that did (prompt_queue.py: the prompt is marked *)
(* before the paste and set to WAITING_COMPLETION after it).                 *)
THEOREM RecordsOfPromptsAreTrue == CallsSpec => []HistoryIsTrue
<1>1. CallsInv => HistoryIsTrue
  BY DEF CallsInv, RowsOK
<1>. QED  BY <1>1, CallsInvariance, PTL

--------------------------------------------------------------------------------
(* Writing a status other than an active one makes no prompt active. *)
LEMMA QuietWrite ==
    ASSUME RowsOK, NEW p \in Prompt, NEW value, value \notin PromptActive, SetPrompt(p, value)
    PROVE  Active' \subseteq Active
<1>1. status' = IF status[p] = "NONE" THEN status ELSE [status EXCEPT ![p] = value]
  BY DEF SetPrompt
<1>2. \A q \in Prompt : status'[q] = status[q] \/ status'[q] = value
  BY <1>1 DEF RowsOK, TypeOK
<1>. QED  BY <1>2 DEF Active

(* Whatever is not an injection makes no prompt active and goes on elsewhere.*)
LEMMA OthersAreQuiet ==
    ASSUME CallsInv, NEW c \in Clients,
           SingleWrite(c) \/ Adding(c) \/ Reordering(c) \/ Finishing(c) \/ Switching(c) \/ Die(c)
    PROVE  /\ Active' \subseteq Active
           /\ \A d \in Clients \ {c} : call'[d] = call[d]
           /\ call'[c].pc \notin Starting \cup Marked
<1>0. /\ call \in [Clients -> CallRecord] /\ call[c] \in CallRecord
      /\ RowsOK /\ TypeOK /\ CallFits(c)
      /\ DOMAIN call = Clients /\ DOMAIN call[c] = {"pc", "seen", "cur", "was", "todo", "at", "places"}
  BY DEF CallsInv, RowsOK, CallRecord
<1>1. CASE SingleWrite(c)
  <2>1. call' = call /\ call[c].pc = "idle"
    BY <1>1 DEF SingleWrite, At
  <2>2. Active' \subseteq Active
    BY <1>1 DEF SingleWrite, CreateQueue, DeleteQueue, SetTargetStatus, Active, PromptActive
  <2>. QED  BY <2>1, <2>2 DEF Starting, Marked
<1>2. CASE Adding(c)
  <2>1. Active' \subseteq Active
    <3>1. CASE UNCHANGED status
      BY <3>1 DEF Active
    <3>2. CASE \E p \in Prompt : status' = [status EXCEPT ![p] = "PENDING"]
      BY <1>0, <3>2 DEF TypeOK, Active, PromptActive
    <3>. QED  BY <1>2, <3>1, <3>2 DEF Adding, AddGet, AddLast, AddInsert, AddReady, vars, queueOnly, Listed
  <2>2. \/ call' = [call EXCEPT ![c].pc = "addLast", ![c].seen = queue]
        \/ \E at : call' = [call EXCEPT ![c].pc = "addInsert", ![c].at = at]
        \/ Goto(c, "addReady") \/ Return(c)
    BY <1>2 DEF Adding, AddGet, AddLast, AddInsert, AddReady
  <2>3. \/ call'[c].pc \in {"addLast", "addInsert", "addReady", "idle"}
    BY <1>0, <2>2, ReturnIs, GotoIs
  <2>4. \A d \in Clients \ {c} : call'[d] = call[d]
    BY <1>0, <2>2, ReturnIs, GotoIs
  <2>. QED  BY <2>1, <2>3, <2>4 DEF Starting, Marked
<1>3. CASE Reordering(c)
  <2>1. UNCHANGED status
    BY <1>3 DEF Reordering, ReorderGet, ReorderList, ReorderSet, vars
  <2>2. \/ \E p \in Prompt : call' = [call EXCEPT ![c].pc = "reorder", ![c].cur = p]
        \/ \E places : call' = [call EXCEPT ![c].pc = "reorderSet", ![c].places = places]
        \/ Return(c)
    BY <1>3 DEF Reordering, ReorderGet, ReorderList, ReorderSet
  <2>3. call'[c].pc \in {"reorder", "reorderSet", "idle"} /\ \A d \in Clients \ {c} : call'[d] = call[d]
    BY <1>0, <2>2, ReturnIs
  <2>. QED  BY <2>1, <2>3 DEF Starting, Marked, Active
<1>4. CASE Finishing(c)
  <2>1. CASE CompleteGet(c) \/ SkipGet(c)
    <3>1. UNCHANGED vars /\ \E pc \in {"complete", "skip"} :
             call' = [call EXCEPT ![c].pc = pc, ![c].cur = Current]
      BY <2>1 DEF CompleteGet, SkipGet
    <3>2. call'[c].pc \in {"complete", "skip"} /\ \A d \in Clients \ {c} : call'[d] = call[d]
      BY <1>0, <3>1
    <3>. QED  BY <3>1, <3>2 DEF Starting, Marked, Active, vars
  <2>2. CASE FinishSet(c)
    <3>1. call[c].pc \in {"complete", "skip"} /\ \E v \in {"DONE", "SKIPPED"} : SetPrompt(call[c].cur, v)
      BY <2>2 DEF FinishSet, At
    <3>2. Active' \subseteq Active
      BY <1>0, <3>1, QuietWrite DEF CallFits, HasPrompt, PromptActive
    <3>3. call' = [call EXCEPT ![c] = [Idle EXCEPT !.pc = "advance"]]
      BY <2>2 DEF FinishSet
    <3>4. call'[c].pc = "advance" /\ \A d \in Clients \ {c} : call'[d] = call[d]
      BY <1>0, <3>3, IdleIs DEF CallRecord
    <3>. QED  BY <3>2, <3>4 DEF Starting, Marked
  <2>3. CASE AdvanceNext(c)
    <3>1. UNCHANGED vars /\ (\/ Goto(c, "advanceCheck")
                             \/ call' = [call EXCEPT ![c].pc = "advanceReady", ![c].cur = First(Pending(status))])
      BY <2>3 DEF AdvanceNext
    <3>2. call'[c].pc \in {"advanceCheck", "advanceReady"} /\ \A d \in Clients \ {c} : call'[d] = call[d]
      BY <1>0, <3>1, GotoIs
    <3>. QED  BY <3>1, <3>2 DEF Starting, Marked, Active, vars
  <2>4. CASE AdvanceReady(c)
    <3>1. call[c].pc = "advanceReady" /\ SetPrompt(call[c].cur, "READY_TO_INJECT") /\ Return(c)
      BY <2>4 DEF AdvanceReady, At
    <3>2. Active' \subseteq Active
      BY <1>0, <3>1, QuietWrite DEF CallFits, HasPrompt, PromptActive
    <3>. QED  BY <1>0, <3>1, <3>2, ReturnIs DEF Starting, Marked
  <2>5. CASE AdvanceCheck(c) \/ AdvanceQueue(c) \/ AdvanceDone(c)
    <3>1. UNCHANGED status /\ (Goto(c, "advanceQueue") \/ Goto(c, "advanceDone") \/ Return(c))
      BY <2>5 DEF AdvanceCheck, AdvanceQueue, AdvanceDone, vars, queueOnly
    <3>2. call'[c].pc \in {"advanceQueue", "advanceDone", "idle"} /\ \A d \in Clients \ {c} : call'[d] = call[d]
      BY <1>0, <3>1, ReturnIs, GotoIs
    <3>. QED  BY <3>1, <3>2 DEF Starting, Marked, Active
  <2>. QED  BY <1>4, <2>1, <2>2, <2>3, <2>4, <2>5 DEF Finishing
<1>5. CASE Switching(c)
  <2>1. CASE CancelOne(c)
    <3>1. PICK p \in call[c].todo :
             SetPrompt(p, "CANCELLED") /\ call' = [call EXCEPT ![c].todo = @ \ {p}]
      BY <2>1 DEF CancelOne
    <3>2. p \in Prompt /\ call[c].pc = "cancel"
      BY <1>0, <2>1, <3>1 DEF CancelOne, At, CallRecord
    <3>3. Active' \subseteq Active
      BY <1>0, <3>1, <3>2, QuietWrite DEF PromptActive
    <3>4. call'[c].pc = "cancel" /\ \A d \in Clients \ {c} : call'[d] = call[d]
      BY <1>0, <3>1, <3>2
    <3>. QED  BY <3>3, <3>4 DEF Starting, Marked
  <2>2. CASE PauseGet(c) \/ ResumeGet(c) \/ CancelList(c)
    <3>1. UNCHANGED vars /\ \/ \E s : call' = [call EXCEPT ![c].pc = "switch", ![c].seen = s]
                            \/ call' = [call EXCEPT ![c].pc = "cancel", ![c].todo = Live(status)]
      BY <2>2 DEF PauseGet, ResumeGet, CancelList
    <3>2. call'[c].pc \in {"switch", "cancel"} /\ \A d \in Clients \ {c} : call'[d] = call[d]
      BY <1>0, <3>1
    <3>. QED  BY <3>1, <3>2 DEF Starting, Marked, Active, vars
  <2>3. CASE SwitchSet(c) \/ CancelGet(c) \/ CancelSet(c)
    <3>1. UNCHANGED status /\ (Goto(c, "cancelList") \/ Return(c))
      BY <2>3 DEF SwitchSet, CancelGet, CancelSet, queueOnly, vars
    <3>2. call'[c].pc \in {"cancelList", "idle"} /\ \A d \in Clients \ {c} : call'[d] = call[d]
      BY <1>0, <3>1, ReturnIs, GotoIs
    <3>. QED  BY <3>1, <3>2 DEF Starting, Marked, Active
  <2>. QED  BY <1>5, <2>1, <2>2, <2>3 DEF Switching
<1>6. CASE Die(c)
  <2>1. UNCHANGED vars /\ Return(c)
    BY <1>6 DEF Die
  <2>. QED  BY <1>0, <2>1, ReturnIs DEF Starting, Marked, Active, vars
<1>. QED  BY <1>1, <1>2, <1>3, <1>4, <1>5, <1>6

(* The injecting client starts only when no prompt is active, and then makes *)
(* active the one it has marked.                                            *)
LEMMA InjectKeepsActive ==
    ASSUME CallsInv, ActiveInv, NEW c \in Clients, Injecting(c)
    PROVE  /\ \A d \in Clients \ {c} : call'[d] = call[d]
           /\ c \in Injectors
           /\ call'[c].pc \in Starting => Active' = {}
           /\ call'[c].pc \in Marked => Active' \subseteq {call'[c].cur}
           /\ Active' \subseteq Active \/ \E p \in Prompt : Active' \subseteq {p}
<1>0. /\ call \in [Clients -> CallRecord] /\ call[c] \in CallRecord
      /\ RowsOK /\ TypeOK /\ CallFits(c)
      /\ DOMAIN call = Clients /\ DOMAIN call[c] = {"pc", "seen", "cur", "was", "todo", "at", "places"}
      /\ call[c].pc \in Starting => Active = {}
      /\ call[c].pc \in Marked => Active \subseteq {call[c].cur}
  BY DEF CallsInv, RowsOK, CallRecord, ActiveInv
<1>1. c \in Injectors
  BY <1>0 DEF Injecting, InjectGetQueue, InjectGetTarget, InjectGetCurrent, InjectCheckActive,
              InjectStart, InjectMark, InjectPaste, InjectSubmit, InjectRevert, At, CallFits,
              Injects, Starting, Marked
<1>2. CASE InjectGetQueue(c) \/ InjectGetTarget(c) \/ InjectGetCurrent(c)
  <2>1. UNCHANGED vars /\ \/ call' = [call EXCEPT ![c].pc = "injectTarget", ![c].seen = queue]
                          \/ call' = [call EXCEPT ![c].pc = "injectActive", ![c].cur = Current,
                                                  ![c].was = status[Current]]
                          \/ Goto(c, "injectCurrent") \/ Return(c)
    BY <1>2 DEF InjectGetQueue, InjectGetTarget, InjectGetCurrent
  <2>2. call'[c].pc \in {"injectTarget", "injectActive", "injectCurrent", "idle"}
    BY <1>0, <2>1, ReturnIs, GotoIs
  <2>3. \A d \in Clients \ {c} : call'[d] = call[d]
    BY <1>0, <2>1, ReturnIs, GotoIs
  <2>. QED  BY <1>1, <2>1, <2>2, <2>3 DEF Starting, Marked, Active, vars
<1>3. CASE InjectCheckActive(c)
  <2>1. UNCHANGED vars /\ (Return(c) \/ (Active = {} /\ (Goto(c, "injectStart") \/ Goto(c, "injectMark"))))
    BY <1>3 DEF InjectCheckActive
  <2>2. Active' = Active
    BY <2>1 DEF Active, vars
  <2>3. /\ \A d \in Clients \ {c} : call'[d] = call[d]
        /\ call'[c].pc = "idle" \/ (call'[c].pc \in Starting /\ Active = {})
    BY <1>0, <2>1, ReturnIs, GotoIs DEF Starting
  <2>. QED  BY <1>1, <2>2, <2>3 DEF Starting, Marked
<1>4. CASE InjectStart(c)
  <2>1. call[c].pc = "injectStart" /\ UNCHANGED status /\ Goto(c, "injectMark")
    BY <1>4 DEF InjectStart, At
  <2>2. Active' = Active /\ Active = {}
    BY <1>0, <2>1 DEF Active, Starting
  <2>. QED  BY <1>0, <1>1, <2>1, <2>2, GotoIs DEF Starting, Marked
<1>5. CASE InjectMark(c) \/ InjectSubmit(c) \/ InjectRevert(c)
  <2>1. /\ call[c].pc \in {"injectMark", "injectSubmit", "injectRevert"}
        /\ \E v : SetPrompt(call[c].cur, v)
        /\ Goto(c, "injectPaste") \/ Return(c)
    BY <1>5 DEF InjectMark, InjectSubmit, InjectRevert, At
  <2>2. call[c].cur \in Prompt /\ Active \subseteq {call[c].cur}
    BY <1>0, <2>1 DEF CallFits, HasPrompt, Starting, Marked
  <2>3. \A q \in Prompt \ {call[c].cur} : status'[q] = status[q]
    BY <1>0, <2>1, <2>2 DEF SetPrompt, TypeOK
  <2>4. Active' \subseteq {call[c].cur}
    BY <2>2, <2>3 DEF Active
  <2>5. /\ \A d \in Clients \ {c} : call'[d] = call[d]
        /\ call'[c].pc = "idle" \/ (call'[c].pc = "injectPaste" /\ call'[c].cur = call[c].cur)
    BY <1>0, <2>1, ReturnIs, GotoIs
  <2>. QED  BY <1>1, <2>2, <2>4, <2>5 DEF Starting, Marked
<1>6. CASE InjectPaste(c)
  <2>1. call[c].pc = "injectPaste" /\ UNCHANGED status
        /\ (Goto(c, "injectSubmit") \/ Goto(c, "injectRevert") \/ Return(c))
    BY <1>6 DEF InjectPaste, At
  <2>2. Active' = Active /\ Active \subseteq {call[c].cur}
    BY <1>0, <2>1 DEF Active, Marked
  <2>3. /\ \A d \in Clients \ {c} : call'[d] = call[d]
        /\ call'[c].pc = "idle" \/ (call'[c].pc \in Marked /\ call'[c].cur = call[c].cur)
    BY <1>0, <2>1, ReturnIs, GotoIs DEF Marked
  <2>. QED  BY <1>1, <2>2, <2>3 DEF Starting, Marked
<1>. QED  BY <1>2, <1>3, <1>4, <1>5, <1>6 DEF Injecting

(* With one injector, any step keeps what its injection knows. *)
LEMMA NextKeepsActive ==
    ASSUME OneInjector
    PROVE  CallsInv /\ ActiveInv /\ [CallsNext]_callVars => ActiveInv'
<1>. SUFFICES ASSUME CallsInv, ActiveInv, [CallsNext]_callVars PROVE ActiveInv'
  OBVIOUS
<1>1. CASE UNCHANGED callVars
  BY <1>1 DEF callVars, ActiveInv, OneActive, Active
<1>2. ASSUME NEW c \in Clients, Injecting(c) PROVE ActiveInv'
  <2>1. \A d \in Clients \ {c} : call'[d].pc \notin Starting \cup Marked
    BY <1>2, InjectKeepsActive DEF OneInjector, CallsInv, CallFits, Injects
  <2>. QED  BY <1>2, <2>1, InjectKeepsActive DEF ActiveInv, OneActive
<1>3. ASSUME NEW c \in Clients, Step(c), ~Injecting(c) PROVE ActiveInv'
  <2>1. /\ Active' \subseteq Active
        /\ \A d \in Clients \ {c} : call'[d] = call[d]
        /\ call'[c].pc \notin Starting \cup Marked
    BY <1>3, OthersAreQuiet DEF Step
  <2>. QED  BY <2>1 DEF ActiveInv, OneActive
<1>. QED  BY <1>1, <1>2, <1>3 DEF CallsNext

(* With one injecting client, who may die anywhere, no second prompt becomes *)
(* active behind the check in inject_current_prompt, whatever the others do *)
(* meanwhile (prompt_queue.py:248).                                         *)
THEOREM OnlyOneActiveAmongCalls ==
    ASSUME OneInjector
    PROVE  CallsSpec => []OneActive
<1>1. CallsInit => ActiveInv
  <2>. SUFFICES ASSUME CallsInit PROVE ActiveInv
    OBVIOUS
  <2>1. OneActive /\ \A c \in Clients : call[c].pc = "idle"
    BY InitIInv, IdleIs DEF CallsInit, IInv
  <2>. QED  BY <2>1 DEF ActiveInv, Starting, Marked
<1>2. ActiveInv => OneActive
  BY DEF ActiveInv
<1>. QED  BY <1>1, <1>2, CallsInvariance, NextKeepsActive, PTL DEF CallsSpec

--------------------------------------------------------------------------------
(* First(S) as a function of the positions. *)
FirstBy(pos, S) == CHOOSE p \in S : \A q \in S \ {p} :
                       \/ pos[p] < pos[q]
                       \/ pos[p] = pos[q] /\ p < q

(* _advance_queue as a function of what it reads. *)
NextReady(pos, s) ==
    IF Pending(s) = {} THEN s ELSE [s EXCEPT ![FirstBy(pos, Pending(s))] = "READY_TO_INJECT"]
ClosedQueue(q, s) == IF Live(s) = {} /\ q \notin QueueTerminal THEN "DONE" ELSE q

(* Renumbered as a function of the rows it reads. *)
RenumberedBy(pos, listed, p, newPosition) ==
    LET others == listed \ {p}
        wanted == newPosition - 1
        index  == IF wanted < 0 THEN 0
                  ELSE IF wanted > Cardinality(others) THEN Cardinality(others)
                  ELSE wanted
        rank(q) == Cardinality({r \in others : pos[r] < pos[q] \/ (pos[r] = pos[q] /\ r < q)})
    IN  [q \in 1 .. NumPrompts |->
            IF q = p THEN index + 1
            ELSE IF q \notin others THEN pos[q]
            ELSE IF rank(q) < index THEN rank(q) + 1
            ELSE rank(q) + 2]

Plain == {"idle", "addLast", "addInsert", "reorder", "reorderSet", "injectTarget", "injectCurrent", "injectActive",
          "injectStart", "complete", "skip", "switch", "cancelList"}
Advances == {"advance", "advanceReady", "advanceCheck", "advanceQueue", "advanceDone"}

(* What an injection has read still holds of the state as it was. *)
InjectHeld(c) ==
    /\ target = "ACTIVE" /\ queue = "RUNNING"
    /\ call[c].seen \in {"DRAFT", "READY", "RUNNING"}
    /\ call[c].seen # "RUNNING" => started
    /\ call[c].was \in PromptInjectable
    /\ call[c].cur \in Live(AbsStatus) /\ call[c].cur = FirstBy(position, Live(AbsStatus))
    /\ AbsStatus[call[c].cur] = call[c].was
    /\ \A p \in Prompt : AbsStatus[p] \notin PromptActive

(* What a lone client's call has read holds until the call returns.          *)
LoneFits(c) ==
    /\ queue \in {"NONE", "DRAFT", "READY"} => ~started
    /\ call[c].pc \in {"addLast", "addInsert", "cancelList", "cancel"} =>
          QueueExists /\ queue \notin QueueTerminal
    /\ call[c].pc \in {"addLast", "addInsert"} => call[c].seen = queue
    /\ call[c].pc = "addInsert" => call[c].at \in AddPositions \cup {LastPosition + 1}
    /\ call[c].pc = "addReady" => queue = "DRAFT"
    /\ call[c].pc \in {"reorder", "reorderSet"} => status[call[c].cur] = "PENDING"
    /\ call[c].pc = "reorderSet" =>
          \E n \in NewPositions : call[c].places = RenumberedBy(position, Listed, call[c].cur, n)
    /\ call[c].pc \in {"injectTarget", "injectCurrent", "injectActive", "injectStart"} =>
          queue \in {"DRAFT", "READY", "RUNNING"} /\ call[c].seen = queue
    /\ call[c].pc \in {"injectCurrent", "injectActive", "injectStart"} => target = "ACTIVE"
    /\ call[c].pc \in {"injectActive", "injectStart"} =>
          /\ Live(status) # {} /\ call[c].cur = Current
          /\ status[Current] = call[c].was /\ call[c].was \in PromptInjectable
    /\ call[c].pc = "injectStart" => Active = {} /\ queue # "RUNNING"
    /\ call[c].pc = "injectMark" \/ call[c].pc \in Marked => InjectHeld(c)
    /\ call[c].pc \in Marked => status[call[c].cur] = "INJECTING"
    /\ call[c].pc \in {"complete", "skip"} => QueueExists /\ Live(status) # {} /\ call[c].cur = Current
    /\ call[c].pc = "complete" => status[Current] = "WAITING_COMPLETION"
    /\ call[c].pc \in Advances => QueueExists
    /\ call[c].pc = "advanceReady" => Pending(status) # {} /\ call[c].cur = First(Pending(status))
    /\ call[c].pc \in {"advanceCheck", "advanceQueue", "advanceDone"} => Pending(status) = {}
    /\ call[c].pc \in {"advanceQueue", "advanceDone"} => Live(status) = {}
    /\ call[c].pc = "advanceDone" => queue \notin QueueTerminal
    /\ call[c].pc = "switch" =>
          /\ QueueExists
          /\ \/ call[c].seen = "PAUSED" /\ queue \notin QueueTerminal
             \/ queue = "PAUSED" /\ call[c].seen = IF started THEN "RUNNING" ELSE "READY"
    /\ call[c].pc = "cancel" => call[c].todo = Live(status)

LoneInv == CallsInv /\ \A c \in Clients : LoneFits(c)

LoneClient == (\E c \in Clients : Clients = {c}) /\ MayDie = FALSE

(* A step the atomic queue does not see. *)
Unseen ==
    /\ AbsQueue' = AbsQueue /\ AbsStarted' = AbsStarted /\ target' = target
    /\ AbsStatus' = AbsStatus /\ position' = position /\ AbsDelivered' = AbsDelivered

--------------------------------------------------------------------------------
(* The instance differs from PromptQueue in the mapped variables only. *)
LEMMA SameOperators ==
    /\ Atomic!Prompt = Prompt /\ Atomic!QueueTerminal = QueueTerminal
    /\ Atomic!PromptTerminal = PromptTerminal /\ Atomic!PromptActive = PromptActive
    /\ Atomic!PromptInjectable = PromptInjectable
    /\ \A s : Atomic!Live(s) = Live(s) /\ Atomic!Pending(s) = Pending(s)
    /\ \A S : Atomic!First(S) = FirstBy(position, S)
BY DEF Atomic!Prompt, Prompt, Atomic!QueueTerminal, QueueTerminal, Atomic!PromptTerminal,
       PromptTerminal, Atomic!PromptActive, PromptActive, Atomic!PromptInjectable, PromptInjectable,
       Atomic!Live, Live, Atomic!Pending, Pending, Atomic!First, Atomic!Before, FirstBy

(* The instance counts as PromptQueue does. *)
LEMMA SameCardinality == \A S : Atomic!Cardinality(S) = Cardinality(S)
BY DEF Atomic!Cardinality, Cardinality

(* The first prompts, by the positions before and after a step. *)
LEMMA FirstIs ==
    /\ Current = FirstBy(position, Live(status))
    /\ Current' = FirstBy(position', Live(status'))
    /\ First(Pending(status)) = FirstBy(position, Pending(status))
    /\ First(Pending(status))' = FirstBy(position', Pending(status'))
BY DEF Current, First, FirstBy, Before, Live, Pending

(* Renumbering reads the positions and the rows that are listed. *)
LEMMA RenumberedIs ==
    \A p, n : Renumbered(p, n) = RenumberedBy(position, Listed, p, n)
BY DEF Renumbered, RenumberedBy, Before, Prompt

(* Outside the calls that wrote part of what they will write, the mapped     *)
(* state is the state.                                                      *)
LEMMA CallerIs ==
    ASSUME NEW c, Clients = {c}
    PROVE  Caller = call[c] /\ Caller' = call'[c]
BY DEF Caller

(* A call that has written nothing. *)
LEMMA AbsPlain ==
    ASSUME Caller.pc \in Plain, started \in BOOLEAN
    PROVE  AbsQueue = queue /\ AbsStarted = started /\ AbsStatus = status /\ AbsDelivered = delivered
BY DEF Plain, AbsQueue, AbsStatus, AbsDelivered, InjectWrote, InjectMarked, Advancing, AbsStarted

(* The same after a step. *)
LEMMA AbsPlainNext ==
    ASSUME Caller'.pc \in Plain, started' \in BOOLEAN
    PROVE  /\ AbsQueue' = queue' /\ AbsStarted' = started'
           /\ AbsStatus' = status' /\ AbsDelivered' = delivered'
BY DEF Plain, AbsQueue, AbsStatus, AbsDelivered, InjectWrote, InjectMarked, Advancing, AbsStarted

(* Reading is not seen. *)
LEMMA ReadIsUnseen ==
    ASSUME Caller.pc \in Plain, Caller'.pc \in Plain, started \in BOOLEAN, UNCHANGED vars
    PROVE  Unseen
BY AbsPlain, AbsPlainNext DEF Unseen, vars

(* What is read of rows that did not change. *)
LEMMA SameRows ==
    ASSUME UNCHANGED vars
    PROVE  /\ Current' = Current /\ Live(status)' = Live(status) /\ Active' = Active
           /\ QueueExists' = QueueExists /\ Pending(status)' = Pending(status)
           /\ First(Pending(status))' = First(Pending(status))
BY FirstIs DEF vars, Active, QueueExists, Live, Pending

(* Between calls only the queue and whether it was started are constrained. *)
LEMMA IdleFits ==
    ASSUME NEW c, call'[c].pc = "idle", queue' \in {"NONE", "DRAFT", "READY"} => ~started'
    PROVE  LoneFits(c)'
BY DEF LoneFits, Marked, Advances

(* What every step may use. *)
LEMMA LoneFacts ==
    ASSUME LoneInv, CallsInv', NEW c, Clients = {c}
    PROVE  /\ c \in Clients /\ call \in [Clients -> CallRecord] /\ call[c] \in CallRecord
           /\ RowsOK /\ TypeOK /\ CallFits(c) /\ LoneFits(c)
           /\ Caller = call[c] /\ Caller' = call'[c]
           /\ started \in BOOLEAN /\ started' \in BOOLEAN
           /\ DOMAIN call = Clients /\ DOMAIN call[c] = {"pc", "seen", "cur", "was", "todo", "at", "places"}
BY CallerIs DEF LoneInv, CallsInv, RowsOK, TypeOK, CallRecord

(* create_queue, delete_queue and the app-target switches are atomic already.*)
LEMMA SingleRefines ==
    ASSUME LoneInv, CallsInv', NEW c, Clients = {c}, SingleWrite(c)
    PROVE  LoneFits(c)' /\ Atomic!Next
<1>0. /\ RowsOK /\ TypeOK /\ LoneFits(c) /\ Caller = call[c] /\ Caller' = call'[c]
      /\ started \in BOOLEAN /\ started' \in BOOLEAN
  BY LoneFacts
<1>1. call' = call /\ call[c].pc = "idle"
  BY DEF SingleWrite, At
<1>2. /\ AbsQueue = queue /\ AbsStarted = started /\ AbsStatus = status /\ AbsDelivered = delivered
      /\ AbsQueue' = queue' /\ AbsStarted' = started' /\ AbsStatus' = status' /\ AbsDelivered' = delivered'
  BY <1>0, <1>1, AbsPlain, AbsPlainNext DEF Plain
<1>3. queue' \in {"NONE", "DRAFT", "READY"} => ~started'
  BY <1>0 DEF SingleWrite, CreateQueue, DeleteQueue, SetTargetStatus, LoneFits
<1>4. LoneFits(c)'
  BY <1>1, <1>3, IdleFits
<1>5. CreateQueue => Atomic!CreateQueue
  BY <1>2 DEF CreateQueue, Atomic!CreateQueue
<1>6. DeleteQueue => Atomic!DeleteQueue
  BY <1>2, SameOperators DEF DeleteQueue, Atomic!DeleteQueue, QueueExists, Atomic!QueueExists
<1>7. SetTargetStatus => Atomic!SetTargetStatus
  BY <1>2 DEF SetTargetStatus, Atomic!SetTargetStatus
<1>. QED  BY <1>4, <1>5, <1>6, <1>7 DEF SingleWrite, Atomic!Next

(* add_prompt_to_queue is seen when the row is inserted. *)
LEMMA AddRefines ==
    ASSUME LoneInv, CallsInv', NEW c, Clients = {c}, Adding(c)
    PROVE  LoneFits(c)' /\ (Atomic!Next \/ Unseen)
<1>0. /\ c \in Clients /\ call \in [Clients -> CallRecord] /\ call[c] \in CallRecord
      /\ RowsOK /\ TypeOK /\ LoneFits(c) /\ Caller = call[c] /\ Caller' = call'[c]
      /\ started \in BOOLEAN /\ started' \in BOOLEAN
      /\ DOMAIN call = Clients /\ DOMAIN call[c] = {"pc", "seen", "cur", "was", "todo", "at", "places"}
  BY LoneFacts
<1>1. CASE AddGet(c)
  <2>1. UNCHANGED vars /\ QueueExists /\ queue \notin QueueTerminal /\ call[c].pc = "idle"
    BY <1>1 DEF AddGet, At
  <2>2. call'[c].pc = "addLast" /\ call'[c].seen = queue
    BY <1>0, <1>1 DEF AddGet
  <2>3. Unseen
    BY <1>0, <2>1, <2>2, ReadIsUnseen DEF Plain
  <2>4. LoneFits(c)'
    BY <1>0, <2>1, <2>2, SameRows DEF LoneFits, Marked, Advances, vars
  <2>. QED  BY <2>3, <2>4
<1>4. CASE AddLast(c)
  <2>1. /\ UNCHANGED vars /\ QueueExists /\ queue \notin QueueTerminal
        /\ call[c].pc = "addLast" /\ call[c].seen = queue
    BY <1>0, <1>4 DEF AddLast, At, LoneFits
  <2>2. PICK at \in AddPositions \cup {LastPosition + 1} :
           call' = [call EXCEPT ![c].pc = "addInsert", ![c].at = at]
    BY <1>4 DEF AddLast
  <2>3. call'[c].pc = "addInsert" /\ call'[c].seen = queue /\ call'[c].at = at
    BY <1>0, <2>1, <2>2
  <2>4. Unseen
    BY <1>0, <2>1, <2>3, ReadIsUnseen DEF Plain
  <2>5. LastPosition' = LastPosition
    BY <2>1 DEF vars, LastPosition, Listed
  <2>6. LoneFits(c)'
    BY <1>0, <2>1, <2>3, <2>5, SameRows DEF LoneFits, Marked, Advances, vars
  <2>. QED  BY <2>4, <2>6
<1>2. CASE AddInsert(c)
  <2>1. /\ call[c].pc = "addInsert" /\ QueueExists /\ queue \notin QueueTerminal
        /\ call[c].seen = queue /\ call[c].at \in AddPositions \cup {LastPosition + 1}
    BY <1>0, <1>2 DEF AddInsert, At, LoneFits
  <2>2. AbsQueue = queue /\ AbsStarted = started /\ AbsStatus = status /\ AbsDelivered = delivered
    BY <1>0, <2>1, AbsPlain DEF Plain
  <2>3. CASE Return(c) /\ UNCHANGED vars
    <3>1. call'[c].pc = "idle"
      BY <1>0, <2>3, ReturnIs
    <3>2. Unseen
      BY <1>0, <2>1, <2>3, <3>1, ReadIsUnseen DEF Plain
    <3>3. LoneFits(c)'
      BY <1>0, <2>3, <3>1, IdleFits DEF LoneFits, vars
    <3>. QED  BY <3>2, <3>3
  <2>4. CASE /\ \E p \in Prompt \ Listed :
                   /\ \A q \in Prompt \ Listed : p <= q
                   /\ status' = [status EXCEPT ![p] = "PENDING"]
                   /\ position' = [position EXCEPT ![p] = call[c].at]
             /\ IF call[c].seen = "DRAFT" THEN Goto(c, "addReady") ELSE Return(c)
             /\ UNCHANGED <<queue, started, target, delivered>>
    <3>1. /\ queue = "DRAFT" => call'[c].pc = "addReady"
          /\ queue # "DRAFT" => call'[c].pc = "idle"
      BY <1>0, <2>1, <2>4, ReturnIs, GotoIs
    <3>2. /\ AbsQueue' = IF queue = "DRAFT" THEN "READY" ELSE queue
          /\ AbsStarted' = started' /\ AbsStatus' = status' /\ AbsDelivered' = delivered'
      BY <1>0, <2>4, <3>1 DEF AbsQueue, AbsStarted, AbsStatus, AbsDelivered, InjectWrote,
                              InjectMarked, Advancing
    <3>3. /\ Atomic!QueueExists /\ Atomic!Listed = Listed /\ Atomic!LastPosition = LastPosition
      BY <2>1, <2>2, SameOperators DEF Atomic!QueueExists, QueueExists, Atomic!Listed, Listed,
                                       Atomic!LastPosition, LastPosition
    <3>4. PICK at \in AddPositions \cup {LastPosition + 1} :
             \E p \in Prompt \ Listed :
                /\ \A q \in Prompt \ Listed : p <= q
                /\ status' = [status EXCEPT ![p] = "PENDING"]
                /\ position' = [position EXCEPT ![p] = at]
      BY <2>1, <2>4
    <3>5. Atomic!AddPrompt(at)
      BY <2>1, <2>2, <2>4, <3>2, <3>3, <3>4, SameOperators DEF Atomic!AddPrompt
    <3>6. Atomic!Next
      <4>1. CASE at \in AddPositions
        BY <3>5, <4>1 DEF Atomic!Next, Atomic!AddAtPosition
      <4>2. CASE at = LastPosition + 1
        <5>1. Atomic!AddPrompt(Atomic!LastPosition + 1)
          BY <3>3, <3>5, <4>2
        <5>. QED  BY <5>1 DEF Atomic!Next, Atomic!AddAtEnd
      <4>. QED  BY <4>1, <4>2
    <3>7. LoneFits(c)'
      BY <1>0, <2>1, <2>4, <3>1 DEF LoneFits, Marked, Advances
    <3>. QED  BY <3>6, <3>7
  <2>. QED  BY <1>2, <2>3, <2>4 DEF AddInsert
<1>3. CASE AddReady(c)
  <2>1. call[c].pc = "addReady" /\ queue = "DRAFT" /\ queue' = "READY" /\ UNCHANGED queueOnly /\ Return(c)
    BY <1>0, <1>3 DEF AddReady, At, SetQueue, LoneFits, QueueExists
  <2>2. call'[c].pc = "idle"
    BY <1>0, <2>1, ReturnIs
  <2>3. /\ AbsQueue' = queue' /\ AbsStarted' = started' /\ AbsStatus' = status' /\ AbsDelivered' = delivered'
    BY <1>0, <2>2, AbsPlainNext DEF Plain
  <2>4. AbsQueue = "READY" /\ AbsStarted = started /\ AbsStatus = status /\ AbsDelivered = delivered
    BY <1>0, <2>1 DEF AbsQueue, AbsStarted, AbsStatus, AbsDelivered, InjectWrote, InjectMarked, Advancing
  <2>5. Unseen
    BY <2>1, <2>3, <2>4 DEF Unseen, queueOnly
  <2>6. LoneFits(c)'
    BY <1>0, <2>1, <2>2, IdleFits DEF LoneFits, queueOnly
  <2>. QED  BY <2>5, <2>6
<1>. QED  BY <1>1, <1>2, <1>3, <1>4 DEF Adding

(* reorder_prompt is seen when the positions are written. *)
LEMMA ReorderRefines ==
    ASSUME LoneInv, CallsInv', NEW c, Clients = {c}, Reordering(c)
    PROVE  LoneFits(c)' /\ (Atomic!Next \/ Unseen)
<1>0. /\ c \in Clients /\ call \in [Clients -> CallRecord] /\ call[c] \in CallRecord
      /\ RowsOK /\ TypeOK /\ LoneFits(c) /\ CallFits(c) /\ Caller = call[c] /\ Caller' = call'[c]
      /\ started \in BOOLEAN /\ started' \in BOOLEAN
      /\ DOMAIN call = Clients /\ DOMAIN call[c] = {"pc", "seen", "cur", "was", "todo", "at", "places"}
  BY LoneFacts
<1>1. ASSUME NEW p \in Prompt, ReorderGet(c, p)
      PROVE  LoneFits(c)' /\ Unseen
  <2>1. UNCHANGED vars /\ call[c].pc = "idle" /\ status[p] = "PENDING"
    BY <1>1 DEF ReorderGet, At
  <2>2. call'[c].pc = "reorder" /\ call'[c].cur = p
    BY <1>0, <1>1 DEF ReorderGet
  <2>3. Unseen
    BY <1>0, <2>1, <2>2, ReadIsUnseen DEF Plain
  <2>4. LoneFits(c)'
    BY <1>0, <2>1, <2>2, SameRows DEF LoneFits, Marked, Advances, vars
  <2>. QED  BY <2>3, <2>4
<1>2. ASSUME NEW n \in NewPositions, ReorderList(c, n)
      PROVE  LoneFits(c)' /\ Unseen
  <2>1. UNCHANGED vars /\ call[c].pc = "reorder" /\ status[call[c].cur] = "PENDING"
    BY <1>0, <1>2 DEF ReorderList, At, LoneFits
  <2>2. PICK places : places = RenumberedBy(position, Listed, call[c].cur, n)
    OBVIOUS
  <2>3. call' = [call EXCEPT ![c].pc = "reorderSet", ![c].places = places]
    BY <1>2, <2>1, <2>2, RenumberedIs DEF ReorderList
  <2>4. call'[c].pc = "reorderSet" /\ call'[c].cur = call[c].cur /\ call'[c].places = places
    BY <1>0, <2>3
  <2>5. Unseen
    BY <1>0, <2>1, <2>4, ReadIsUnseen DEF Plain
  <2>6. Listed' = Listed
    BY <2>1 DEF vars, Listed
  <2>7. LoneFits(c)'
    BY <1>0, <2>1, <2>2, <2>4, <2>6, SameRows DEF LoneFits, Marked, Advances, vars
  <2>. QED  BY <2>5, <2>7
<1>3. CASE ReorderSet(c)
  <2>1. /\ Return(c) /\ UNCHANGED <<queue, started, target, status, delivered>>
        /\ call[c].pc = "reorderSet"
    BY <1>3 DEF ReorderSet, At
  <2>2. call[c].cur \in Prompt /\ status[call[c].cur] = "PENDING"
    BY <1>0, <2>1 DEF CallFits, LoneFits, HasPrompt
  <2>3. PICK n \in NewPositions : call[c].places = Renumbered(call[c].cur, n)
    BY <1>0, <2>1, RenumberedIs DEF LoneFits
  <2>4. position' = Renumbered(call[c].cur, n)
    <3>1. n \in Int
      BY PositionsAssumption
    <3>2. /\ call[c].places \in [Prompt -> Int]
          /\ \A q \in Prompt : IF status[q] = "NONE" THEN call[c].places[q] = position[q]
                              ELSE call[c].places[q] # 0
      BY <1>0, <2>2, <2>3, <3>1, RenumberedKeepsOrder
    <3>3. position' = [q \in Prompt |->
             IF status[q] = "NONE" \/ call[c].places[q] = 0 THEN position[q] ELSE call[c].places[q]]
      BY <1>3 DEF ReorderSet
    <3>4. position' = [q \in Prompt |-> call[c].places[q]]
      BY <3>2, <3>3
    <3>. QED  BY <2>3, <3>2, <3>4
  <2>5. call'[c].pc = "idle"
    BY <1>0, <2>1, ReturnIs
  <2>6. /\ AbsQueue = queue /\ AbsStarted = started /\ AbsStatus = status /\ AbsDelivered = delivered
        /\ AbsQueue' = queue' /\ AbsStarted' = started' /\ AbsStatus' = status' /\ AbsDelivered' = delivered'
    BY <1>0, <2>1, <2>5, AbsPlain, AbsPlainNext DEF Plain
  <2>7. Atomic!Renumbered(call[c].cur, n) = Renumbered(call[c].cur, n)
    <3>1. Atomic!Listed = Listed
      BY <2>6, SameOperators DEF Atomic!Listed, Listed
    <3>2. Atomic!Renumbered(call[c].cur, n) = RenumberedBy(position, Atomic!Listed, call[c].cur, n)
      BY SameCardinality DEF Atomic!Renumbered, Atomic!Before, Atomic!Prompt, RenumberedBy
    <3>. QED  BY <3>1, <3>2, RenumberedIs
  <2>8. Atomic!Reorder(call[c].cur, n)
    BY <2>1, <2>2, <2>4, <2>6, <2>7 DEF Atomic!Reorder
  <2>9. Atomic!Next
    BY <2>2, <2>8, SameOperators DEF Atomic!Next
  <2>10. LoneFits(c)'
    BY <1>0, <2>1, <2>5, IdleFits DEF LoneFits
  <2>. QED  BY <2>9, <2>10
<1>. QED  BY <1>1, <1>2, <1>3 DEF Reordering

(* While a call advances the queue, the mapped state has advanced. *)
LEMMA AbsAdvances ==
    ASSUME Caller.pc \in Advances, started \in BOOLEAN
    PROVE  /\ AbsQueue = ClosedQueue(queue, status) /\ AbsStatus = NextReady(position, status)
           /\ AbsStarted = started /\ AbsDelivered = delivered
BY FirstIs DEF Advances, AbsQueue, AbsStatus, AbsDelivered, InjectWrote, InjectMarked, Advancing,
               AbsStarted, QueueAfter, ClosedQueue, ReadyNext, NextReady

(* The same after a step. *)
LEMMA AbsAdvancesNext ==
    ASSUME Caller'.pc \in Advances, started' \in BOOLEAN
    PROVE  /\ AbsQueue' = ClosedQueue(queue', status') /\ AbsStatus' = NextReady(position', status')
           /\ AbsStarted' = started' /\ AbsDelivered' = delivered'
<1>1. Pending(status)' = Pending(status') /\ Live(status)' = Live(status')
  BY DEF Pending, Live
<1>2. AbsStatus' = ReadyNext(status)' /\ AbsQueue' = QueueAfter(status)'
  BY DEF Advances, AbsQueue, AbsStatus, InjectWrote, InjectMarked, Advancing
<1>3. ReadyNext(status)' = NextReady(position', status')
  BY <1>1, FirstIs DEF ReadyNext, NextReady
<1>4. QueueAfter(status)' = ClosedQueue(queue', status')
  BY <1>1 DEF QueueAfter, ClosedQueue
<1>. QED
  BY <1>2, <1>3, <1>4 DEF Advances, AbsDelivered, InjectWrote, InjectMarked, Advancing, AbsStarted

(* mark_current_complete and skip_current_prompt are seen when the outcome   *)
(* is written; advancing the queue after it is not.                         *)
LEMMA FinishRefines ==
    ASSUME LoneInv, CallsInv', NEW c, Clients = {c}, Finishing(c)
    PROVE  LoneFits(c)' /\ (Atomic!Next \/ Unseen)
<1>0. /\ c \in Clients /\ call \in [Clients -> CallRecord] /\ call[c] \in CallRecord
      /\ RowsOK /\ TypeOK /\ LoneFits(c) /\ CallFits(c) /\ Caller = call[c] /\ Caller' = call'[c]
      /\ started \in BOOLEAN /\ started' \in BOOLEAN
      /\ DOMAIN call = Clients /\ DOMAIN call[c] = {"pc", "seen", "cur", "was", "todo", "at", "places"}
  BY LoneFacts
<1>1. CASE CompleteGet(c) \/ SkipGet(c)
  <2>1. PICK pc \in {"complete", "skip"} :
           /\ call' = [call EXCEPT ![c].pc = pc, ![c].cur = Current]
           /\ Live(status) # {} /\ (pc = "complete" => status[Current] = "WAITING_COMPLETION")
           /\ UNCHANGED vars /\ QueueExists /\ call[c].pc = "idle"
    BY <1>1 DEF CompleteGet, SkipGet, At
  <2>2. call'[c].pc = pc /\ call'[c].cur = Current
    BY <1>0, <2>1
  <2>3. Unseen
    BY <1>0, <2>1, <2>2, ReadIsUnseen DEF Plain
  <2>4. LoneFits(c)'
    BY <1>0, <2>1, <2>2, SameRows DEF LoneFits, Marked, Advances, vars
  <2>. QED  BY <2>3, <2>4
<1>2. CASE FinishSet(c)
  <2>1. PICK outcome \in {"DONE", "SKIPPED"} :
           /\ SetPrompt(call[c].cur, outcome)
           /\ call[c].pc = IF outcome = "DONE" THEN "complete" ELSE "skip"
    BY <1>2 DEF FinishSet, At
  <2>2. UNCHANGED promptOnly /\ call' = [call EXCEPT ![c] = [Idle EXCEPT !.pc = "advance"]]
    BY <1>2 DEF FinishSet
  <2>3. /\ QueueExists /\ Live(status) # {} /\ call[c].cur = Current
        /\ outcome = "DONE" => status[Current] = "WAITING_COMPLETION"
    BY <1>0, <2>1 DEF LoneFits
  <2>4. Current \in Prompt /\ status[Current] # "NONE"
    BY <1>0, <2>3, CurrentIsLive
  <2>5. status' = [status EXCEPT ![Current] = outcome]
    BY <2>1, <2>3, <2>4 DEF SetPrompt
  <2>6. call'[c].pc = "advance"
    BY <1>0, <2>2, IdleIs DEF CallRecord
  <2>7. /\ AbsQueue = queue /\ AbsStarted = started /\ AbsStatus = status /\ AbsDelivered = delivered
    BY <1>0, <2>1, AbsPlain DEF Plain
  <2>8. /\ AbsQueue' = ClosedQueue(queue, status') /\ AbsStatus' = NextReady(position, status')
        /\ AbsStarted' = AbsStarted /\ AbsDelivered' = AbsDelivered
        /\ target' = target /\ position' = position
    BY <1>0, <2>2, <2>6, <2>7, AbsAdvancesNext DEF Advances, promptOnly
  <2>9. Atomic!Current = Current /\ Atomic!QueueExists
    BY <2>3, <2>7, SameOperators, FirstIs DEF Atomic!Current, Atomic!QueueExists, QueueExists
  <2>10. Atomic!ReadyNext(status') = NextReady(position, status')
    BY SameOperators DEF Atomic!ReadyNext, NextReady
  <2>11. Atomic!QueueAfter(status') = ClosedQueue(queue, status')
    BY <2>7, SameOperators DEF Atomic!QueueAfter, ClosedQueue
  <2>12. Atomic!FinishPrompt(outcome)
    BY <2>5, <2>7, <2>8, <2>9, <2>10, <2>11 DEF Atomic!FinishPrompt
  <2>13. Atomic!MarkCurrentComplete \/ Atomic!SkipCurrentPrompt
    BY <2>3, <2>7, <2>9, <2>12, SameOperators DEF Atomic!MarkCurrentComplete, Atomic!SkipCurrentPrompt
  <2>14. Atomic!Next
    BY <2>13 DEF Atomic!Next
  <2>15. LoneFits(c)'
    BY <1>0, <2>2, <2>3, <2>6 DEF LoneFits, Marked, Advances, promptOnly, QueueExists
  <2>. QED  BY <2>14, <2>15
<1>3. CASE AdvanceNext(c)
  <2>1. UNCHANGED vars /\ call[c].pc = "advance" /\ QueueExists
    BY <1>0, <1>3 DEF AdvanceNext, At, LoneFits, Advances
  <2>2. \/ /\ Pending(status) = {} /\ call'[c].pc = "advanceCheck"
        \/ /\ Pending(status) # {} /\ call'[c].pc = "advanceReady"
           /\ call'[c].cur = First(Pending(status))
    <3>1. CASE Pending(status) = {}
      BY <1>0, <1>3, <3>1, GotoIs DEF AdvanceNext
    <3>2. CASE Pending(status) # {}
      BY <1>0, <1>3, <3>2 DEF AdvanceNext
    <3>. QED  BY <3>1, <3>2
  <2>3. Unseen
    BY <1>0, <2>1, <2>2, AbsAdvances, AbsAdvancesNext DEF Unseen, Advances, vars
  <2>4. LoneFits(c)'
    BY <1>0, <2>1, <2>2, SameRows DEF LoneFits, Marked, Advances, vars
  <2>. QED  BY <2>3, <2>4
<1>4. CASE AdvanceReady(c)
  <2>1. /\ call[c].pc = "advanceReady" /\ Return(c) /\ UNCHANGED promptOnly
        /\ Pending(status) # {} /\ call[c].cur = FirstBy(position, Pending(status))
        /\ QueueExists /\ SetPrompt(call[c].cur, "READY_TO_INJECT")
    BY <1>0, <1>4, FirstIs DEF AdvanceReady, At, LoneFits, Advances
  <2>2. call[c].cur \in Pending(status)
    BY <1>0, <2>1, FirstIsLeast, FirstIs DEF Pending
  <2>3. status' = [status EXCEPT ![call[c].cur] = "READY_TO_INJECT"]
    BY <2>1, <2>2 DEF SetPrompt, Pending
  <2>4. call'[c].pc = "idle"
    BY <1>0, <2>1, ReturnIs
  <2>5. AbsStatus = status' /\ AbsQueue = queue /\ AbsStarted = started /\ AbsDelivered = delivered
    <3>1. call[c].cur \in Live(status)
      BY <2>2 DEF Pending, Live, PromptTerminal
    <3>. QED  BY <1>0, <2>1, <2>3, <3>1, AbsAdvances DEF Advances, NextReady, ClosedQueue
  <2>6. Unseen
    BY <1>0, <2>1, <2>4, <2>5, AbsPlainNext DEF Unseen, Plain, promptOnly
  <2>7. LoneFits(c)'
    BY <1>0, <2>1, <2>4, IdleFits DEF LoneFits, promptOnly
  <2>. QED  BY <2>6, <2>7
<1>5. CASE AdvanceCheck(c)
  <2>1. UNCHANGED vars /\ call[c].pc = "advanceCheck" /\ QueueExists /\ Pending(status) = {}
    BY <1>0, <1>5 DEF AdvanceCheck, At, LoneFits, Advances
  <2>2. /\ AbsQueue = ClosedQueue(queue, status) /\ AbsStatus = status
        /\ AbsStarted = started /\ AbsDelivered = delivered
    BY <1>0, <2>1, AbsAdvances DEF Advances, NextReady
  <2>3. CASE Live(status) = {}
    <3>1. call'[c].pc = "advanceQueue"
      BY <1>0, <1>5, <2>3, GotoIs DEF AdvanceCheck
    <3>2. Unseen
      BY <1>0, <2>1, <2>2, <3>1, AbsAdvancesNext DEF Unseen, Advances, vars, NextReady
    <3>3. LoneFits(c)'
      BY <1>0, <2>1, <2>3, <3>1, SameRows DEF LoneFits, Marked, Advances, vars
    <3>. QED  BY <3>2, <3>3
  <2>4. CASE Live(status) # {}
    <3>1. call'[c].pc = "idle"
      BY <1>0, <1>5, <2>4, ReturnIs DEF AdvanceCheck
    <3>2. Unseen
      BY <1>0, <2>1, <2>2, <2>4, <3>1, AbsPlainNext DEF Unseen, Plain, vars, ClosedQueue
    <3>3. LoneFits(c)'
      BY <1>0, <2>1, <3>1, IdleFits DEF LoneFits, vars
    <3>. QED  BY <3>2, <3>3
  <2>. QED  BY <2>3, <2>4
<1>6. CASE AdvanceQueue(c)
  <2>1. /\ UNCHANGED vars /\ call[c].pc = "advanceQueue" /\ QueueExists
        /\ Pending(status) = {} /\ Live(status) = {}
    BY <1>0, <1>6 DEF AdvanceQueue, At, LoneFits, Advances
  <2>2. /\ AbsQueue = ClosedQueue(queue, status) /\ AbsStatus = status
        /\ AbsStarted = started /\ AbsDelivered = delivered
    BY <1>0, <2>1, AbsAdvances DEF Advances, NextReady
  <2>3. CASE queue \notin QueueTerminal
    <3>1. call'[c].pc = "advanceDone"
      BY <1>0, <1>6, <2>1, <2>3, GotoIs DEF AdvanceQueue
    <3>2. Unseen
      BY <1>0, <2>1, <2>2, <3>1, AbsAdvancesNext DEF Unseen, Advances, vars, NextReady
    <3>3. LoneFits(c)'
      BY <1>0, <2>1, <2>3, <3>1, SameRows DEF LoneFits, Marked, Advances, vars
    <3>. QED  BY <3>2, <3>3
  <2>4. CASE queue \in QueueTerminal
    <3>1. call'[c].pc = "idle"
      BY <1>0, <1>6, <2>4, ReturnIs DEF AdvanceQueue
    <3>2. Unseen
      BY <1>0, <2>1, <2>2, <2>4, <3>1, AbsPlainNext DEF Unseen, Plain, vars, ClosedQueue
    <3>3. LoneFits(c)'
      BY <1>0, <2>1, <3>1, IdleFits DEF LoneFits, vars
    <3>. QED  BY <3>2, <3>3
  <2>. QED  BY <2>3, <2>4
<1>7. CASE AdvanceDone(c)
  <2>1. /\ UNCHANGED queueOnly /\ call[c].pc = "advanceDone" /\ QueueExists /\ Return(c)
        /\ Pending(status) = {} /\ Live(status) = {} /\ queue \notin QueueTerminal
        /\ queue' = "DONE"
    BY <1>0, <1>7 DEF AdvanceDone, At, LoneFits, Advances, SetQueue
  <2>2. AbsQueue = "DONE" /\ AbsStatus = status /\ AbsStarted = started /\ AbsDelivered = delivered
    BY <1>0, <2>1, AbsAdvances DEF Advances, NextReady, ClosedQueue
  <2>3. call'[c].pc = "idle"
    BY <1>0, <2>1, ReturnIs
  <2>4. Unseen
    BY <1>0, <2>1, <2>2, <2>3, AbsPlainNext DEF Unseen, Plain, queueOnly
  <2>5. LoneFits(c)'
    BY <2>1, <2>3, IdleFits
  <2>. QED  BY <2>4, <2>5
<1>. QED  BY <1>1, <1>2, <1>3, <1>4, <1>5, <1>6, <1>7 DEF Finishing

(* pause_queue and resume_queue are seen when the status is written,         *)
(* cancel_queue when the prompts to cancel are listed.                      *)
LEMMA SwitchRefines ==
    ASSUME LoneInv, CallsInv', NEW c, Clients = {c}, Switching(c)
    PROVE  LoneFits(c)' /\ (Atomic!Next \/ Unseen)
<1>0. /\ c \in Clients /\ call \in [Clients -> CallRecord] /\ call[c] \in CallRecord
      /\ RowsOK /\ TypeOK /\ LoneFits(c) /\ CallFits(c) /\ Caller = call[c] /\ Caller' = call'[c]
      /\ started \in BOOLEAN /\ started' \in BOOLEAN
      /\ DOMAIN call = Clients /\ DOMAIN call[c] = {"pc", "seen", "cur", "was", "todo", "at", "places"}
  BY LoneFacts
<1>1. CASE PauseGet(c) \/ ResumeGet(c)
  <2>1. UNCHANGED vars /\ call[c].pc = "idle"
    BY <1>1 DEF PauseGet, ResumeGet, At
  <2>2. /\ call'[c].pc = "switch" /\ QueueExists
        /\ \/ call'[c].seen = "PAUSED" /\ queue \notin QueueTerminal
           \/ queue = "PAUSED" /\ call'[c].seen = IF started THEN "RUNNING" ELSE "READY"
    BY <1>0, <1>1 DEF PauseGet, ResumeGet, QueueExists
  <2>3. Unseen
    BY <1>0, <2>1, <2>2, ReadIsUnseen DEF Plain
  <2>4. LoneFits(c)'
    BY <1>0, <2>1, <2>2, SameRows DEF LoneFits, Marked, Advances, vars
  <2>. QED  BY <2>3, <2>4
<1>2. CASE SwitchSet(c)
  <2>1. /\ call[c].pc = "switch" /\ Return(c) /\ UNCHANGED queueOnly
        /\ QueueExists /\ queue' = call[c].seen
        /\ \/ call[c].seen = "PAUSED" /\ queue \notin QueueTerminal
           \/ queue = "PAUSED" /\ call[c].seen = IF started THEN "RUNNING" ELSE "READY"
    BY <1>0, <1>2 DEF SwitchSet, At, LoneFits, SetQueue
  <2>2. call'[c].pc = "idle"
    BY <1>0, <2>1, ReturnIs
  <2>3. /\ AbsQueue = queue /\ AbsStarted = started /\ AbsStatus = status /\ AbsDelivered = delivered
        /\ AbsQueue' = queue' /\ AbsStarted' = started' /\ AbsStatus' = status' /\ AbsDelivered' = delivered'
    BY <1>0, <2>1, <2>2, AbsPlain, AbsPlainNext DEF Plain
  <2>4. Atomic!PauseQueue \/ Atomic!ResumeQueue
    BY <2>1, <2>3, SameOperators DEF Atomic!PauseQueue, Atomic!ResumeQueue, Atomic!QueueExists,
                                     QueueExists, queueOnly
  <2>5. LoneFits(c)'
    BY <1>0, <2>1, <2>2, IdleFits DEF queueOnly
  <2>. QED  BY <2>4, <2>5 DEF Atomic!Next
<1>3. CASE CancelGet(c)
  <2>1. UNCHANGED vars /\ Goto(c, "cancelList") /\ call[c].pc = "idle"
        /\ QueueExists /\ queue \notin QueueTerminal
    BY <1>3 DEF CancelGet, At
  <2>2. call'[c].pc = "cancelList"
    BY <1>0, <2>1, GotoIs
  <2>3. Unseen
    BY <1>0, <2>1, <2>2, ReadIsUnseen DEF Plain
  <2>4. LoneFits(c)'
    BY <1>0, <2>1, <2>2, SameRows DEF LoneFits, Marked, Advances, vars
  <2>. QED  BY <2>3, <2>4
<1>4. CASE CancelList(c)
  <2>1. /\ UNCHANGED vars /\ call[c].pc = "cancelList" /\ QueueExists /\ queue \notin QueueTerminal
        /\ call' = [call EXCEPT ![c].pc = "cancel", ![c].todo = Live(status)]
    BY <1>0, <1>4 DEF CancelList, At, LoneFits
  <2>2. call'[c].pc = "cancel" /\ call'[c].todo = Live(status)
    BY <1>0, <2>1
  <2>3. AbsQueue = queue /\ AbsStarted = started /\ AbsStatus = status /\ AbsDelivered = delivered
    BY <1>0, <2>1, AbsPlain DEF Plain
  <2>4. /\ AbsQueue' = "CANCELLED" /\ AbsStarted' = started' /\ AbsDelivered' = delivered'
        /\ AbsStatus' = CancelledStatus(status')
    BY <1>0, <2>2 DEF AbsQueue, AbsStarted, AbsStatus, AbsDelivered, InjectWrote, InjectMarked,
                      Advancing, CancelledStatus, Live
  <2>5. Atomic!CancelledStatus(status) = CancelledStatus(status)
    BY SameOperators DEF Atomic!CancelledStatus, CancelledStatus
  <2>6. Atomic!CancelQueue
    BY <2>1, <2>3, <2>4, <2>5, SameOperators DEF Atomic!CancelQueue, Atomic!QueueExists,
                                                 QueueExists, vars
  <2>7. LoneFits(c)'
    BY <1>0, <2>1, <2>2, SameRows DEF LoneFits, Marked, Advances, vars
  <2>. QED  BY <2>6, <2>7 DEF Atomic!Next
<1>5. ASSUME call[c].pc = "cancel"
      PROVE  /\ AbsQueue = "CANCELLED" /\ AbsStarted = started /\ AbsDelivered = delivered
             /\ AbsStatus = CancelledStatus(status)
             /\ QueueExists /\ queue \notin QueueTerminal /\ call[c].todo = Live(status)
  BY <1>0, <1>5 DEF AbsQueue, AbsStarted, AbsStatus, AbsDelivered, InjectWrote, InjectMarked,
                    Advancing, LoneFits
<1>6. CASE CancelOne(c)
  <2>1. PICK p \in call[c].todo :
           SetPrompt(p, "CANCELLED") /\ call' = [call EXCEPT ![c].todo = @ \ {p}]
    BY <1>6 DEF CancelOne
  <2>2. call[c].pc = "cancel" /\ UNCHANGED promptOnly
    BY <1>6 DEF CancelOne, At
  <2>3. p \in Live(status) /\ p \in Prompt
    BY <1>5, <2>1, <2>2 DEF Live
  <2>4. status' = [status EXCEPT ![p] = "CANCELLED"]
    BY <2>1, <2>3 DEF SetPrompt, Live
  <2>5. call'[c].pc = "cancel" /\ call'[c].todo = Live(status) \ {p}
    BY <1>0, <1>5, <2>1, <2>2
  <2>6. Live(status') = Live(status) \ {p}
    BY <1>0, <2>3, <2>4 DEF TypeOK, Live, PromptTerminal
  <2>7. CancelledStatus(status') = CancelledStatus(status)
    <3>1. \A q \in Prompt : q # p => status'[q] = status[q]
      BY <1>0, <2>4 DEF TypeOK
    <3>2. \A q \in Prompt : (IF q \in Live(status') THEN "CANCELLED" ELSE status'[q])
                              = (IF q \in Live(status) THEN "CANCELLED" ELSE status[q])
      BY <1>0, <2>3, <2>4, <2>6, <3>1 DEF TypeOK
    <3>. QED  BY <3>2 DEF CancelledStatus
  <2>8. /\ AbsQueue' = "CANCELLED" /\ AbsStarted' = started' /\ AbsDelivered' = delivered'
        /\ AbsStatus' = CancelledStatus(status')
    BY <1>0, <2>5 DEF AbsQueue, AbsStarted, AbsStatus, AbsDelivered, InjectWrote, InjectMarked,
                      Advancing, CancelledStatus, Live
  <2>9. Unseen
    BY <1>5, <2>2, <2>7, <2>8 DEF Unseen, promptOnly
  <2>10. Live(status)' = Live(status) \ {p}
    BY <2>6 DEF Live
  <2>11. LoneFits(c)'
    BY <1>0, <1>5, <2>2, <2>5, <2>10 DEF LoneFits, Marked, Advances, promptOnly, QueueExists
  <2>. QED  BY <2>9, <2>11
<1>7. CASE CancelSet(c)
  <2>1. /\ call[c].pc = "cancel" /\ call[c].todo = {} /\ SetQueue("CANCELLED")
        /\ Return(c) /\ UNCHANGED queueOnly
    BY <1>7 DEF CancelSet, At
  <2>2. queue' = "CANCELLED" /\ Live(status) = {}
    BY <1>5, <2>1 DEF SetQueue
  <2>3. CancelledStatus(status) = status
    BY <1>0, <2>2 DEF CancelledStatus, TypeOK
  <2>4. call'[c].pc = "idle"
    BY <1>0, <2>1, ReturnIs
  <2>5. Unseen
    BY <1>0, <1>5, <2>1, <2>2, <2>3, <2>4, AbsPlainNext DEF Unseen, Plain, queueOnly
  <2>6. LoneFits(c)'
    BY <2>2, <2>4, IdleFits
  <2>. QED  BY <2>5, <2>6
<1>. QED  BY <1>1, <1>2, <1>3, <1>4, <1>6, <1>7 DEF Switching

--------------------------------------------------------------------------------
(* During an injection the mapped state is what it was before its writes.    *)
LEMMA AbsInjects ==
    /\ Caller.pc = "injectMark" =>
          /\ AbsQueue = Caller.seen /\ AbsStatus = status /\ AbsDelivered = delivered
          /\ AbsStarted = (started /\ Caller.seen \notin {"DRAFT", "READY"})
    /\ Caller.pc \in Marked =>
          /\ AbsQueue = Caller.seen /\ AbsStatus = [status EXCEPT ![Caller.cur] = Caller.was]
          /\ AbsDelivered = IF Caller.pc = "injectSubmit"
                            THEN [delivered EXCEPT ![Caller.cur] = @ - 1] ELSE delivered
          /\ AbsStarted = (started /\ Caller.seen \notin {"DRAFT", "READY"})
BY DEF AbsQueue, AbsStatus, AbsDelivered, AbsStarted, InjectWrote, InjectMarked, Advancing, Marked

(* The same after a step. *)
LEMMA AbsInjectsNext ==
    /\ Caller'.pc = "injectMark" =>
          /\ AbsQueue' = Caller'.seen /\ AbsStatus' = status' /\ AbsDelivered' = delivered'
          /\ AbsStarted' = (started' /\ Caller'.seen \notin {"DRAFT", "READY"})
    /\ Caller'.pc \in Marked =>
          /\ AbsQueue' = Caller'.seen /\ AbsStatus' = [status' EXCEPT ![Caller'.cur] = Caller'.was]
          /\ AbsDelivered' = IF Caller'.pc = "injectSubmit"
                             THEN [delivered' EXCEPT ![Caller'.cur] = @ - 1] ELSE delivered'
          /\ AbsStarted' = (started' /\ Caller'.seen \notin {"DRAFT", "READY"})
BY DEF AbsQueue, AbsStatus, AbsDelivered, AbsStarted, InjectWrote, InjectMarked, Advancing, Marked

(* What the injection holds on to survives its own writes. *)
LEMMA HeldStays ==
    ASSUME NEW c, InjectHeld(c), UNCHANGED <<queue, started, target, position>>,
           AbsStatus' = AbsStatus, call'[c].seen = call[c].seen,
           call'[c].cur = call[c].cur, call'[c].was = call[c].was
    PROVE  InjectHeld(c)'
<1>1. Live(AbsStatus)' = Live(AbsStatus)
  BY DEF Live
<1>2. FirstBy(position, Live(AbsStatus))' = FirstBy(position, Live(AbsStatus))
  BY <1>1 DEF FirstBy
<1>. QED  BY <1>1, <1>2 DEF InjectHeld

(* The gates of the atomic injection are open. *)
LEMMA HeldIsInjectable ==
    ASSUME NEW c, InjectHeld(c), AbsQueue = call[c].seen
    PROVE  Atomic!Injectable /\ Atomic!Current = call[c].cur
<1>1. Atomic!Current = call[c].cur
  BY SameOperators DEF Atomic!Current, InjectHeld
<1>2. Atomic!Active = {}
  BY SameOperators DEF Atomic!Active, InjectHeld
<1>. QED
  BY <1>1, <1>2, SameOperators DEF Atomic!Injectable, InjectHeld, Atomic!QueueExists, QueueTerminal

(* The reads of an injection, up to the check that no prompt is active.      *)
LEMMA InjectReadsRefine ==
    ASSUME LoneInv, CallsInv', NEW c, Clients = {c},
           InjectGetQueue(c) \/ InjectGetTarget(c) \/ InjectGetCurrent(c) \/ InjectCheckActive(c)
    PROVE  LoneFits(c)' /\ Unseen
<1>0. /\ c \in Clients /\ call \in [Clients -> CallRecord] /\ call[c] \in CallRecord
      /\ RowsOK /\ TypeOK /\ LoneFits(c) /\ CallFits(c) /\ Caller = call[c] /\ Caller' = call'[c]
      /\ started \in BOOLEAN /\ started' \in BOOLEAN
      /\ DOMAIN call = Clients /\ DOMAIN call[c] = {"pc", "seen", "cur", "was", "todo", "at", "places"}
  BY LoneFacts
<1>1. UNCHANGED vars
  BY DEF InjectGetQueue, InjectGetTarget, InjectGetCurrent, InjectCheckActive
<1>2. CASE call'[c].pc = "idle"
  <2>1. call[c].pc \in Plain
    BY DEF InjectGetQueue, InjectGetTarget, InjectGetCurrent, InjectCheckActive, At, Plain
  <2>2. Unseen
    BY <1>0, <1>1, <1>2, <2>1, ReadIsUnseen DEF Plain
  <2>3. LoneFits(c)'
    BY <1>0, <1>1, <1>2, IdleFits DEF LoneFits, vars
  <2>. QED  BY <2>2, <2>3
<1>3. CASE InjectGetQueue(c)
  <2>1. queue \in {"DRAFT", "READY", "RUNNING"} /\ call[c].pc = "idle"
    BY <1>0, <1>3 DEF InjectGetQueue, At, TypeOK, QueueTerminal, QueueExists
  <2>2. call'[c].pc = "injectTarget" /\ call'[c].seen = queue
    BY <1>0, <1>3 DEF InjectGetQueue
  <2>3. Unseen
    BY <1>0, <1>1, <2>1, <2>2, ReadIsUnseen DEF Plain
  <2>4. LoneFits(c)'
    BY <1>0, <1>1, <2>1, <2>2, SameRows DEF LoneFits, Marked, Advances, vars
  <2>. QED  BY <2>3, <2>4
<1>4. CASE InjectGetTarget(c) /\ target = "ACTIVE"
  <2>1. call[c].pc = "injectTarget" /\ Goto(c, "injectCurrent")
        /\ queue \in {"DRAFT", "READY", "RUNNING"} /\ call[c].seen = queue
    BY <1>0, <1>4 DEF InjectGetTarget, At, LoneFits
  <2>2. call'[c].pc = "injectCurrent" /\ call'[c].seen = queue
    BY <1>0, <2>1, GotoIs
  <2>3. Unseen
    BY <1>0, <1>1, <2>1, <2>2, ReadIsUnseen DEF Plain
  <2>4. LoneFits(c)'
    BY <1>0, <1>1, <1>4, <2>1, <2>2, SameRows DEF LoneFits, Marked, Advances, vars
  <2>. QED  BY <2>3, <2>4
<1>5. CASE InjectGetCurrent(c) /\ Live(status) # {} /\ status[Current] \in PromptInjectable
  <2>1. /\ call[c].pc = "injectCurrent"
        /\ call' = [call EXCEPT ![c].pc = "injectActive", ![c].cur = Current,
                                ![c].was = status[Current]]
        /\ queue \in {"DRAFT", "READY", "RUNNING"} /\ call[c].seen = queue /\ target = "ACTIVE"
    BY <1>0, <1>5 DEF InjectGetCurrent, At, LoneFits
  <2>2. call'[c].pc = "injectActive" /\ call'[c].seen = queue
        /\ call'[c].cur = Current /\ call'[c].was = status[Current]
    BY <1>0, <2>1
  <2>3. Unseen
    BY <1>0, <1>1, <2>1, <2>2, ReadIsUnseen DEF Plain
  <2>4. LoneFits(c)'
    BY <1>0, <1>1, <1>5, <2>1, <2>2, SameRows DEF LoneFits, Marked, Advances, vars
  <2>. QED  BY <2>3, <2>4
<1>6. CASE InjectCheckActive(c) /\ Active = {}
  <2>1. /\ call[c].pc = "injectActive"
        /\ queue \in {"DRAFT", "READY", "RUNNING"} /\ call[c].seen = queue /\ target = "ACTIVE"
        /\ Live(status) # {} /\ call[c].cur = Current
        /\ status[Current] = call[c].was /\ call[c].was \in PromptInjectable
    BY <1>0, <1>6 DEF InjectCheckActive, At, LoneFits
  <2>2. CASE queue # "RUNNING"
    <3>1. Goto(c, "injectStart")
      BY <1>6, <2>1, <2>2 DEF InjectCheckActive
    <3>2. call'[c].pc = "injectStart" /\ call'[c].seen = queue
          /\ call'[c].cur = call[c].cur /\ call'[c].was = call[c].was
      BY <1>0, <2>1, <3>1, GotoIs
    <3>3. Unseen
      BY <1>0, <1>1, <2>1, <3>2, ReadIsUnseen DEF Plain
    <3>4. LoneFits(c)'
      BY <1>0, <1>1, <1>6, <2>1, <2>2, <3>2, SameRows DEF LoneFits, Marked, Advances, vars
    <3>. QED  BY <3>3, <3>4
  <2>3. CASE queue = "RUNNING"
    <3>1. Goto(c, "injectMark")
      BY <1>6, <2>1, <2>3 DEF InjectCheckActive
    <3>2. call'[c].pc = "injectMark" /\ call'[c].seen = "RUNNING"
          /\ call'[c].cur = call[c].cur /\ call'[c].was = call[c].was
      BY <1>0, <2>1, <2>3, <3>1, GotoIs
    <3>3. AbsQueue = queue /\ AbsStarted = started /\ AbsStatus = status /\ AbsDelivered = delivered
      BY <1>0, <2>1, AbsPlain DEF Plain
    <3>4. AbsQueue' = "RUNNING" /\ AbsStatus' = status' /\ AbsDelivered' = delivered'
          /\ AbsStarted' = started'
      BY <1>0, <3>2, AbsInjectsNext
    <3>5. Unseen
      BY <1>1, <2>3, <3>3, <3>4 DEF Unseen, vars
    <3>6. call[c].cur \in Live(status) /\ call[c].cur = FirstBy(position, Live(status))
          /\ \A p \in Prompt : status[p] \notin PromptActive
      BY <1>0, <1>6, <2>1, CurrentIsLive, FirstIs DEF Live, Active
    <3>7. Live(AbsStatus)' = Live(status)
      BY <1>1, <3>4 DEF Live, vars
    <3>8. InjectHeld(c)'
      BY <1>1, <2>1, <2>3, <3>2, <3>4, <3>6, <3>7 DEF InjectHeld, vars, FirstBy
    <3>9. LoneFits(c)'
      BY <1>0, <1>1, <2>3, <3>2, <3>8, SameRows DEF LoneFits, Marked, Advances, vars
    <3>. QED  BY <3>5, <3>9
  <2>. QED  BY <2>2, <2>3
<1>7. CASE InjectGetTarget(c) /\ target # "ACTIVE"
  <2>1. Return(c)
    BY <1>7 DEF InjectGetTarget
  <2>. QED  BY <1>0, <1>2, <2>1, ReturnIs
<1>8. CASE InjectGetCurrent(c) /\ ~(Live(status) # {} /\ status[Current] \in PromptInjectable)
  <2>1. Return(c)
    BY <1>8 DEF InjectGetCurrent
  <2>. QED  BY <1>0, <1>2, <2>1, ReturnIs
<1>9. CASE InjectCheckActive(c) /\ Active # {}
  <2>1. Return(c)
    BY <1>9 DEF InjectCheckActive
  <2>. QED  BY <1>0, <1>2, <2>1, ReturnIs
<1>. QED  BY <1>3, <1>4, <1>5, <1>6, <1>7, <1>8, <1>9

(* Starting the queue and marking the prompt are not seen before the         *)
(* injection's last write, and nor is the paste.                            *)
LEMMA InjectWritesRefine ==
    ASSUME LoneInv, CallsInv', NEW c, Clients = {c}, InjectStart(c) \/ InjectMark(c)
    PROVE  LoneFits(c)' /\ Unseen
<1>0. /\ c \in Clients /\ call \in [Clients -> CallRecord] /\ call[c] \in CallRecord
      /\ RowsOK /\ TypeOK /\ LoneFits(c) /\ CallFits(c) /\ Caller = call[c] /\ Caller' = call'[c]
      /\ started \in BOOLEAN /\ started' \in BOOLEAN
      /\ DOMAIN call = Clients /\ DOMAIN call[c] = {"pc", "seen", "cur", "was", "todo", "at", "places"}
  BY LoneFacts
<1>1. CASE InjectStart(c)
  <2>1. /\ call[c].pc = "injectStart" /\ Goto(c, "injectMark")
        /\ queue \in {"DRAFT", "READY"} /\ call[c].seen = queue /\ target = "ACTIVE" /\ ~started
        /\ Live(status) # {} /\ call[c].cur = Current /\ Active = {}
        /\ status[Current] = call[c].was /\ call[c].was \in PromptInjectable
    BY <1>0, <1>1 DEF InjectStart, At, LoneFits
  <2>2. /\ queue' = "RUNNING" /\ started' = TRUE
        /\ UNCHANGED <<target, status, position, delivered>>
    BY <1>0, <1>1, <2>1 DEF InjectStart, SetQueue, QueueExists
  <2>3. call'[c].pc = "injectMark" /\ call'[c].seen = queue
        /\ call'[c].cur = call[c].cur /\ call'[c].was = call[c].was
    BY <1>0, <2>1, GotoIs
  <2>4. AbsQueue = queue /\ AbsStarted = started /\ AbsStatus = status /\ AbsDelivered = delivered
    BY <1>0, <2>1, AbsPlain DEF Plain
  <2>5. AbsQueue' = queue /\ AbsStatus' = status /\ AbsDelivered' = delivered /\ AbsStarted' = FALSE
    BY <1>0, <2>1, <2>2, <2>3, AbsInjectsNext
  <2>6. Unseen
    <3>1. AbsStarted' = AbsStarted
      BY <1>0, <2>1, <2>4, <2>5
    <3>. QED  BY <2>2, <2>4, <2>5, <3>1 DEF Unseen
  <2>7. call[c].cur \in Live(status) /\ call[c].cur = FirstBy(position, Live(status))
        /\ \A p \in Prompt : status[p] \notin PromptActive
    BY <1>0, <2>1, CurrentIsLive, FirstIs DEF Live, Active
  <2>8. Live(AbsStatus)' = Live(status)
    BY <2>2, <2>5 DEF Live
  <2>9. InjectHeld(c)'
    BY <2>1, <2>2, <2>3, <2>5, <2>7, <2>8 DEF InjectHeld, FirstBy
  <2>10. LoneFits(c)'
    BY <2>2, <2>3, <2>9 DEF LoneFits, Marked, Advances
  <2>. QED  BY <2>6, <2>10
<1>2. CASE InjectMark(c)
  <2>1. /\ call[c].pc = "injectMark" /\ Goto(c, "injectPaste") /\ UNCHANGED promptOnly
        /\ InjectHeld(c) /\ SetPrompt(call[c].cur, "INJECTING")
    BY <1>0, <1>2 DEF InjectMark, At, LoneFits
  <2>2. /\ AbsQueue = call[c].seen /\ AbsStatus = status /\ AbsDelivered = delivered
        /\ AbsStarted = (started /\ call[c].seen \notin {"DRAFT", "READY"})
    BY <1>0, <2>1, AbsInjects
  <2>3. call[c].cur \in Prompt /\ status[call[c].cur] = call[c].was /\ call[c].was # "NONE"
    BY <2>1, <2>2 DEF InjectHeld, Live, PromptInjectable
  <2>4. status' = [status EXCEPT ![call[c].cur] = "INJECTING"]
    BY <2>1, <2>3 DEF SetPrompt
  <2>5. call'[c].pc = "injectPaste" /\ call'[c].seen = call[c].seen
        /\ call'[c].cur = call[c].cur /\ call'[c].was = call[c].was
    BY <1>0, <2>1, GotoIs
  <2>6. /\ AbsQueue' = call[c].seen /\ AbsStatus' = [status' EXCEPT ![call[c].cur] = call[c].was]
        /\ AbsDelivered' = delivered'
        /\ AbsStarted' = (started' /\ call[c].seen \notin {"DRAFT", "READY"})
    BY <1>0, <2>5, AbsInjectsNext DEF Marked
  <2>7. AbsStatus' = status
    BY <1>0, <2>3, <2>4, <2>6 DEF TypeOK
  <2>8. Unseen
    BY <2>1, <2>2, <2>6, <2>7 DEF Unseen, promptOnly
  <2>9. InjectHeld(c)'
    BY <2>1, <2>2, <2>5, <2>7, HeldStays DEF promptOnly
  <2>10. status'[call[c].cur] = "INJECTING"
    BY <1>0, <2>3, <2>4 DEF TypeOK
  <2>11. queue' = "RUNNING"
    BY <2>9 DEF InjectHeld
  <2>12. LoneFits(c)'
    BY <2>5, <2>9, <2>10, <2>11 DEF LoneFits, Marked, Advances
  <2>. QED  BY <2>8, <2>12
<1>. QED  BY <1>1, <1>2

(* The last write of an injection, or its death, is the atomic step. *)
LEMMA InjectEndsRefine ==
    ASSUME LoneInv, CallsInv', NEW c, Clients = {c},
           InjectPaste(c) \/ InjectSubmit(c) \/ InjectRevert(c)
    PROVE  LoneFits(c)' /\ (Atomic!Next \/ Unseen)
<1>0. /\ c \in Clients /\ call \in [Clients -> CallRecord] /\ call[c] \in CallRecord
      /\ RowsOK /\ TypeOK /\ LoneFits(c) /\ CallFits(c) /\ Caller = call[c] /\ Caller' = call'[c]
      /\ started \in BOOLEAN /\ started' \in BOOLEAN
      /\ DOMAIN call = Clients /\ DOMAIN call[c] = {"pc", "seen", "cur", "was", "todo", "at", "places"}
  BY LoneFacts
<1>1. call[c].pc \in Marked
  BY DEF InjectPaste, InjectSubmit, InjectRevert, At, Marked
<1>2. InjectHeld(c) /\ status[call[c].cur] = "INJECTING"
  BY <1>0, <1>1 DEF LoneFits
<1>3. /\ AbsQueue = call[c].seen /\ AbsStatus = [status EXCEPT ![call[c].cur] = call[c].was]
      /\ AbsDelivered = IF call[c].pc = "injectSubmit"
                        THEN [delivered EXCEPT ![call[c].cur] = @ - 1] ELSE delivered
      /\ AbsStarted = (started /\ call[c].seen \notin {"DRAFT", "READY"})
  BY <1>0, <1>1, AbsInjects
<1>4. Atomic!Injectable /\ Atomic!Current = call[c].cur
  BY <1>2, <1>3, HeldIsInjectable
<1>5. /\ call[c].cur \in Prompt /\ target = "ACTIVE" /\ queue = "RUNNING"
      /\ call[c].seen \in {"DRAFT", "READY", "RUNNING"} /\ (call[c].seen # "RUNNING" => started)
  BY <1>2 DEF InjectHeld, Live
<1>6. ASSUME call'[c].pc = "idle", UNCHANGED <<queue, started, target, position>>
      PROVE  /\ Atomic!StartQueue /\ UNCHANGED <<target, position>>
             /\ AbsStatus' = status' /\ AbsDelivered' = delivered'
             /\ LoneFits(c)'
  <2>1. /\ AbsQueue' = queue' /\ AbsStarted' = started'
        /\ AbsStatus' = status' /\ AbsDelivered' = delivered'
    BY <1>0, <1>6, AbsPlainNext DEF Plain
  <2>2. Atomic!StartQueue
    BY <1>0, <1>3, <1>5, <1>6, <2>1 DEF Atomic!StartQueue
  <2>. QED  BY <1>5, <1>6, <2>1, <2>2, IdleFits
<1>7. CASE InjectPaste(c)
  <2>1. call[c].pc = "injectPaste" /\ UNCHANGED <<queue, started, target, status, position>>
    BY <1>7 DEF InjectPaste, At
  <2>2. CASE Return(c)
    <3>1. call'[c].pc = "idle"
      BY <1>0, <2>2, ReturnIs
    <3>2. delivered' = [delivered EXCEPT ![call[c].cur] = @ + 1] \/ delivered' = delivered
      BY <1>7 DEF InjectPaste
    <3>3. status' = [AbsStatus EXCEPT ![call[c].cur] = "INJECTING"]
      BY <1>0, <1>2, <1>3, <1>5, <2>1 DEF TypeOK
    <3>4. Atomic!InjectAborted
      BY <1>3, <1>4, <1>6, <2>1, <3>1, <3>2, <3>3 DEF Atomic!InjectAborted
    <3>. QED  BY <1>6, <2>1, <3>1, <3>4 DEF Atomic!Next
  <2>3. CASE ~Return(c)
    <3>1. \/ delivered' = [delivered EXCEPT ![call[c].cur] = @ + 1] /\ Goto(c, "injectSubmit")
          \/ delivered' = delivered /\ Goto(c, "injectRevert")
      BY <1>7, <2>3 DEF InjectPaste
    <3>2. /\ call'[c].seen = call[c].seen /\ call'[c].cur = call[c].cur /\ call'[c].was = call[c].was
          /\ \/ call'[c].pc = "injectSubmit" /\ delivered' = [delivered EXCEPT ![call[c].cur] = @ + 1]
             \/ call'[c].pc = "injectRevert" /\ delivered' = delivered
      BY <1>0, <3>1, GotoIs
    <3>3. /\ AbsQueue' = call[c].seen /\ AbsStatus' = [status' EXCEPT ![call[c].cur] = call[c].was]
          /\ AbsDelivered' = IF call'[c].pc = "injectSubmit"
                             THEN [delivered' EXCEPT ![call[c].cur] = @ - 1] ELSE delivered'
          /\ AbsStarted' = (started' /\ call[c].seen \notin {"DRAFT", "READY"})
      BY <1>0, <3>2, AbsInjectsNext DEF Marked
    <3>4. AbsDelivered' = delivered
      BY <1>0, <1>5, <3>2, <3>3 DEF TypeOK
    <3>5. Unseen
      BY <1>3, <2>1, <3>3, <3>4 DEF Unseen
    <3>6. InjectHeld(c)'
      BY <1>2, <1>3, <2>1, <3>2, <3>3, HeldStays
    <3>7. LoneFits(c)'
      BY <1>2, <1>5, <2>1, <3>2, <3>6 DEF LoneFits, Marked, Advances
    <3>. QED  BY <3>5, <3>7
  <2>. QED  BY <2>2, <2>3
<1>8. CASE InjectSubmit(c)
  <2>1. call[c].pc = "injectSubmit" /\ Return(c) /\ UNCHANGED promptOnly
        /\ SetPrompt(call[c].cur, "WAITING_COMPLETION")
    BY <1>8 DEF InjectSubmit, At
  <2>2. call'[c].pc = "idle"
    BY <1>0, <2>1, ReturnIs
  <2>3. status' = [status EXCEPT ![call[c].cur] = "WAITING_COMPLETION"]
    BY <1>2, <2>1 DEF SetPrompt
  <2>4. status' = [AbsStatus EXCEPT ![call[c].cur] = "WAITING_COMPLETION"]
    BY <1>0, <1>3, <1>5, <2>3 DEF TypeOK
  <2>5. delivered = [AbsDelivered EXCEPT ![call[c].cur] = @ + 1]
    <3>1. AbsDelivered = [delivered EXCEPT ![call[c].cur] = @ - 1]
      BY <1>3, <2>1
    <3>2. \A d \in [Prompt -> Nat], p \in Prompt :
              d = [[d EXCEPT ![p] = @ - 1] EXCEPT ![p] = @ + 1]
      <4>. TAKE d \in [Prompt -> Nat], p \in Prompt
      <4>1. DOMAIN [[d EXCEPT ![p] = @ - 1] EXCEPT ![p] = @ + 1] = Prompt /\ DOMAIN d = Prompt
        OBVIOUS
      <4>2. ASSUME NEW q \in Prompt
            PROVE  [[d EXCEPT ![p] = @ - 1] EXCEPT ![p] = @ + 1][q] = d[q]
        OBVIOUS
      <4>. QED  BY <4>1, <4>2, Zenon
    <3>. QED  BY <1>0, <1>5, <3>1, <3>2 DEF TypeOK
  <2>6. Atomic!InjectSubmitted
    BY <1>4, <1>6, <2>1, <2>2, <2>4, <2>5 DEF Atomic!InjectSubmitted, promptOnly
  <2>. QED  BY <1>6, <2>1, <2>2, <2>6 DEF Atomic!Next, promptOnly
<1>9. CASE InjectRevert(c)
  <2>1. call[c].pc = "injectRevert" /\ Return(c) /\ UNCHANGED promptOnly
        /\ SetPrompt(call[c].cur, "READY_TO_INJECT")
    BY <1>9 DEF InjectRevert, At
  <2>2. call'[c].pc = "idle"
    BY <1>0, <2>1, ReturnIs
  <2>3. status' = [status EXCEPT ![call[c].cur] = "READY_TO_INJECT"]
    BY <1>2, <2>1 DEF SetPrompt
  <2>4. status' = [AbsStatus EXCEPT ![call[c].cur] = "READY_TO_INJECT"]
    BY <1>0, <1>3, <1>5, <2>3 DEF TypeOK
  <2>5. Atomic!InjectRefused
    BY <1>3, <1>4, <1>6, <2>1, <2>2, <2>4 DEF Atomic!InjectRefused, promptOnly
  <2>. QED  BY <1>6, <2>1, <2>2, <2>5 DEF Atomic!Next, promptOnly
<1>. QED  BY <1>7, <1>8, <1>9

(* Every step of a lone client is one of PromptQueue's or is not seen.       *)
LEMMA NextRefines ==
    ASSUME LoneClient
    PROVE  LoneInv /\ [CallsNext]_callVars => LoneInv' /\ [Atomic!Next]_(Atomic!vars)
<1>. SUFFICES ASSUME LoneInv, [CallsNext]_callVars
              PROVE  LoneInv' /\ [Atomic!Next]_(Atomic!vars)
  OBVIOUS
<1>1. PICK c : Clients = {c}
  BY DEF LoneClient
<1>2. CallsInv'
  BY NextKeepsCallsInv DEF LoneInv
<1>3. LoneFits(c)' => LoneInv'
  BY <1>1, <1>2 DEF LoneInv
<1>4. Unseen => UNCHANGED Atomic!vars
  BY DEF Unseen, Atomic!vars
<1>5. CASE UNCHANGED callVars
  <2>1. UNCHANGED vars /\ call' = call
    BY <1>5 DEF callVars, vars
  <2>2. LoneFits(c)
    BY <1>1 DEF LoneInv
  <2>3. AbsStatus' = AbsStatus /\ AbsQueue' = AbsQueue /\ AbsStarted' = AbsStarted
        /\ AbsDelivered' = AbsDelivered
    <3>1. /\ queue' = queue /\ started' = started /\ status' = status /\ delivered' = delivered
          /\ Caller' = Caller /\ InjectMarked' = InjectMarked /\ InjectWrote' = InjectWrote
          /\ Advancing' = Advancing
      BY <2>1 DEF vars, Caller, InjectMarked, InjectWrote, Advancing
    <3>2. ReadyNext(status)' = ReadyNext(status)
      BY <2>1, <3>1, SameRows DEF ReadyNext
    <3>3. QueueAfter(status)' = QueueAfter(status)
      BY <2>1, <3>1, SameRows DEF QueueAfter, QueueTerminal
    <3>4. CancelledStatus(status)' = CancelledStatus(status)
      BY <2>1, <3>1, SameRows DEF CancelledStatus, Prompt
    <3>5. AbsStatus' = AbsStatus
      BY <3>1, <3>2, <3>4 DEF AbsStatus
    <3>6. AbsQueue' = AbsQueue
      BY <3>1, <3>3 DEF AbsQueue
    <3>7. AbsStarted' = AbsStarted /\ AbsDelivered' = AbsDelivered
      BY <3>1 DEF AbsStarted, AbsDelivered
    <3>. QED  BY <3>5, <3>6, <3>7
  <2>4. InjectHeld(c) => InjectHeld(c)'
    BY <2>1, <2>3, HeldStays DEF vars
  <2>5. Listed' = Listed /\ LastPosition' = LastPosition
    BY <2>1 DEF vars, Listed, LastPosition
  <2>6. LoneFits(c)'
    BY <2>1, <2>2, <2>4, <2>5, SameRows DEF LoneFits, vars
  <2>. QED  BY <1>3, <1>4, <2>1, <2>3, <2>6 DEF Unseen, vars
<1>6. CASE Step(c)
  <2>1. ~Die(c)
    BY DEF Die, LoneClient
  <2>2. LoneFits(c)' /\ (Atomic!Next \/ Unseen)
    BY <1>1, <1>2, <1>6, <2>1, SingleRefines, AddRefines, ReorderRefines, FinishRefines,
       SwitchRefines, InjectReadsRefine, InjectWritesRefine, InjectEndsRefine DEF Step, Injecting
  <2>. QED  BY <1>3, <1>4, <2>2
<1>. QED  BY <1>1, <1>5, <1>6 DEF CallsNext

(* The initial state is the atomic queue's. *)
LEMMA InitRefines ==
    ASSUME LoneClient, CallsInit
    PROVE  LoneInv /\ Atomic!Init
<1>1. PICK c : Clients = {c}
  BY DEF LoneClient
<1>2. Init /\ call[c].pc = "idle" /\ Caller = call[c] /\ CallsInv
  BY <1>1, IdleIs, CallerIs, InitCallsInv DEF CallsInit
<1>3. AbsQueue = queue /\ AbsStarted = started /\ AbsStatus = status /\ AbsDelivered = delivered
  BY <1>2, AbsPlain DEF Plain, CallsInv, RowsOK, TypeOK
<1>4. Atomic!Init
  BY <1>2, <1>3, SameOperators DEF Init, Atomic!Init
<1>5. LoneFits(c)
  BY <1>2 DEF LoneFits, Init, Marked, Advances
<1>. QED  BY <1>1, <1>2, <1>4, <1>5 DEF LoneInv

(* The operations of a lone client who is not killed, taken apart into their *)
(* storage calls, implement the atomic operations of PromptQueue, for any    *)
(* number of prompts and any outcome of the injections.                     *)
THEOREM LoneClientSeesAtomicOperations ==
    ASSUME LoneClient
    PROVE  CallsSpec => RefinesPromptQueue
<1>1. CallsInit => LoneInv /\ Atomic!Init
  BY InitRefines
<1>2. LoneInv /\ [CallsNext]_callVars => LoneInv' /\ [Atomic!Next]_(Atomic!vars)
  BY NextRefines
<1>. QED  BY <1>1, <1>2, PTL DEF CallsSpec, RefinesPromptQueue, Atomic!Spec

--------------------------------------------------------------------------------
(* The order of work, for prompts with statuses s. *)
Orderly(s) ==
    \A p, q \in Prompt :
        s[p] # "NONE" /\ s[q] # "NONE" /\ Before(p, q)
            => s[p] \in PromptTerminal \/ s[q] = "PENDING"

(* Prompts are appended only, and PENDING ones moved to the end only. *)
AppendOnly == AddPositions = {} /\ \A n \in NewPositions : n >= NumPrompts

(* Whatever becomes of the current prompt: what is ahead of it is finished *)
(* and what is behind it is PENDING.                                       *)
LEMMA CurrentMoves ==
    ASSUME TypeOK, NEW s, DOMAIN s = Prompt, Orderly(s), Live(s) # {}, NEW v
    PROVE  Orderly([s EXCEPT ![First(Live(s))] = v])
<1> DEFINE cur == First(Live(s))
           t == [s EXCEPT ![cur] = v]
<1>1. Live(s) \in SUBSET Prompt
  BY DEF Live
<1>2. cur \in Live(s) /\ \A q \in Live(s) \ {cur} : Before(cur, q)
  BY <1>1, FirstIsLeast
<1>3. cur \in Prompt /\ s[cur] \notin PromptTerminal /\ s[cur] # "NONE"
  BY <1>2 DEF Live
<1> HIDE DEF cur
<1>4. \A p \in Prompt : t[p] = IF p = cur THEN v ELSE s[p]
  BY <1>3
<1> HIDE DEF t
<1>5. ASSUME NEW p \in Prompt, NEW q \in Prompt, t[p] # "NONE", t[q] # "NONE", Before(p, q)
      PROVE  t[p] \in PromptTerminal \/ t[q] = "PENDING"
  <2>1. p # q
    BY <1>5, BeforeTotal
  <2>2. CASE p = cur
    <3>1. s[q] # "NONE" /\ t[q] = s[q]
      BY <1>4, <1>5, <2>1, <2>2
    <3>. QED  BY <1>3, <1>5, <2>2, <3>1 DEF Orderly
  <2>3. CASE q = cur
    <3>1. s[p] # "NONE" /\ t[p] = s[p]
      BY <1>4, <1>5, <2>1, <2>3
    <3>2. p \notin Live(s)
      BY <1>2, <1>3, <1>5, <2>1, <2>3, BeforeTotal
    <3>. QED  BY <3>1, <3>2 DEF Live
  <2>4. CASE p # cur /\ q # cur
    BY <1>4, <1>5, <2>4 DEF Orderly
  <2>. QED  BY <2>2, <2>3, <2>4
<1>6. Orderly(t)
  BY <1>5 DEF Orderly
<1>. QED  BY <1>6 DEF t, cur

(* A finished prompt hands over to the next one. *)
LEMMA FinishedMovesOn ==
    ASSUME TypeOK, NEW s, DOMAIN s = Prompt, Orderly(s), Live(s) # {},
           NEW outcome \in {"DONE", "SKIPPED"}
    PROVE  Orderly(NextReady(position, [s EXCEPT ![First(Live(s))] = outcome]))
<1> DEFINE cur == First(Live(s))
           t == [s EXCEPT ![cur] = outcome]
<1>1. Live(s) \in SUBSET Prompt
  BY DEF Live
<1>2. cur \in Live(s) /\ \A q \in Live(s) \ {cur} : Before(cur, q)
  BY <1>1, FirstIsLeast
<1>3. cur \in Prompt /\ s[cur] \notin PromptTerminal /\ s[cur] # "NONE"
  BY <1>2 DEF Live
<1>4. Orderly(t)
  BY CurrentMoves
<1> HIDE DEF cur
<1>5. DOMAIN t = Prompt /\ \A p \in Prompt : t[p] = IF p = cur THEN outcome ELSE s[p]
  BY <1>3
<1> HIDE DEF t
<1>6. Live(t) = Pending(t)
  <2>1. ASSUME NEW q \in Live(t)
        PROVE  q \in Pending(t)
    <3>1. q \in Prompt /\ q # cur /\ q \in Live(s) /\ t[q] = s[q]
      BY <1>5 DEF Live, PromptTerminal
    <3>2. Before(cur, q) /\ s[q] # "NONE"
      BY <1>2, <3>1 DEF Live
    <3>. QED  BY <1>3, <3>1, <3>2 DEF Orderly, Pending
  <2>. QED  BY <2>1 DEF Live, Pending, PromptTerminal
<1>7. CASE Pending(t) = {}
  BY <1>4, <1>7 DEF NextReady, t, cur
<1>8. CASE Pending(t) # {}
  <2>1. FirstBy(position, Pending(t)) = First(Live(t))
    BY <1>6 DEF FirstBy, First, Before
  <2>2. NextReady(position, t) = [t EXCEPT ![First(Live(t))] = "READY_TO_INJECT"]
    BY <1>8, <2>1 DEF NextReady
  <2>3. Orderly(NextReady(position, t))
    BY <1>4, <1>5, <1>6, <1>8, <2>2, CurrentMoves
  <2>. QED  BY <2>3 DEF t, cur
<1>. QED  BY <1>7, <1>8

(* The instance's InOrder is the order of the mapped statuses. *)
LEMMA OrderlyIs ==
    /\ Atomic!InOrder <=> Orderly(AbsStatus)
    /\ Atomic!InOrder' <=> Orderly(AbsStatus)'
BY SameOperators DEF Atomic!InOrder, Atomic!Listed, Atomic!Before, Before, Orderly

(* The mapped statuses are statuses of the prompts. *)
LEMMA AbsStatusDomain ==
    ASSUME LoneInv
    PROVE  DOMAIN AbsStatus = Prompt /\ TypeOK
<1>1. TypeOK /\ DOMAIN status = Prompt
  BY DEF LoneInv, CallsInv, RowsOK, TypeOK
<1>. QED  BY <1>1 DEF AbsStatus, ReadyNext, CancelledStatus

(* A prompt is appended. *)
LEMMA AppendKeepsOrder ==
    ASSUME TypeOK, DOMAIN AbsStatus = Prompt, Orderly(AbsStatus), Atomic!AddAtEnd
    PROVE  Orderly(AbsStatus)'
<1>1. PICK p \in Prompt \ Atomic!Listed :
        /\ AbsStatus' = [AbsStatus EXCEPT ![p] = "PENDING"]
        /\ position' = [position EXCEPT ![p] = Atomic!LastPosition + 1]
  BY SameOperators DEF Atomic!AddAtEnd, Atomic!AddPrompt
<1> DEFINE listed == {q \in Prompt : AbsStatus[q] # "NONE"}
           last == Atomic!LastPosition
<1>2. Atomic!Listed = listed
  BY SameOperators DEF Atomic!Listed
<1>3. last \in Int /\ \A q \in listed : position[q] <= last
  <2>1. CASE listed = {}
    BY <1>2, <2>1 DEF Atomic!LastPosition
  <2>2. CASE listed # {}
    <3>1. \E x \in listed : \A q \in listed : position[q] <= position[x]
      BY <2>2, HighestPosition
    <3> DEFINE top == CHOOSE x \in listed : \A q \in listed : position[q] <= position[x]
    <3>2. top \in listed /\ \A q \in listed : position[q] <= position[top]
      BY <3>1
    <3>3. last = position[top]
      BY <1>2, <2>2 DEF Atomic!LastPosition
    <3>. QED  BY <3>2, <3>3 DEF TypeOK
  <2>. QED  BY <2>1, <2>2
<1> HIDE DEF last
<1>4. \A q \in Prompt : /\ AbsStatus'[q] = IF q = p THEN "PENDING" ELSE AbsStatus[q]
                        /\ position'[q] = IF q = p THEN last + 1 ELSE position[q]
                        /\ position[q] \in Int
  BY <1>1 DEF TypeOK, last
<1>5. ASSUME NEW a \in Prompt, NEW b \in Prompt, AbsStatus'[a] # "NONE", AbsStatus'[b] # "NONE",
             Before(a, b)'
      PROVE  AbsStatus'[a] \in PromptTerminal \/ AbsStatus'[b] = "PENDING"
  <2>1. CASE b = p
    BY <1>4, <2>1
  <2>2. CASE b # p /\ a # p
    BY <1>4, <1>5, <2>2 DEF Orderly, Before
  <2>3. CASE b # p /\ a = p
    <3>1. b \in listed /\ position'[a] = last + 1 /\ position'[b] = position[b]
      BY <1>4, <1>5, <2>3
    <3>2. position[b] <= last /\ position[b] \in Int
      BY <1>3, <1>4, <3>1
    <3>. QED  BY <1>3, <1>5, <3>1, <3>2 DEF Before
  <2>. QED  BY <2>1, <2>2, <2>3
<1>. QED  BY <1>5 DEF Orderly

(* A PENDING prompt is moved to the end. *)
LEMMA MoveKeepsOrder ==
    ASSUME AppendOnly, TypeOK, DOMAIN AbsStatus = Prompt, Orderly(AbsStatus),
           NEW p \in Prompt, NEW n \in NewPositions, Atomic!Reorder(p, n)
    PROVE  Orderly(AbsStatus)'
<1> DEFINE others == {q \in Prompt : AbsStatus[q] # "NONE"} \ {p}
           rank(q) == Cardinality({r \in others : Before(r, q)})
           size == Cardinality(others)
<1>1. /\ AbsStatus[p] = "PENDING" /\ AbsStatus' = AbsStatus
      /\ position' = Atomic!Renumbered(p, n)
  BY DEF Atomic!Reorder
<1>2. /\ others \in SUBSET Prompt /\ size \in Nat
      /\ \A q \in Prompt : rank(q) \in Nat
  BY PromptSubset
<1>3. \A q \in others : rank(q) < size
  <2>1. ASSUME NEW q \in others
        PROVE  rank(q) < size
    <3> DEFINE R == {r \in others : Before(r, q)}
    <3>1. R \subseteq others /\ q \notin R
      BY BeforeTotal
    <3>2. IsFiniteSet(others) /\ Cardinality(R) \in Nat
      BY PromptSubset
    <3>3. Cardinality(R) <= size /\ Cardinality(R) # size
      BY <3>1, <3>2, FS_Subset
    <3>. QED  BY <1>2, <3>2, <3>3
  <2>. QED  BY <2>1
<1>4. size < NumPrompts
  <2>1. IsFiniteSet(Prompt) /\ Cardinality(Prompt) = NumPrompts
    BY NumPromptsAssumption, FS_Interval DEF Prompt
  <2>2. others \subseteq Prompt /\ p \notin others
    OBVIOUS
  <2>3. size <= NumPrompts /\ size # NumPrompts
    BY <2>1, <2>2, FS_Subset
  <2>. QED  BY <1>2, <2>3, NumPromptsAssumption
<1>5. n \in Int /\ n >= NumPrompts /\ NumPrompts \in Nat
  BY PositionsAssumption, NumPromptsAssumption DEF AppendOnly
<1>6. position' = [q \in Prompt |->
                      IF q = p THEN size + 1
                      ELSE IF q \notin others THEN position[q]
                      ELSE IF rank(q) < size THEN rank(q) + 1
                      ELSE rank(q) + 2]
  <2>1. ~(n - 1 < 0) /\ (~(n - 1 > size) => n - 1 = size)
    BY <1>2, <1>4, <1>5
  <2>2. Atomic!Listed \ {p} = others
    BY SameOperators DEF Atomic!Listed
  <2>. QED  BY <1>1, <2>1, <2>2, SameOperators, SameCardinality
            DEF Atomic!Renumbered, Atomic!Before, Before
<1>7. ASSUME NEW a \in Prompt, NEW b \in Prompt, AbsStatus[a] # "NONE", AbsStatus[b] # "NONE",
             Before(a, b)'
      PROVE  AbsStatus[a] \in PromptTerminal \/ AbsStatus[b] = "PENDING"
  <2>1. CASE b = p
    BY <1>1, <2>1
  <2>2. CASE a = p /\ b # p
    <3>1. b \in others
      BY <1>7, <2>2
    <3>2. position'[a] = size + 1 /\ position'[b] = rank(b) + 1
      BY <1>3, <1>6, <2>2, <3>1
    <3> HIDE DEF others, rank, size
    <3>. QED  BY <1>2, <1>3, <1>7, <3>1, <3>2 DEF Before
  <2>3. CASE a # p /\ b # p
    <3>1. a \in others /\ b \in others
      BY <1>7, <2>3
    <3>2. position'[a] = rank(a) + 1 /\ position'[b] = rank(b) + 1
      BY <1>3, <1>6, <2>3, <3>1
    <3>3. Before(b, a) => rank(b) < rank(a)
      BY <3>1, RankGrows
    <3>4. a # b => Before(a, b)
      <4> HIDE DEF others, rank, size
      <4>. QED  BY <1>2, <1>7, <3>2, <3>3, BeforeTotal DEF Before
    <3>5. a # b
      <4>1. a \in Int
        BY NumPromptsAssumption DEF Prompt
      <4> HIDE DEF others, rank, size
      <4>. QED  BY <1>2, <1>7, <3>2, <4>1 DEF Before
    <3>. QED  BY <1>7, <3>4, <3>5 DEF Orderly
  <2>. QED  BY <2>1, <2>2, <2>3
<1>. QED  BY <1>1, <1>7 DEF Orderly

(* Any atomic operation keeps the order, and so does a step that is not seen. *)
LEMMA NextKeepsOrder ==
    ASSUME AppendOnly, LoneInv, Atomic!InOrder, [Atomic!Next]_(Atomic!vars)
    PROVE  Atomic!InOrder'
<1>. SUFFICES Orderly(AbsStatus)'
  BY OrderlyIs
<1>1. DOMAIN AbsStatus = Prompt /\ TypeOK /\ Orderly(AbsStatus)
  BY AbsStatusDomain, OrderlyIs
<1>2. ASSUME position' = position, Orderly(AbsStatus')
      PROVE  Orderly(AbsStatus)'
  BY <1>2 DEF Orderly, Before
<1> DEFINE cur == First(Live(AbsStatus))
<1>3. Atomic!Current = cur
  BY SameOperators DEF Atomic!Current, First, FirstBy, Before
<1>4. CASE UNCHANGED Atomic!vars \/ (AbsStatus' = AbsStatus /\ position' = position)
  BY <1>1, <1>2, <1>4 DEF Atomic!vars
<1>5. CASE Atomic!DeleteQueue
  <2>1. AbsStatus' = [p \in Prompt |-> "NONE"]
    BY <1>5, SameOperators DEF Atomic!DeleteQueue
  <2>. QED  BY <2>1 DEF Orderly
<1>6. CASE Atomic!AddAtEnd
  BY <1>1, <1>6, AppendKeepsOrder
<1>7. CASE \E p \in Atomic!Prompt, n \in NewPositions : Atomic!Reorder(p, n)
  BY <1>1, <1>7, MoveKeepsOrder, SameOperators
<1>8. CASE Atomic!InjectSubmitted \/ Atomic!InjectRefused \/ Atomic!InjectAborted
  <2>1. Live(AbsStatus) # {} /\ position' = position
    BY <1>8, SameOperators DEF Atomic!InjectSubmitted, Atomic!InjectRefused, Atomic!InjectAborted,
                               Atomic!Injectable
  <2>2. PICK v \in {"WAITING_COMPLETION", "READY_TO_INJECT", "INJECTING"} :
          AbsStatus' = [AbsStatus EXCEPT ![cur] = v]
    BY <1>3, <1>8 DEF Atomic!InjectSubmitted, Atomic!InjectRefused, Atomic!InjectAborted
  <2>. QED  BY <1>1, <1>2, <2>1, <2>2, CurrentMoves
<1>9. CASE Atomic!MarkCurrentComplete \/ Atomic!SkipCurrentPrompt
  <2>1. PICK outcome \in {"DONE", "SKIPPED"} : Live(AbsStatus) # {} /\ Atomic!FinishPrompt(outcome)
    BY <1>9, SameOperators DEF Atomic!MarkCurrentComplete, Atomic!SkipCurrentPrompt
  <2>2. /\ position' = position
        /\ AbsStatus' = Atomic!ReadyNext([AbsStatus EXCEPT ![cur] = outcome])
    BY <1>3, <2>1 DEF Atomic!FinishPrompt
  <2>3. \A s : Atomic!ReadyNext(s) = NextReady(position, s)
    BY SameOperators DEF Atomic!ReadyNext, NextReady
  <2>. QED  BY <1>1, <1>2, <2>1, <2>2, <2>3, FinishedMovesOn
<1>10. CASE Atomic!CancelQueue
  <2>1. AbsStatus' = [p \in Prompt |-> IF p \in Live(AbsStatus) THEN "CANCELLED" ELSE AbsStatus[p]]
    BY <1>10, SameOperators DEF Atomic!CancelQueue, Atomic!CancelledStatus
  <2>2. \A p \in Prompt : AbsStatus'[p] \in PromptTerminal \cup {"NONE"}
    BY <2>1 DEF Live, PromptTerminal
  <2>. QED  BY <2>2 DEF Orderly
<1>11. CASE \/ Atomic!CreateQueue \/ Atomic!SetTargetStatus \/ Atomic!PauseQueue
            \/ Atomic!ResumeQueue
  <2>1. AbsStatus' = AbsStatus /\ position' = position
    BY <1>11 DEF Atomic!CreateQueue, Atomic!SetTargetStatus, Atomic!PauseQueue, Atomic!ResumeQueue
  <2>. QED  BY <1>4, <2>1
<1>12. ~Atomic!AddAtPosition
  BY DEF AppendOnly, Atomic!AddAtPosition
<1>. QED  BY <1>4, <1>5, <1>6, <1>7, <1>8, <1>9, <1>10, <1>11, <1>12 DEF Atomic!Next

(* A lone client that appends its prompts and moves PENDING ones to the end *)
(* only finds its queue worked off in order, however the injections end and *)
(* whatever it skips (prompt_queue.py: _advance_queue).                     *)
THEOREM QueuesAreWorkedOffInOrder ==
    ASSUME LoneClient, AppendOnly
    PROVE  CallsSpec => []WorkedOffInOrder
<1>1. CallsInit => LoneInv /\ Atomic!InOrder
  <2>. SUFFICES ASSUME CallsInit PROVE LoneInv /\ Atomic!InOrder
    OBVIOUS
  <2>1. LoneInv
    BY InitRefines
  <2>2. Orderly(AbsStatus)
    <3>1. AbsStatus = [p \in Prompt |-> "NONE"]
      BY InitRefines, SameOperators DEF Atomic!Init
    <3>. QED  BY <3>1 DEF Orderly
  <2>. QED  BY <2>1, <2>2, OrderlyIs
<1>2. LoneInv /\ Atomic!InOrder /\ [CallsNext]_callVars => LoneInv' /\ Atomic!InOrder'
  BY NextRefines, NextKeepsOrder
<1>. QED  BY <1>1, <1>2, PTL DEF CallsSpec, WorkedOffInOrder
================================================================================
