----------------------------- MODULE RecoveryProofs ----------------------------
(***************************************************************************)
(* Proofs about Recovery for any number of runs, attempts and callers.     *)
(*                                                                         *)
(* That links lead forward is proved for any executors and deciders: it    *)
(* rests on LinkInv, the facts about a run that is being made and linked.  *)
(* That an attempt hands over one run only is proved for one executor      *)
(* beside any number of deciders, as the command line runs it: two         *)
(* executors of one attempt make a run each.  It needs HandInv, which says *)
(* at each step of an execution what it has handed over.                   *)
(***************************************************************************)
EXTENDS Recovery, SequenceTheorems, TLAPS

Executing == {"create", "link", "enqueue", "execute", "agent", "executed", "failed"}
HasRun == Executing \ {"create"}
HasLink == HasRun \ {"link"}
HandedOver == {"agent", "executed"}

CallRecord == [pc : Executing \cup {"idle", "decide", "dead"}, attempt : 0..MaxAttempts,
               to : AttemptStatus \cup {"NONE"}, queue : BOOLEAN, run : 0..NumRuns]

(* TypeOK, with the shape of a call and what it may hold at each step.       *)
Types ==
    /\ TypeOK
    /\ Len(attempts) <= MaxAttempts
    /\ call \in [Callers -> CallRecord]
    /\ \A p \in Callers :
          /\ call[p].pc \notin {"idle", "dead"} => call[p].attempt \in DOMAIN attempts
          /\ call[p].pc \in Executing => p \in Executors
          /\ call[p].pc \in HasRun => call[p].run \in Runs
          /\ call[p].pc = "decide" => call[p].to \in {"APPROVED", "REJECTED"}

(* A run is made for an attempt that is there, and nothing is linked,        *)
(* queued, started or recovered before it is made.                           *)
LinkInv ==
    /\ Types
    /\ \A r \in queued \cup started : status[r] # "NONE"
    /\ \A r \in Runs : origin[r] <= Len(attempts)
    /\ \A a \in DOMAIN attempts :
          /\ status[attempts[a].source] # "NONE"
          /\ attempts[a].link # 0 => status[attempts[a].link] # "NONE"
    /\ \A p \in Callers : call[p].pc \in HasRun =>
          status[call[p].run] # "NONE" /\ origin[call[p].run] = call[p].attempt
    /\ LinksLeadForward

UnderWay(a) == {r \in queued \cup started : origin[r] = a}

(* What an execution has handed over, and that an attempt without one has    *)
(* nothing under way unless it is EXECUTED.                                  *)
HandInv ==
    /\ LinkInv
    /\ \A p \in Callers : call[p].pc \in Executing =>
          /\ attempts[call[p].attempt].status # "EXECUTED"
          /\ call[p].pc \in HasLink => attempts[call[p].attempt].link = call[p].run
          /\ call[p].pc \in HandedOver => call[p].run \in queued \/ status[call[p].run] # "CREATED"
          /\ call[p].attempt \notin cut =>
                UnderWay(call[p].attempt) \subseteq IF call[p].pc \in HandedOver THEN {call[p].run} ELSE {}
    /\ \A a \in DOMAIN attempts \ cut : UnderWay(a) # {} =>
          \/ attempts[a].status = "EXECUTED"
          \/ \E p \in Callers : call[p].pc \in HandedOver /\ call[p].attempt = a
    /\ ExecutedIsHandedOver
    /\ NoDoubleRecovery

OneExecutor == \A p, q \in Executors : p = q

--------------------------------------------------------------------------------
(* The attempts are a sequence of rows; to amend one leaves their number.    *)
LEMMA AttemptsAre ==
    ASSUME TypeOK
    PROVE  /\ Len(attempts) \in Nat /\ DOMAIN attempts = 1..Len(attempts)
           /\ \A a \in DOMAIN attempts : attempts[a] \in RecoveryAttempt
BY DEF TypeOK

LEMMA Amended ==
    ASSUME TypeOK, NEW a \in DOMAIN attempts, NEW row \in RecoveryAttempt,
           attempts' = [attempts EXCEPT ![a] = row]
    PROVE  /\ attempts' \in Seq(RecoveryAttempt)
           /\ Len(attempts') = Len(attempts) /\ DOMAIN attempts' = DOMAIN attempts
           /\ \A b \in DOMAIN attempts : attempts'[b] = IF b = a THEN row ELSE attempts[b]
BY AttemptsAre, ExceptSeq DEF TypeOK

(* A row given another status keeps its source and link.                     *)
LEMMA StatusAmended ==
    ASSUME TypeOK, NEW a \in DOMAIN attempts, NEW to \in AttemptStatus,
           attempts' = [attempts EXCEPT ![a].status = to]
    PROVE  /\ attempts' \in Seq(RecoveryAttempt)
           /\ Len(attempts') = Len(attempts) /\ DOMAIN attempts' = DOMAIN attempts
           /\ attempts'[a].status = to
           /\ \A b \in DOMAIN attempts :
                 /\ b # a => attempts'[b] = attempts[b]
                 /\ attempts'[b].source = attempts[b].source /\ attempts'[b].link = attempts[b].link
<1>. DEFINE row == [attempts[a] EXCEPT !.status = to]
<1>1. /\ row \in RecoveryAttempt /\ row.status = to
      /\ row.source = attempts[a].source /\ row.link = attempts[a].link
  BY AttemptsAre DEF RecoveryAttempt
<1>2. attempts' = [attempts EXCEPT ![a] = row]
  OBVIOUS
<1>. HIDE DEF row
<1>. QED  BY <1>1, <1>2, Amended

(* What one caller's step does to the calls. *)
LEMMA CallTyped ==
    ASSUME Types, NEW p \in Callers, NEW next \in CallRecord,
           call' = [call EXCEPT ![p] = next],
           DOMAIN attempts \subseteq DOMAIN attempts',
           next.pc \notin {"idle", "dead"} => next.attempt \in DOMAIN attempts',
           next.pc \in Executing => p \in Executors,
           next.pc \in HasRun => next.run \in Runs,
           next.pc = "decide" => next.to \in {"APPROVED", "REJECTED"}
    PROVE  /\ call' \in [Callers -> CallRecord]
           /\ call'[p] = next /\ \A q \in Callers : q # p => call'[q] = call[q]
           /\ \A q \in Callers :
                 /\ call'[q].pc \notin {"idle", "dead"} => call'[q].attempt \in DOMAIN attempts'
                 /\ call'[q].pc \in Executing => q \in Executors
                 /\ call'[q].pc \in HasRun => call'[q].run \in Runs
                 /\ call'[q].pc = "decide" => call'[q].to \in {"APPROVED", "REJECTED"}
<1>1. \A q \in Callers : call'[q] = IF q = p THEN next ELSE call[q]
  BY DEF Types
<1>2. call' \in [Callers -> CallRecord]
  BY DEF Types
<1>. QED  BY <1>1, <1>2 DEF Types

(* The call's part of TypeOK follows from its shape. *)
LEMMA TypesFollow ==
    ASSUME Types, NEW p \in Callers, NEW next \in CallRecord,
           call' = [call EXCEPT ![p] = next],
           DOMAIN attempts' = DOMAIN attempts, Len(attempts') = Len(attempts),
           attempts' \in Seq(RecoveryAttempt),
           status' \in [Runs -> RunStatus], queued' \subseteq Runs, started' \subseteq Runs,
           origin' \in [Runs -> 0..MaxAttempts], cut' \subseteq DOMAIN attempts,
           next.attempt \in 0..Len(attempts),
           next.pc \notin {"idle", "dead"} => next.attempt \in DOMAIN attempts,
           next.pc \in Executing => p \in Executors,
           next.pc \in HasRun => next.run \in Runs,
           next.pc = "decide" => next.to \in {"APPROVED", "REJECTED"}
    PROVE  Types' /\ call'[p] = next /\ \A q \in Callers : q # p => call'[q] = call[q]
<1>1. /\ call' \in [Callers -> CallRecord]
      /\ call'[p] = next /\ \A q \in Callers : q # p => call'[q] = call[q]
      /\ \A q \in Callers :
            /\ call'[q].pc \notin {"idle", "dead"} => call'[q].attempt \in DOMAIN attempts'
            /\ call'[q].pc \in Executing => q \in Executors
            /\ call'[q].pc \in HasRun => call'[q].run \in Runs
            /\ call'[q].pc = "decide" => call'[q].to \in {"APPROVED", "REJECTED"}
  BY CallTyped
<1>2. \A q \in Callers : call'[q].attempt \in 0..Len(attempts) /\ call'[q].run \in 0..NumRuns
  BY <1>1 DEF Types, TypeOK, CallRecord
<1>3. TypeOK'
  BY <1>2 DEF TypeOK, Types
<1>. QED  BY <1>1, <1>3 DEF Types

(* Idle is a call, and a call that only moves on keeps what it holds.        *)
LEMMA CallsMoveOn ==
    ASSUME Types, NEW p \in Callers
    PROVE  /\ Idle \in CallRecord /\ Idle.pc = "idle" /\ Idle.attempt = 0
           /\ call[p] \in CallRecord
           /\ \A pc \in Executing \cup {"dead"} :
                 LET next == [call[p] EXCEPT !.pc = pc] IN
                 /\ next \in CallRecord /\ next.pc = pc
                 /\ next.attempt = call[p].attempt /\ next.run = call[p].run
BY RecoveryAssumption DEF Types, CallRecord, Idle, AttemptStatus

LEMMA InitLinkInv == Init => LinkInv
<1>. SUFFICES ASSUME Init PROVE LinkInv
  OBVIOUS
<1>1. /\ Len(attempts) = 0 /\ DOMAIN attempts = {} /\ attempts \in Seq(RecoveryAttempt)
      /\ \A p \in Callers : call[p] = Idle
      /\ 1 \in Runs /\ started = {1} /\ queued = {} /\ status[1] = "FAILED" /\ cut = {}
  BY RecoveryAssumption DEF Init, Runs
<1>2. Idle \in CallRecord /\ Idle.pc = "idle" /\ Idle.attempt = 0 /\ Idle.run = 0
  BY RecoveryAssumption DEF CallRecord, Idle, AttemptStatus
<1>3. TypeOK
  BY <1>1, <1>2, RecoveryAssumption DEF Init, TypeOK, RunStatus, Terminal
<1>4. Types
  BY <1>1, <1>2, <1>3, RecoveryAssumption DEF Init, Types, Executing, HasRun
<1>. QED  BY <1>1, <1>2, <1>4 DEF LinkInv, LinksLeadForward, HasRun, Executing, Init
(* A step that makes no run, no link and no attempt. *)
LEMMA LinksStay ==
    ASSUME LinkInv, Types', origin' = origin,
           \A r \in Runs : status'[r] = "NONE" <=> status[r] = "NONE",
           \A r \in queued' \cup started' : r \in Runs /\ status[r] # "NONE",
           DOMAIN attempts' = DOMAIN attempts, Len(attempts') = Len(attempts),
           \A a \in DOMAIN attempts : /\ attempts'[a].source = attempts[a].source
                                      /\ attempts'[a].link = attempts[a].link,
           \A p \in Callers : call'[p].pc \in HasRun =>
               /\ call[p].pc \in HasRun
               /\ call'[p].run = call[p].run /\ call'[p].attempt = call[p].attempt
    PROVE  LinkInv'
<1>1. \A a \in DOMAIN attempts : attempts[a].source \in Runs /\ (attempts[a].link # 0 => attempts[a].link \in Runs)
  BY AttemptsAre DEF LinkInv, Types, RecoveryAttempt, Runs
<1>2. \A p \in Callers : call[p].pc \in HasRun => call[p].run \in Runs
  BY DEF LinkInv, Types
<1>. QED  BY <1>1, <1>2 DEF LinkInv, LinksLeadForward

(* A call that ends, dies or begins without a run leaves the links.          *)
LEMMA CallOnly ==
    ASSUME LinkInv, NEW p \in Callers, NEW next \in CallRecord,
           call' = [call EXCEPT ![p] = next],
           UNCHANGED <<runVars, attempts>>, cut' \subseteq DOMAIN attempts,
           next.attempt \in 0..Len(attempts),
           next.pc \notin {"idle", "dead"} => next.attempt \in DOMAIN attempts,
           next.pc \in Executing => next.pc = "create" /\ p \in Executors,
           next.pc = "decide" => next.to \in {"APPROVED", "REJECTED"}
    PROVE  LinkInv' /\ call'[p] = next /\ \A q \in Callers : q # p => call'[q] = call[q]
<1>1. next.pc \notin HasRun
  BY DEF HasRun
<1>2. Types' /\ call'[p] = next /\ \A q \in Callers : q # p => call'[q] = call[q]
  BY <1>1, TypesFollow DEF LinkInv, Types, TypeOK, runVars
<1>. QED  BY <1>1, <1>2, LinksStay DEF LinkInv, Types, TypeOK, runVars

LEMMA ProposeKeepsLinkInv ==
    ASSUME LinkInv, NEW p \in Callers, NEW r \in Runs, Propose(p, r)
    PROVE  /\ LinkInv' /\ UNCHANGED <<runVars, cut, call>>
           /\ DOMAIN attempts' = DOMAIN attempts \cup {Len(attempts) + 1}
           /\ \A a \in DOMAIN attempts : attempts'[a] = attempts[a]
           /\ attempts'[Len(attempts) + 1] = [source |-> r, status |-> "PROPOSED", link |-> 0]
<1>. DEFINE row == [source |-> r, status |-> "PROPOSED", link |-> 0]
<1>1. status[r] = "FAILED" /\ Len(attempts) < MaxAttempts /\ attempts' = Append(attempts, row)
      /\ UNCHANGED <<runVars, cut, call>>
  BY DEF Propose
<1>2. row \in RecoveryAttempt /\ row.source = r /\ row.link = 0
  BY RecoveryAssumption DEF RecoveryAttempt, AttemptStatus
<1>. HIDE DEF row
<1>3. /\ attempts' \in Seq(RecoveryAttempt) /\ Len(attempts') = Len(attempts) + 1
      /\ DOMAIN attempts' = DOMAIN attempts \cup {Len(attempts) + 1}
      /\ \A a \in DOMAIN attempts : attempts'[a] = attempts[a]
      /\ attempts'[Len(attempts) + 1] = row
  BY <1>1, <1>2 DEF LinkInv, Types, TypeOK
<1>4. Types'
  BY <1>1, <1>3, RecoveryAssumption DEF LinkInv, Types, TypeOK, runVars
<1>5. LinksLeadForward'
  <2>. SUFFICES ASSUME NEW a \in DOMAIN attempts'
                PROVE  /\ attempts'[a].link # 0 => origin[attempts'[a].link] = a
                       /\ origin[attempts'[a].source] < a
    BY <1>1 DEF LinksLeadForward, runVars
  <2>1. CASE a = Len(attempts) + 1
    <3>1. origin[r] \in Nat /\ origin[r] <= Len(attempts)
      BY DEF LinkInv, Types, TypeOK
    <3>. QED  BY <1>2, <1>3, <2>1, <3>1 DEF LinkInv, Types, TypeOK
  <2>2. CASE a \in DOMAIN attempts
    BY <1>3, <2>2 DEF LinkInv, LinksLeadForward
  <2>. QED  BY <1>3, <2>1, <2>2
<1>6. \A a \in DOMAIN attempts' : /\ status[attempts'[a].source] # "NONE"
                                  /\ attempts'[a].link # 0 => status[attempts'[a].link] # "NONE"
  BY <1>1, <1>2, <1>3 DEF LinkInv
<1>7. \A q \in Runs : origin[q] <= Len(attempts')
  BY <1>3, RecoveryAssumption DEF LinkInv, Types, TypeOK
<1>8. LinkInv'
  BY <1>1, <1>4, <1>5, <1>6, <1>7 DEF LinkInv, runVars
<1>. QED  BY <1>1, <1>3, <1>8 DEF row

(* A status is written over: the links and the runs stay.                    *)
LEMMA StatusWritten ==
    ASSUME LinkInv, NEW p \in Callers, call[p].pc \notin {"idle", "dead"}, NEW to \in AttemptStatus,
           attempts' = [attempts EXCEPT ![Mine(p)].status = to],
           call' = [call EXCEPT ![p] = Idle], UNCHANGED runVars,
           cut' = cut \/ cut' = cut \cup {Mine(p)}
    PROVE  /\ LinkInv' /\ call'[p] = Idle /\ \A q \in Callers : q # p => call'[q] = call[q]
           /\ DOMAIN attempts' = DOMAIN attempts /\ Mine(p) \in DOMAIN attempts
           /\ attempts'[Mine(p)].status = to
           /\ \A a \in DOMAIN attempts :
                 /\ a # Mine(p) => attempts'[a] = attempts[a]
                 /\ attempts'[a].link = attempts[a].link
<1>1. TypeOK /\ Types /\ Mine(p) \in DOMAIN attempts
  BY DEF LinkInv, Types, Mine
<1>2. /\ attempts' \in Seq(RecoveryAttempt)
      /\ Len(attempts') = Len(attempts) /\ DOMAIN attempts' = DOMAIN attempts
      /\ attempts'[Mine(p)].status = to
      /\ \A b \in DOMAIN attempts :
            /\ b # Mine(p) => attempts'[b] = attempts[b]
            /\ attempts'[b].source = attempts[b].source /\ attempts'[b].link = attempts[b].link
  <2>1. PICK a \in DOMAIN attempts : a = Mine(p)
    BY <1>1
  <2>. QED  BY <1>1, <2>1, StatusAmended
<1>3. Idle \in CallRecord /\ Idle.pc = "idle" /\ Idle.attempt = 0
  BY <1>1, CallsMoveOn
<1>4. Types' /\ call'[p] = Idle /\ \A q \in Callers : q # p => call'[q] = call[q]
  <2>1. cut' \subseteq DOMAIN attempts /\ Idle.attempt \in 0..Len(attempts)
    BY <1>1, <1>3, AttemptsAre DEF TypeOK
  <2>2. Idle.pc \notin Executing /\ Idle.pc \notin HasRun /\ Idle.pc # "decide"
    BY <1>3 DEF HasRun, Executing
  <2>3. /\ status' \in [Runs -> RunStatus] /\ queued' \subseteq Runs /\ started' \subseteq Runs
        /\ origin' \in [Runs -> 0..MaxAttempts]
    BY <1>1 DEF TypeOK, runVars
  <2>. QED  BY <1>1, <1>2, <1>3, <2>1, <2>2, <2>3, TypesFollow
<1>5. LinkInv'
  BY <1>1, <1>2, <1>3, <1>4, LinksStay DEF LinkInv, TypeOK, runVars, HasRun, Executing
<1>. QED  BY <1>1, <1>2, <1>4, <1>5
(* The new run: it was not there, so nothing led to it. *)
LEMMA CreateKeepsLinkInv ==
    ASSUME LinkInv, NEW p \in Callers, CreateLike(p)
    PROVE  /\ LinkInv' /\ UNCHANGED <<queued, started, attempts, cut>>
           /\ call[p].pc = "create" /\ call'[p].pc = "link" /\ call'[p].attempt = call[p].attempt
           /\ \A q \in Callers : q # p => call'[q] = call[q]
           /\ \A r \in Runs : \/ status[r] = "NONE" /\ status'[r] = "CREATED"
                              \/ status'[r] = status[r] /\ origin'[r] = origin[r]
<1>1. Types /\ TypeOK /\ call[p].pc = "create" /\ Mine(p) \in DOMAIN attempts /\ p \in Executors
      /\ UNCHANGED <<queued, started, attempts, cut>>
  BY DEF LinkInv, Types, CreateLike, At, Mine, Executing
<1>2. PICK r \in Runs : /\ status[r] = "NONE"
                        /\ status' = [status EXCEPT ![r] = "CREATED"]
                        /\ origin' = [origin EXCEPT ![r] = Mine(p)]
                        /\ call' = [call EXCEPT ![p] = [call[p] EXCEPT !.pc = "link", !.run = r]]
  BY DEF CreateLike, Become
<1>. DEFINE next == [call[p] EXCEPT !.pc = "link", !.run = r]
<1>3. /\ next \in CallRecord /\ next.pc = "link" /\ next.run = r /\ next.attempt = Mine(p)
      /\ Mine(p) \in 1..Len(attempts)
  <2>1. call[p] \in CallRecord /\ r \in 0..NumRuns /\ "link" \in Executing
    BY <1>1, RecoveryAssumption DEF Types, Runs, Executing
  <2>2. next \in CallRecord /\ next.pc = "link" /\ next.run = r /\ next.attempt = call[p].attempt
    BY <2>1 DEF CallRecord
  <2>. QED  BY <1>1, <2>2, AttemptsAre DEF Mine
<1>4. /\ status' \in [Runs -> RunStatus] /\ origin' \in [Runs -> 0..MaxAttempts]
      /\ \A k \in Runs : /\ status'[k] = IF k = r THEN "CREATED" ELSE status[k]
                         /\ origin'[k] = IF k = r THEN Mine(p) ELSE origin[k]
  BY <1>1, <1>2, <1>3, RecoveryAssumption DEF TypeOK, Types, RunStatus
<1>. HIDE DEF next
<1>5. Types' /\ call'[p] = next /\ \A q \in Callers : q # p => call'[q] = call[q]
  <2>1. next.pc \notin {"idle", "dead", "decide"} /\ next.pc \in Executing
    BY <1>3 DEF Executing
  <2>2. next.attempt \in 0..Len(attempts) /\ next.attempt \in DOMAIN attempts /\ next.run \in Runs
    BY <1>1, <1>3
  <2>3. attempts' \in Seq(RecoveryAttempt) /\ queued' \subseteq Runs /\ started' \subseteq Runs
        /\ cut' \subseteq DOMAIN attempts
    BY <1>1 DEF TypeOK
  <2>4. call' = [call EXCEPT ![p] = next]
    BY <1>2 DEF next
  <2>. QED  BY <1>1, <1>3, <1>4, <2>1, <2>2, <2>3, <2>4, TypesFollow
<1>6. \A a \in DOMAIN attempts : /\ attempts[a].source \in Runs /\ attempts[a].source # r
                                 /\ attempts[a].link # 0 => attempts[a].link \in Runs /\ attempts[a].link # r
  BY <1>1, <1>2, AttemptsAre DEF LinkInv, RecoveryAttempt, Runs
<1>7. \A q \in Callers : q # p /\ call[q].pc \in HasRun => call[q].run \in Runs /\ call[q].run # r
  BY <1>1, <1>2 DEF LinkInv, Types
<1>8. LinksLeadForward'
  BY <1>1, <1>4, <1>6 DEF LinkInv, LinksLeadForward
<1>9. \A q \in Callers : call'[q].pc \in HasRun =>
          status'[call'[q].run] # "NONE" /\ origin'[call'[q].run] = call'[q].attempt
  <2>. SUFFICES ASSUME NEW q \in Callers, call'[q].pc \in HasRun
                PROVE  status'[call'[q].run] # "NONE" /\ origin'[call'[q].run] = call'[q].attempt
    OBVIOUS
  <2>1. CASE q = p
    BY <1>3, <1>4, <1>5, <2>1
  <2>2. CASE q # p
    BY <1>4, <1>5, <1>7, <2>2 DEF LinkInv
  <2>. QED  BY <2>1, <2>2
<1>10. \A k \in Runs : origin'[k] <= Len(attempts)
  BY <1>3, <1>4 DEF LinkInv
<1>11. LinkInv'
  BY <1>1, <1>4, <1>5, <1>6, <1>8, <1>9, <1>10 DEF LinkInv, TypeOK
<1>. QED  BY <1>1, <1>2, <1>3, <1>4, <1>5, <1>11 DEF Mine

(* The link leads to the run that was made for the attempt. *)
LEMMA LinkKeepsLinkInv ==
    ASSUME LinkInv, NEW p \in Callers, Link(p)
    PROVE  /\ LinkInv' /\ UNCHANGED <<runVars, cut>> /\ DOMAIN attempts' = DOMAIN attempts
           /\ call[p].pc = "link" /\ Mine(p) \in DOMAIN attempts
           /\ call'[p].pc \in {"enqueue", "execute"}
           /\ call'[p].attempt = Mine(p) /\ call'[p].run = call[p].run
           /\ \A q \in Callers : q # p => call'[q] = call[q]
           /\ attempts'[Mine(p)].status = attempts[Mine(p)].status
           /\ attempts'[Mine(p)].link = call[p].run
           /\ \A a \in DOMAIN attempts : a # Mine(p) => attempts'[a] = attempts[a]
<1>1. /\ Types /\ TypeOK /\ call[p].pc = "link" /\ p \in Executors /\ call[p].run \in Runs
      /\ UNCHANGED <<runVars, cut>>
  BY DEF LinkInv, Types, Link, At, Executing, HasRun
<1>2. PICK a \in DOMAIN attempts : a = Mine(p)
  BY <1>1 DEF Types, Mine
<1>. DEFINE row == [attempts[a] EXCEPT !.link = call[p].run]
<1>3. /\ row \in RecoveryAttempt /\ row.source = attempts[a].source /\ row.link = call[p].run
      /\ row.status = attempts[a].status /\ attempts' = [attempts EXCEPT ![a] = row]
  BY <1>1, <1>2, AttemptsAre, RecoveryAssumption DEF RecoveryAttempt, Runs, Link
<1>. HIDE DEF row
<1>4. /\ attempts' \in Seq(RecoveryAttempt)
      /\ Len(attempts') = Len(attempts) /\ DOMAIN attempts' = DOMAIN attempts
      /\ \A b \in DOMAIN attempts : attempts'[b] = IF b = a THEN row ELSE attempts[b]
  BY <1>1, <1>3, Amended
<1>5. PICK pc \in {"enqueue", "execute"} : call' = [call EXCEPT ![p] = [call[p] EXCEPT !.pc = pc]]
  BY DEF Link, Goto, Become
<1>. DEFINE next == [call[p] EXCEPT !.pc = pc]
<1>6. next \in CallRecord /\ next.pc = pc /\ next.attempt = a /\ next.run = call[p].run
  BY <1>1, <1>2, <1>5, CallsMoveOn DEF Executing, Mine
<1>. HIDE DEF next
<1>7. Types' /\ call'[p] = next /\ \A q \in Callers : q # p => call'[q] = call[q]
  <2>1. next.pc \notin {"idle", "dead", "decide"} /\ next.pc \in Executing
    BY <1>6 DEF Executing
  <2>2. next.attempt \in 0..Len(attempts) /\ next.attempt \in DOMAIN attempts
    BY <1>1, <1>6, AttemptsAre
  <2>3. /\ status' \in [Runs -> RunStatus] /\ queued' \subseteq Runs /\ started' \subseteq Runs
        /\ origin' \in [Runs -> 0..MaxAttempts] /\ cut' \subseteq DOMAIN attempts
    BY <1>1 DEF TypeOK, runVars
  <2>4. call' = [call EXCEPT ![p] = next]
    BY <1>5 DEF next
  <2>. QED  BY <1>1, <1>4, <1>6, <2>1, <2>2, <2>3, <2>4, TypesFollow
<1>8. call[p].pc \in HasRun
  BY <1>1 DEF HasRun, Executing
<1>9. status[call[p].run] # "NONE" /\ origin[call[p].run] = a
  BY <1>2, <1>8 DEF LinkInv, Mine
<1>10. LinksLeadForward'
  BY <1>1, <1>3, <1>4, <1>9 DEF LinkInv, LinksLeadForward, runVars
<1>11. LinkInv'
  <2>1. \A b \in DOMAIN attempts : /\ status[attempts'[b].source] # "NONE"
                                   /\ attempts'[b].link # 0 => status[attempts'[b].link] # "NONE"
    BY <1>3, <1>4, <1>9 DEF LinkInv
  <2>2. \A q \in Callers : call'[q].pc \in HasRun =>
            status[call'[q].run] # "NONE" /\ origin[call'[q].run] = call'[q].attempt
    BY <1>6, <1>7, <1>9 DEF LinkInv
  <2>. QED  BY <1>1, <1>4, <1>7, <1>10, <2>1, <2>2 DEF LinkInv, runVars
<1>. QED  BY <1>1, <1>2, <1>3, <1>4, <1>6, <1>7, <1>11

(* A run is queued or executed: a caller that holds one moves on with it.    *)
LEMMA HandOver ==
    ASSUME LinkInv, NEW p \in Callers, call[p].pc \in HasRun,
           NEW pc \in HasRun, Goto(p, pc),
           UNCHANGED <<origin, attempts>>, cut' \in {cut, cut \cup {call[p].attempt}},
           status' \in [Runs -> RunStatus],
           \A r \in Runs : status'[r] = "NONE" <=> status[r] = "NONE",
           queued' \in {queued, queued \cup {call[p].run}},
           started' \in {started, started \cup {call[p].run}}
    PROVE  /\ LinkInv' /\ call'[p].pc = pc /\ call[p].run \in Runs
           /\ call'[p].attempt = call[p].attempt /\ call'[p].run = call[p].run
           /\ \A q \in Callers : q # p => call'[q] = call[q]
<1>1. Types /\ TypeOK /\ p \in Executors /\ call[p].run \in Runs /\ call[p].attempt \in DOMAIN attempts
      /\ status[call[p].run] # "NONE"
  BY DEF LinkInv, Types, HasRun, Executing
<1>. DEFINE next == [call[p] EXCEPT !.pc = pc]
<1>2. /\ next \in CallRecord /\ next.pc = pc /\ next.attempt = call[p].attempt /\ next.run = call[p].run
      /\ call' = [call EXCEPT ![p] = next]
  BY <1>1, CallsMoveOn DEF HasRun, Goto, Become
<1>. HIDE DEF next
<1>3. Types' /\ call'[p] = next /\ \A q \in Callers : q # p => call'[q] = call[q]
  <2>1. next.pc \notin {"idle", "dead", "decide"} /\ next.pc \in Executing
    BY <1>2 DEF HasRun, Executing
  <2>2. next.attempt \in 0..Len(attempts) /\ next.attempt \in DOMAIN attempts
    BY <1>1, <1>2, AttemptsAre
  <2>3. /\ queued' \subseteq Runs /\ started' \subseteq Runs
        /\ origin' \in [Runs -> 0..MaxAttempts] /\ cut' \subseteq DOMAIN attempts
        /\ attempts' \in Seq(RecoveryAttempt) /\ cut' \subseteq DOMAIN attempts
    BY <1>1 DEF TypeOK
  <2>. QED  BY <1>1, <1>2, <2>1, <2>2, <2>3, TypesFollow
<1>4. \A r \in queued' \cup started' : r \in Runs /\ status[r] # "NONE"
  BY <1>1 DEF TypeOK, LinkInv
<1>5. LinkInv'
  BY <1>1, <1>2, <1>3, <1>4, LinksStay DEF LinkInv
<1>. QED  BY <1>1, <1>2, <1>3, <1>5

(* A run goes on: it stays made, and only what was queued is started.        *)
LEMMA RunMoves ==
    ASSUME LinkInv, NEW r \in Runs, RunGoesOn(r)
    PROVE  /\ LinkInv' /\ UNCHANGED <<queued, origin, attempts, cut, call>>
           /\ queued' \cup started' = queued \cup started
           /\ \A k \in Runs : status'[k] = "CREATED" => status[k] = "CREATED"
<1>1. TypeOK /\ Types
  BY DEF LinkInv, Types
<1>2. UNCHANGED <<queued, origin, attempts, cut, call>>
      /\ (started' = started \/ (r \in queued /\ started' = started \cup {r}))
  BY DEF RunGoesOn
<1>3. \E to \in {"RUNNING", "FAILED", "STOPPED", "WAITING_APPROVAL"} \cup Terminal :
        status[r] # "NONE" /\ status' = [status EXCEPT ![r] = to]
  <2>1. status[r] \in {"CREATED", "WAITING_APPROVAL", "RUNNING"}
    BY DEF RunGoesOn
  <2>2. CASE status[r] = "RUNNING"
    BY <2>2 DEF RunGoesOn
  <2>3. CASE status[r] # "RUNNING"
    <3>1. \/ status' = [status EXCEPT ![r] = "RUNNING"]
          \/ status' = [status EXCEPT ![r] = "FAILED"]
          \/ status' = [status EXCEPT ![r] = "STOPPED"]
      BY <2>3 DEF RunGoesOn
    <3>. QED  BY <2>1, <3>1
  <2>. QED  BY <2>2, <2>3
<1>4. /\ status' \in [Runs -> RunStatus]
      /\ \A k \in Runs : /\ status'[k] = "NONE" <=> status[k] = "NONE"
                         /\ status'[k] = "CREATED" => status[k] = "CREATED"
  BY <1>1, <1>3 DEF TypeOK, RunStatus, Terminal
<1>5. Types'
  <2>1. queued' \subseteq Runs /\ started' \subseteq Runs
    BY <1>1, <1>2 DEF TypeOK
  <2>. QED  BY <1>1, <1>2, <1>4, <2>1 DEF Types, TypeOK
<1>6. queued' \cup started' = queued \cup started
  BY <1>2
<1>7. LinkInv'
  BY <1>1, <1>2, <1>4, <1>5, <1>6, LinksStay DEF LinkInv, TypeOK
<1>. QED  BY <1>2, <1>4, <1>6, <1>7

LEMMA ReviewKeepsLinkInv ==
    ASSUME LinkInv, NEW p \in Callers, Review(p)
    PROVE  LinkInv'
<1>1. ASSUME NEW a \in DOMAIN attempts, NEW to \in {"APPROVED", "REJECTED"}, StartDecide(p, a, to)
      PROVE  LinkInv'
  <2> DEFINE next == [Idle EXCEPT !.pc = "decide", !.attempt = a, !.to = to]
  <2>1. call' = [call EXCEPT ![p] = next] /\ UNCHANGED <<runVars, attempts, cut>>
    BY <1>1 DEF StartDecide, Become
  <2>2. a \in 1..Len(attempts) /\ Len(attempts) \in 0..MaxAttempts
    BY AttemptsAre, RecoveryAssumption DEF LinkInv, Types
  <2>3. next \in CallRecord /\ next.pc = "decide" /\ next.attempt = a /\ next.to = to
    <3>1. Idle \in CallRecord
      BY CallsMoveOn DEF LinkInv
    <3>2. a \in 0..MaxAttempts /\ to \in AttemptStatus
      BY <1>1, <2>2, RecoveryAssumption DEF AttemptStatus
    <3>. QED  BY <3>1, <3>2 DEF CallRecord
  <2>. HIDE DEF next
  <2>4. cut' \subseteq DOMAIN attempts /\ next.pc \notin Executing /\ next.attempt \in 0..Len(attempts)
    BY <2>1, <2>2, <2>3 DEF LinkInv, Types, TypeOK, Executing
  <2>. QED  BY <1>1, <2>1, <2>3, <2>4, CallOnly
<1>2. CASE Decide(p)
  <2>1. call[p].pc = "decide" /\ call[p].to \in AttemptStatus
    BY <1>2 DEF Decide, At, LinkInv, Types, AttemptStatus
  <2>. QED  BY <1>2, <2>1, StatusWritten DEF Decide, Become, Cut
<1>. QED  BY <1>1, <1>2, ProposeKeepsLinkInv DEF Review

LEMMA ExecuteKeepsLinkInv ==
    ASSUME LinkInv, NEW p \in Callers, Execute(p)
    PROVE  LinkInv'
<1>1. Types /\ TypeOK
  BY DEF LinkInv, Types
<1>2. /\ Idle \in CallRecord /\ Idle.pc = "idle" /\ Idle.pc \notin Executing /\ Idle.attempt \in 0..Len(attempts)
      /\ cut \subseteq DOMAIN attempts
  <2>1. Idle \in CallRecord /\ Idle.pc = "idle" /\ Idle.attempt = 0
    BY <1>1, CallsMoveOn
  <2>. QED  BY <1>1, <2>1, AttemptsAre DEF Executing, TypeOK
<1>3. CASE \E a \in DOMAIN attempts, queue \in BOOLEAN : StartExecute(p, a, queue)
  <2>1. PICK a \in DOMAIN attempts, queue \in BOOLEAN : StartExecute(p, a, queue)
    BY <1>3
  <2> DEFINE next == [Idle EXCEPT !.pc = "create", !.attempt = a, !.queue = queue]
  <2>2. call' = [call EXCEPT ![p] = next] /\ UNCHANGED <<runVars, attempts, cut>> /\ p \in Executors
    BY <2>1 DEF StartExecute, Become
  <2>3. a \in 1..Len(attempts) /\ Len(attempts) \in 0..MaxAttempts
    BY <1>1, AttemptsAre, RecoveryAssumption DEF Types
  <2>4. next \in CallRecord /\ next.pc = "create" /\ next.attempt = a
    <3>1. Idle \in CallRecord
      BY <1>2
    <3>2. a \in 0..MaxAttempts /\ "create" \in Executing
      BY <2>3, RecoveryAssumption DEF Executing
    <3>. QED  BY <3>1, <3>2 DEF CallRecord
  <2>. HIDE DEF next
  <2>5. next.attempt \in 0..Len(attempts)
    BY <2>3, <2>4
  <2>. QED  BY <1>2, <2>2, <2>4, <2>5, CallOnly
<1>4. CASE CreateLike(p)
  BY <1>4, CreateKeepsLinkInv
<1>5. CASE CreateRefused(p)
  BY <1>2, <1>5, CallOnly DEF CreateRefused, Become
<1>6. CASE Link(p)
  BY <1>6, LinkKeepsLinkInv
<1>7. CASE EnqueueRun(p) \/ ExecuteRefused(p) \/ ExecuteRun(p) \/ ExecuteReturns(p) \/ ExecuteBreaks(p)
  <2>1. /\ call[p].pc \in HasRun
        /\ Goto(p, "executed") \/ Goto(p, "failed") \/ Goto(p, "agent")
        /\ "executed" \in HasRun /\ "failed" \in HasRun /\ "agent" \in HasRun
    BY <1>7 DEF EnqueueRun, ExecuteRefused, ExecuteRun, ExecuteReturns, ExecuteBreaks, At, HasRun, Executing
  <2>2. UNCHANGED <<origin, attempts>> /\ queued' \in {queued, queued \cup {call[p].run}}
        /\ cut' \in {cut, cut \cup {call[p].attempt}}
        /\ started' \in {started, started \cup {call[p].run}}
    BY <1>7 DEF EnqueueRun, ExecuteRefused, ExecuteRun, ExecuteReturns, ExecuteBreaks, runVars, Cut, Mine
  <2>3. \/ status' = status
        \/ \E to \in Terminal \cup {"WAITING_APPROVAL", "RUNNING"} :
              /\ status[call[p].run] \in {"CREATED", "RUNNING"}
              /\ status' = [status EXCEPT ![call[p].run] = to]
    <3>1. CASE EnqueueRun(p)
      BY <3>1 DEF EnqueueRun
    <3>2. CASE ExecuteRefused(p)
      BY <1>1, <3>2 DEF ExecuteRefused, TypeOK, Terminal
    <3>3. CASE ExecuteRun(p)
      BY <3>3 DEF ExecuteRun
    <3>4. CASE ExecuteReturns(p)
      BY <1>1, <3>4 DEF ExecuteReturns, TypeOK
    <3>5. CASE ExecuteBreaks(p)
      BY <3>5 DEF ExecuteBreaks, runVars
    <3>. QED  BY <1>7, <3>1, <3>2, <3>3, <3>4, <3>5
  <2>4. call[p].run \in Runs
    BY <1>1, <2>1 DEF Types
  <2>5. status' \in [Runs -> RunStatus] /\ \A r \in Runs : status'[r] = "NONE" <=> status[r] = "NONE"
    BY <1>1, <2>3, <2>4 DEF TypeOK, RunStatus, Terminal
  <2>. QED  BY <2>1, <2>2, <2>5, HandOver
<1>8. CASE ExecuteRaises(p)
  <2>1. call[p].pc \notin {"idle", "dead"}
    BY <1>8 DEF ExecuteRaises
  <2>2. Mine(p) \in DOMAIN attempts
    BY <1>1, <2>1 DEF Types, Mine
  <2>. QED  BY <1>2, <1>8, <2>2, CallOnly DEF ExecuteRaises, Become, Cut
<1>9. CASE RecordResult(p)
  <2>1. call[p].pc \notin {"idle", "dead"} /\ (IF At(p, "executed") THEN "EXECUTED" ELSE "FAILED") \in AttemptStatus
    BY <1>9 DEF RecordResult, AttemptStatus
  <2>. QED  BY <1>9, <2>1, StatusWritten DEF RecordResult, Become
<1>. QED  BY <1>3, <1>4, <1>5, <1>6, <1>7, <1>8, <1>9 DEF Execute

LEMMA DieKeepsLinkInv ==
    ASSUME LinkInv, NEW p \in Callers, Die(p) \/ Restart(p)
    PROVE  LinkInv'
<1>1. Types /\ TypeOK
  BY DEF LinkInv, Types
<1>2. CASE Die(p)
  <2> DEFINE next == [call[p] EXCEPT !.pc = "dead"]
  <2>1. Mine(p) \in DOMAIN attempts
    BY <1>1, <1>2 DEF Die, Types, Mine
  <2>2. next \in CallRecord /\ next.pc = "dead" /\ next.attempt = Mine(p)
    BY <1>1, CallsMoveOn DEF Mine
  <2>3. call' = [call EXCEPT ![p] = next] /\ UNCHANGED <<runVars, attempts>> /\ cut' \subseteq DOMAIN attempts
    BY <1>1, <1>2, <2>1 DEF Die, Goto, Become, Cut, TypeOK
  <2>. HIDE DEF next
  <2>4. next.attempt \in 0..Len(attempts) /\ next.pc \notin Executing
    BY <1>1, <2>1, <2>2, AttemptsAre DEF Executing
  <2>. QED  BY <2>2, <2>3, <2>4, CallOnly
<1>3. CASE Restart(p)
  <2>1. /\ Idle \in CallRecord /\ Idle.pc = "idle" /\ Idle.pc \notin Executing /\ Idle.attempt \in 0..Len(attempts)
        /\ cut \subseteq DOMAIN attempts
    <3>1. Idle \in CallRecord /\ Idle.pc = "idle" /\ Idle.attempt = 0
      BY <1>1, CallsMoveOn
    <3>. QED  BY <1>1, <3>1, AttemptsAre DEF Executing, TypeOK
  <2>. QED  BY <1>3, <2>1, CallOnly DEF Restart, Become
<1>. QED  BY <1>2, <1>3

LEMMA NextKeepsLinkInv == LinkInv /\ [Next]_vars => LinkInv'
<1>. SUFFICES ASSUME LinkInv, [Next]_vars PROVE LinkInv'
  OBVIOUS
<1>1. CASE \E p \in Callers : Review(p) \/ Execute(p) \/ Die(p) \/ Restart(p)
  BY <1>1, ReviewKeepsLinkInv, ExecuteKeepsLinkInv, DieKeepsLinkInv
<1>2. CASE \E r \in Runs : RunGoesOn(r)
  BY <1>2, RunMoves
<1>3. CASE UNCHANGED vars
  BY <1>3 DEF vars, LinkInv, Types, TypeOK, LinksLeadForward
<1>. QED  BY <1>1, <1>2, <1>3 DEF Next

(* What is linked, queued, started or recovered was made, and made for the   *)
(* attempt that links it, whoever proposes, decides, executes and dies.      *)
THEOREM LinkInvariance == Spec => []LinkInv
BY InitLinkInv, NextKeepsLinkInv, PTL DEF Spec

(* Every attempt, run and call has the shape the tables and handlers give it *)
(* (storage.py, table recovery_attempts; recovery.py).                       *)
THEOREM RecoveryTypes == Spec => []TypeOK
<1>1. LinkInv => TypeOK
  BY DEF LinkInv, Types
<1>. QED  BY <1>1, LinkInvariance, PTL

(* Links and sources lead forward (recovery.py, attach_recovery_run): no     *)
(* chain of recoveries comes back to a run it began with, however many       *)
(* callers execute and decide at once.                                       *)
THEOREM RecoveriesLeadForward == Spec => []LinksLeadForward
<1>1. LinkInv => LinksLeadForward
  BY DEF LinkInv
<1>. QED  BY <1>1, LinkInvariance, PTL
--------------------------------------------------------------------------------
(* The other half, for one executor.                                         *)

LEMMA InitHandInv == Init => HandInv
<1>. SUFFICES ASSUME Init PROVE HandInv
  OBVIOUS
<1>1. LinkInv
  BY InitLinkInv
<1>2. /\ DOMAIN attempts = {} /\ \A p \in Callers : call[p].pc = "idle"
      /\ queued \cup started = {1}
  BY DEF Init, Idle
<1>. QED  BY <1>1, <1>2 DEF HandInv, ExecutedIsHandedOver, NoDoubleRecovery, Executing

(* A step that hands over no run and begins no execution; an execution that  *)
(* ends here without a result is cut, unless it had handed over nothing.     *)
LEMMA HandStays ==
    ASSUME HandInv, LinkInv', attempts' = attempts, origin' = origin,
           queued' \cup started' = queued \cup started, queued' = queued,
           \A r \in Runs : status'[r] = "CREATED" => status[r] = "CREATED",
           cut \subseteq cut',
           \A p \in Callers : call'[p].pc \in Executing => call'[p] = call[p],
           \A p \in Callers : call[p].pc \in HandedOver => call'[p] = call[p] \/ call[p].attempt \in cut'
    PROVE  HandInv'
<1>1. \A a \in DOMAIN attempts : attempts[a].link # 0 => attempts[a].link \in Runs
  BY AttemptsAre DEF HandInv, LinkInv, Types, RecoveryAttempt, Runs
<1>2. \A p \in Callers : call[p].pc \in HandedOver => call[p].pc \in Executing /\ call[p].run \in Runs
  BY DEF HandInv, LinkInv, Types, HandedOver, HasRun, Executing
<1>3. \A a : UnderWay(a)' = UnderWay(a)
  BY DEF UnderWay
<1>4. ASSUME NEW p \in Callers, call'[p].pc \in Executing
      PROVE  /\ attempts[call'[p].attempt].status # "EXECUTED"
             /\ call'[p].pc \in HasLink => attempts[call'[p].attempt].link = call'[p].run
             /\ call'[p].pc \in HandedOver => call'[p].run \in queued \/ status'[call'[p].run] # "CREATED"
             /\ call'[p].attempt \notin cut' =>
                   UnderWay(call'[p].attempt) \subseteq IF call'[p].pc \in HandedOver THEN {call'[p].run} ELSE {}
  BY <1>2, <1>4 DEF HandInv
<1>5. ASSUME NEW a \in DOMAIN attempts \ cut', UnderWay(a) # {}
      PROVE  attempts[a].status = "EXECUTED" \/ \E p \in Callers : call'[p].pc \in HandedOver /\ call'[p].attempt = a
  BY <1>5 DEF HandInv
<1>6. ExecutedIsHandedOver'
  BY <1>1 DEF HandInv, ExecutedIsHandedOver
<1>7. NoDoubleRecovery'
  BY DEF HandInv, NoDoubleRecovery
<1>8. \A p \in Callers : UnderWay(call[p].attempt)' = UnderWay(call'[p].attempt)
  BY DEF UnderWay
<1>. QED  BY <1>3, <1>4, <1>5, <1>6, <1>7, <1>8 DEF HandInv
LEMMA ProposeKeepsHandInv ==
    ASSUME HandInv, NEW p \in Callers, NEW r \in Runs, Propose(p, r)
    PROVE  HandInv'
<1>. DEFINE new == Len(attempts) + 1
<1>1. LinkInv /\ Types /\ TypeOK
  BY DEF HandInv, LinkInv, Types
<1>2. /\ LinkInv' /\ UNCHANGED <<runVars, cut, call>>
      /\ DOMAIN attempts' = DOMAIN attempts \cup {new}
      /\ \A a \in DOMAIN attempts : attempts'[a] = attempts[a]
      /\ attempts'[new].status = "PROPOSED"
  <2>1. /\ LinkInv' /\ UNCHANGED <<runVars, cut, call>>
        /\ DOMAIN attempts' = DOMAIN attempts \cup {new}
        /\ \A a \in DOMAIN attempts : attempts'[a] = attempts[a]
        /\ attempts'[new] = [source |-> r, status |-> "PROPOSED", link |-> 0]
    BY <1>1, ProposeKeepsLinkInv
  <2>. QED  BY <2>1
<1>3. UnderWay(new) = {}
  BY <1>1 DEF UnderWay, LinkInv, TypeOK
<1>4. \A q \in Callers : call[q].pc \in Executing => call[q].attempt \in DOMAIN attempts
  BY <1>1 DEF Types, Executing
<1>. HIDE DEF new
<1>5. \A a : UnderWay(a)' = UnderWay(a)
  BY <1>2 DEF UnderWay, runVars
<1>6. ExecutedIsHandedOver' /\ NoDoubleRecovery'
  BY <1>2 DEF HandInv, ExecutedIsHandedOver, NoDoubleRecovery, runVars
<1>7. \A q \in Callers : UnderWay(call[q].attempt)' = UnderWay(call[q].attempt)
  BY <1>2 DEF UnderWay, runVars
<1>. QED  BY <1>2, <1>3, <1>4, <1>5, <1>6, <1>7 DEF HandInv, runVars

LEMMA DecideKeepsHandInv ==
    ASSUME HandInv, NEW p \in Callers, Decide(p)
    PROVE  HandInv'
<1>1. LinkInv /\ Types /\ TypeOK
  BY DEF HandInv, LinkInv, Types
<1>2. /\ call[p].pc = "decide" /\ call[p].to \in {"APPROVED", "REJECTED"} /\ call[p].to \in AttemptStatus
      /\ UNCHANGED runVars /\ (cut' = cut \/ cut' = cut \cup {Mine(p)})
      /\ attempts[Mine(p)].status = "EXECUTED" => Mine(p) \in cut'
  BY <1>1 DEF Decide, At, Types, AttemptStatus, Cut
<1>3. /\ LinkInv' /\ call'[p] = Idle /\ \A q \in Callers : q # p => call'[q] = call[q]
      /\ DOMAIN attempts' = DOMAIN attempts /\ Mine(p) \in DOMAIN attempts
      /\ attempts'[Mine(p)].status = call[p].to
      /\ \A a \in DOMAIN attempts :
            /\ a # Mine(p) => attempts'[a] = attempts[a]
            /\ attempts'[a].link = attempts[a].link
  BY <1>1, <1>2, StatusWritten DEF Decide, Become
<1>4. PICK m \in DOMAIN attempts : m = Mine(p)
  BY <1>3
<1>5. \A a \in DOMAIN attempts : /\ attempts'[a].status = "EXECUTED" => a # m /\ attempts[a].status = "EXECUTED"
                                 /\ attempts[a].status = "EXECUTED" /\ a \notin cut' => attempts'[a].status = "EXECUTED"
  BY <1>2, <1>3, <1>4
<1>6. /\ \A q \in Callers : call'[q].pc \in Executing => q # p /\ call'[q] = call[q] /\ call[q].attempt \in DOMAIN attempts
      /\ \A q \in Callers : call[q].pc \in HandedOver => call'[q] = call[q]
  BY <1>1, <1>2, <1>3 DEF Executing, HandedOver, Types, Idle
<1>7. /\ \A a : UnderWay(a)' = UnderWay(a)
      /\ \A q \in Callers : UnderWay(call[q].attempt)' = UnderWay(call'[q].attempt)
  BY <1>2 DEF UnderWay, runVars
<1>8. ExecutedIsHandedOver' /\ NoDoubleRecovery'
  BY <1>2, <1>3, <1>5 DEF HandInv, ExecutedIsHandedOver, NoDoubleRecovery, runVars
<1>9. \A q \in Callers : call'[q].pc \in Executing =>
          /\ attempts'[call'[q].attempt].status # "EXECUTED"
          /\ call'[q].pc \in HasLink => attempts'[call'[q].attempt].link = call'[q].run
          /\ call'[q].pc \in HandedOver => call'[q].run \in queued \/ status[call'[q].run] # "CREATED"
          /\ call'[q].attempt \notin cut' =>
                UnderWay(call'[q].attempt) \subseteq IF call'[q].pc \in HandedOver THEN {call'[q].run} ELSE {}
  BY <1>2, <1>3, <1>5, <1>6 DEF HandInv
<1>10. \A a \in DOMAIN attempts \ cut' : UnderWay(a) # {} =>
          attempts'[a].status = "EXECUTED" \/ \E q \in Callers : call'[q].pc \in HandedOver /\ call'[q].attempt = a
  BY <1>2, <1>5, <1>6 DEF HandInv
<1>. QED  BY <1>2, <1>3, <1>7, <1>8, <1>9, <1>10 DEF HandInv, runVars

(* An execution begins: nothing of its attempt is under way.                 *)
LEMMA StartExecuteKeepsHandInv ==
    ASSUME HandInv, LinkInv', OneExecutor, NEW p \in Callers, NEW a \in DOMAIN attempts, NEW queue \in BOOLEAN,
           StartExecute(p, a, queue)
    PROVE  HandInv'
<1>1. Types /\ call[p].pc = "idle" /\ p \in Executors /\ attempts[a].status # "EXECUTED"
      /\ UNCHANGED <<runVars, attempts, cut>>
  BY DEF HandInv, LinkInv, StartExecute, At
<1>2. /\ call'[p].pc = "create" /\ call'[p].attempt = a
      /\ \A q \in Callers : q # p => call'[q] = call[q]
  BY <1>1 DEF StartExecute, Become, Types, Idle
<1>3. \A q \in Callers : call[q].pc \notin Executing /\ (q # p => call'[q].pc \notin Executing)
  BY <1>1, <1>2 DEF OneExecutor, Types, Executing
<1>4. HandedOver \subseteq Executing /\ "create" \notin HasLink /\ "create" \notin HandedOver
  BY DEF HandedOver, Executing, HasLink, HasRun
<1>5. a \notin cut => UnderWay(a) = {}
  BY <1>1, <1>3, <1>4 DEF HandInv
<1>6. /\ \A b : UnderWay(b)' = UnderWay(b)
      /\ \A q \in Callers : UnderWay(call[q].attempt)' = UnderWay(call'[q].attempt)
  BY <1>1 DEF UnderWay, runVars
<1>7. ExecutedIsHandedOver' /\ NoDoubleRecovery'
  BY <1>1 DEF HandInv, ExecutedIsHandedOver, NoDoubleRecovery, runVars
<1>. QED  BY <1>1, <1>2, <1>3, <1>4, <1>5, <1>6, <1>7 DEF HandInv, runVars

LEMMA CreateKeepsHandInv ==
    ASSUME HandInv, OneExecutor, NEW p \in Callers, CreateLike(p)
    PROVE  HandInv'
<1>1. LinkInv /\ Types /\ TypeOK
  BY DEF HandInv, LinkInv, Types
<1>2. /\ LinkInv' /\ UNCHANGED <<queued, started, attempts, cut>>
      /\ call[p].pc = "create" /\ call'[p].pc = "link" /\ call'[p].attempt = call[p].attempt
      /\ \A q \in Callers : q # p => call'[q] = call[q]
      /\ \A r \in Runs : \/ status[r] = "NONE" /\ status'[r] = "CREATED"
                         \/ status'[r] = status[r] /\ origin'[r] = origin[r]
  BY <1>1, CreateKeepsLinkInv
<1>3. /\ \A q \in Callers : q # p => call[q].pc \notin Executing /\ call'[q].pc \notin Executing
      /\ \A q \in Callers : call[q].pc \notin HandedOver
  BY <1>1, <1>2 DEF OneExecutor, Types, Executing, HandedOver
<1>4. "link" \notin HasLink /\ "link" \notin HandedOver /\ "create" \in Executing /\ "create" \notin HandedOver
  BY DEF HasLink, HandedOver, Executing, HasRun
<1>5. \A r \in queued \cup started : r \in Runs /\ status'[r] = status[r] /\ origin'[r] = origin[r]
  BY <1>1, <1>2 DEF LinkInv, TypeOK
<1>6. /\ \A b : UnderWay(b)' = UnderWay(b)
      /\ UnderWay(call[p].attempt)' = UnderWay(call[p].attempt)
  BY <1>2, <1>5 DEF UnderWay
<1>7. NoDoubleRecovery'
  BY <1>2, <1>5 DEF HandInv, NoDoubleRecovery
<1>8. ExecutedIsHandedOver'
  <2>1. \A a \in DOMAIN attempts : attempts[a].link # 0 =>
            attempts[a].link \in Runs /\ status'[attempts[a].link] = status[attempts[a].link]
    BY <1>1, <1>2, AttemptsAre DEF LinkInv, RecoveryAttempt, Runs
  <2>. QED  BY <1>2, <2>1 DEF HandInv, ExecutedIsHandedOver
<1>9. \A q \in Callers : call'[q].pc \in Executing => q = p
  BY <1>3
<1>10. /\ attempts[call[p].attempt].status # "EXECUTED"
       /\ call[p].attempt \notin cut => UnderWay(call[p].attempt) = {}
  BY <1>2, <1>4 DEF HandInv
<1>11. \A a \in DOMAIN attempts \ cut : UnderWay(a) # {} => attempts[a].status = "EXECUTED"
  BY <1>3 DEF HandInv
<1>. QED  BY <1>2, <1>4, <1>6, <1>7, <1>8, <1>9, <1>10, <1>11 DEF HandInv

LEMMA LinkKeepsHandInv ==
    ASSUME HandInv, OneExecutor, NEW p \in Callers, Link(p)
    PROVE  HandInv'
<1>1. LinkInv /\ Types /\ TypeOK
  BY DEF HandInv, LinkInv, Types
<1>2. /\ LinkInv' /\ UNCHANGED <<runVars, cut>> /\ DOMAIN attempts' = DOMAIN attempts
      /\ call[p].pc = "link" /\ Mine(p) \in DOMAIN attempts
      /\ call'[p].pc \in {"enqueue", "execute"}
      /\ call'[p].attempt = Mine(p) /\ call'[p].run = call[p].run
      /\ \A q \in Callers : q # p => call'[q] = call[q]
      /\ attempts'[Mine(p)].status = attempts[Mine(p)].status
      /\ attempts'[Mine(p)].link = call[p].run
      /\ \A a \in DOMAIN attempts : a # Mine(p) => attempts'[a] = attempts[a]
  BY <1>1, LinkKeepsLinkInv
<1>3. /\ \A q \in Callers : q # p => call'[q].pc \notin Executing
      /\ \A q \in Callers : call[q].pc \notin HandedOver
  BY <1>1, <1>2 DEF OneExecutor, Types, Executing, HandedOver
<1>4. call'[p].pc \notin HandedOver /\ "link" \in Executing /\ "link" \notin HandedOver
  BY <1>2 DEF HandedOver, Executing
<1>5. /\ attempts[Mine(p)].status # "EXECUTED"
      /\ Mine(p) \notin cut => UnderWay(Mine(p)) = {}
  BY <1>2, <1>4 DEF HandInv, Mine
<1>6. PICK m \in DOMAIN attempts : m = Mine(p)
  BY <1>2
<1>7. /\ \A b : UnderWay(b)' = UnderWay(b)
      /\ UnderWay(call[p].attempt)' = UnderWay(Mine(p))
  BY <1>2 DEF UnderWay, runVars, Mine
<1>8. ExecutedIsHandedOver' /\ NoDoubleRecovery'
  BY <1>2, <1>5, <1>6 DEF HandInv, ExecutedIsHandedOver, NoDoubleRecovery, runVars
<1>9. \A a \in DOMAIN attempts \ cut : UnderWay(a) # {} => attempts'[a].status = "EXECUTED"
  BY <1>2, <1>3, <1>6 DEF HandInv
<1>. QED  BY <1>2, <1>3, <1>4, <1>5, <1>7, <1>8, <1>9 DEF HandInv, runVars
(* The run is queued, executed or refused, or the agent is done with it.     *)
LEMMA HandOverKeepsHandInv ==
    ASSUME HandInv, OneExecutor, NEW p \in Callers,
           EnqueueRun(p) \/ ExecuteRefused(p) \/ ExecuteRun(p) \/ ExecuteReturns(p)
    PROVE  HandInv'
<1>1. LinkInv /\ Types /\ TypeOK
  BY DEF HandInv, LinkInv, Types
<1>2. PICK pc \in {"failed", "agent", "executed"} : Goto(p, pc)
  BY DEF EnqueueRun, ExecuteRefused, ExecuteRun, ExecuteReturns
<1>3. /\ call[p].pc \in {"enqueue", "execute", "agent"} /\ call[p].pc \in Executing
      /\ call[p].pc \in HasRun /\ call[p].pc \in HasLink
      /\ pc \in Executing /\ pc \in HasRun /\ pc \in HasLink
      /\ pc \in HandedOver <=> pc \in {"agent", "executed"}
      /\ call[p].pc \in HandedOver <=> call[p].pc = "agent"
      /\ UNCHANGED <<origin, attempts, cut>>
  BY DEF EnqueueRun, ExecuteRefused, ExecuteRun, ExecuteReturns, At, HasLink, HasRun, Executing, HandedOver
<1>4. PICK run \in Runs, mine \in DOMAIN attempts :
          /\ run = call[p].run /\ mine = call[p].attempt
          /\ origin[run] = mine /\ status[run] # "NONE" /\ p \in Executors
  BY <1>1, <1>3 DEF LinkInv, Types, Executing
<1>5. /\ status' \in [Runs -> RunStatus]
      /\ \A r \in Runs : /\ status'[r] = "NONE" <=> status[r] = "NONE"
                         /\ status'[r] = "CREATED" => status[r] = "CREATED"
      /\ \/ pc = "failed" /\ queued' = queued /\ started' = started /\ call[p].pc = "execute"
         \/ pc = "executed" /\ queued' = queued \cup {run} /\ started' = started /\ call[p].pc = "enqueue"
         \/ pc = "agent" /\ queued' = queued /\ started' = started \cup {run} /\ call[p].pc = "execute"
            /\ status'[run] = "RUNNING"
         \/ pc = "executed" /\ queued' = queued /\ started' = started /\ call[p].pc = "agent"
  <2>1. CASE EnqueueRun(p)
    <3>1. /\ status' = status /\ queued' = queued \cup {run} /\ started' = started
          /\ call[p].pc = "enqueue" /\ Goto(p, "executed")
      BY <1>4, <2>1 DEF EnqueueRun, At
    <3>2. pc = "executed"
      BY <1>1, <1>2, <3>1 DEF Goto, Become, Types, CallRecord
    <3>. QED  BY <1>1, <3>1, <3>2 DEF TypeOK
  <2>2. CASE ExecuteRefused(p)
    <3>1. (\E to \in {"FAILED", "RUNNING"} : status' = [status EXCEPT ![run] = IF @ = "CREATED" THEN to ELSE @])
          /\ UNCHANGED <<queued, started>> /\ call[p].pc = "execute" /\ Goto(p, "failed")
      BY <1>4, <2>2 DEF ExecuteRefused, At
    <3>2. pc = "failed"
      BY <1>1, <1>2, <3>1, CallsMoveOn DEF Goto, Become, Types, CallRecord
    <3>. QED  BY <1>1, <1>4, <3>1, <3>2 DEF TypeOK, RunStatus, Terminal
  <2>3. CASE ExecuteRun(p)
    <3>1. status' = [status EXCEPT ![run] = "RUNNING"] /\ started' = started \cup {run}
          /\ UNCHANGED <<queued>> /\ call[p].pc = "execute" /\ Goto(p, "agent")
      BY <1>4, <2>3 DEF ExecuteRun, At
    <3>2. pc = "agent"
      BY <1>1, <1>2, <3>1 DEF Goto, Become, Types, CallRecord
    <3>. QED  BY <1>1, <1>4, <3>1, <3>2 DEF TypeOK, RunStatus, Terminal
  <2>4. CASE ExecuteReturns(p)
    <3>1. PICK to \in Terminal \cup {"WAITING_APPROVAL"} :
              status' = [status EXCEPT ![run] = IF @ = "RUNNING" THEN to ELSE @]
      BY <1>4, <2>4 DEF ExecuteReturns
    <3>2. UNCHANGED <<queued, started>> /\ call[p].pc = "agent" /\ Goto(p, "executed")
      BY <2>4 DEF ExecuteReturns, At
    <3>3. pc = "executed"
      BY <1>1, <1>2, <3>2 DEF Goto, Become, Types, CallRecord
    <3>. QED  BY <1>1, <1>4, <3>1, <3>2, <3>3 DEF TypeOK, RunStatus, Terminal
  <2>. QED  BY <2>1, <2>2, <2>3, <2>4
<1>6. /\ LinkInv' /\ call'[p].pc = pc
      /\ call'[p].attempt = mine /\ call'[p].run = run
      /\ \A q \in Callers : q # p => call'[q] = call[q]
  <2>1. queued' \in {queued, queued \cup {call[p].run}} /\ started' \in {started, started \cup {call[p].run}}
    BY <1>4, <1>5
  <2>. QED  BY <1>1, <1>2, <1>3, <1>4, <1>5, <2>1, HandOver
<1>7. \A q \in Callers : /\ q # p => call[q].pc \notin Executing /\ call'[q].pc \notin Executing
                         /\ call[q].pc \in HandedOver => q = p
  BY <1>1, <1>4, <1>6 DEF OneExecutor, Types, Executing, HandedOver
<1>8. /\ attempts[mine].status # "EXECUTED" /\ attempts[mine].link = run
      /\ call[p].pc = "agent" => run \in queued \/ status[run] # "CREATED"
      /\ mine \notin cut => UnderWay(mine) \subseteq IF call[p].pc = "agent" THEN {run} ELSE {}
  BY <1>3, <1>4 DEF HandInv
<1>9. \A b : UnderWay(b)' \subseteq UnderWay(b) \cup (IF b = mine THEN {run} ELSE {})
  BY <1>3, <1>4, <1>5 DEF UnderWay
<1>10. mine \notin cut => UnderWay(mine)' \subseteq IF pc \in {"agent", "executed"} THEN {run} ELSE {}
  BY <1>3, <1>5, <1>8 DEF UnderWay, HandedOver
<1>11. pc \in {"agent", "executed"} => run \in queued' \/ status'[run] # "CREATED"
  BY <1>5, <1>8
<1>12. UnderWay(call[p].attempt)' = UnderWay(mine)'
  BY <1>6 DEF UnderWay
<1>13. ExecutedIsHandedOver'
  <2>1. \A a \in DOMAIN attempts : attempts[a].link # 0 => attempts[a].link \in Runs
    BY <1>1, AttemptsAre DEF RecoveryAttempt, Runs
  <2>. QED  BY <1>3, <1>5, <2>1 DEF HandInv, ExecutedIsHandedOver
<1>14. NoDoubleRecovery'
  <2>. SUFFICES ASSUME NEW r \in queued' \cup started', NEW k \in queued' \cup started',
                       origin[r] # 0, origin[r] = origin[k], r # k, origin[r] \notin cut
                PROVE  FALSE
    BY <1>3 DEF NoDoubleRecovery
  <2>1. CASE origin[r] = mine
    <3>1. r \in UnderWay(mine)' /\ k \in UnderWay(mine)'
      BY <1>3, <2>1 DEF UnderWay
    <3>. QED  BY <1>10, <2>1, <3>1
  <2>2. CASE origin[r] # mine
    <3>1. r \in queued \cup started /\ k \in queued \cup started
      BY <1>4, <1>5, <2>2
    <3>. QED  BY <3>1 DEF HandInv, NoDoubleRecovery
  <2>. QED  BY <2>1, <2>2
<1>15. \A a \in DOMAIN attempts \ cut : UnderWay(a)' # {} =>
           attempts[a].status = "EXECUTED" \/ \E q \in Callers : call'[q].pc \in HandedOver /\ call'[q].attempt = a
  <2>. SUFFICES ASSUME NEW a \in DOMAIN attempts \ cut, UnderWay(a)' # {}
                PROVE  attempts[a].status = "EXECUTED"
                       \/ \E q \in Callers : call'[q].pc \in HandedOver /\ call'[q].attempt = a
    OBVIOUS
  <2>1. CASE a = mine
    <3>1. pc \in {"agent", "executed"}
      BY <1>10, <2>1
    <3>. QED  BY <1>3, <1>6, <2>1, <3>1
  <2>2. CASE a # mine
    BY <1>4, <1>7, <1>9, <2>2 DEF HandInv
  <2>. QED  BY <2>1, <2>2
<1>. QED  BY <1>3, <1>6, <1>7, <1>8, <1>10, <1>11, <1>12, <1>13, <1>14, <1>15 DEF HandInv

(* The execution breaks off after the agent began: it is cut.                *)
LEMMA BreakKeepsHandInv ==
    ASSUME HandInv, LinkInv', OneExecutor, NEW p \in Callers, ExecuteBreaks(p)
    PROVE  HandInv'
<1>1. LinkInv /\ Types
  BY DEF HandInv, LinkInv
<1>2. /\ UNCHANGED <<runVars, attempts>> /\ cut' = cut \cup {call[p].attempt}
      /\ call[p].pc = "agent" /\ Goto(p, "failed")
  BY DEF ExecuteBreaks, At, Cut, Mine
<1>3. /\ call[p].pc \in Executing /\ call[p].pc \in HandedOver /\ "agent" \in HasLink
      /\ "failed" \in Executing /\ "failed" \notin HandedOver
  BY <1>2 DEF Executing, HandedOver, HasLink, HasRun
<1>4. /\ call'[p].pc = "failed" /\ call'[p].attempt = call[p].attempt /\ call'[p].run = call[p].run
      /\ \A q \in Callers : q # p => call'[q] = call[q]
  BY <1>1, <1>2, <1>3, CallsMoveOn DEF Goto, Become, Types
<1>5. \A q \in Callers : /\ call[q].pc \in Executing => q = p
                         /\ call[q].pc \in HandedOver => q = p
                         /\ call'[q].pc \in Executing => q = p
  BY <1>1, <1>3, <1>4 DEF OneExecutor, Types, HandedOver, Executing
<1>6. /\ attempts[call[p].attempt].status # "EXECUTED"
      /\ attempts[call[p].attempt].link = call[p].run
  BY <1>2, <1>3 DEF HandInv
<1>7. \A a \in DOMAIN attempts \ cut' : UnderWay(a) # {} => attempts[a].status = "EXECUTED"
  BY <1>2, <1>5 DEF HandInv
<1>8. \A a : UnderWay(a)' = UnderWay(a)
  BY <1>2 DEF UnderWay, runVars
<1>9. ExecutedIsHandedOver' /\ NoDoubleRecovery'
  BY <1>2 DEF HandInv, ExecutedIsHandedOver, NoDoubleRecovery, runVars
<1>. QED  BY <1>2, <1>3, <1>4, <1>5, <1>6, <1>7, <1>8, <1>9 DEF HandInv, runVars

(* The result is written: EXECUTED if the run was handed over.               *)
LEMMA ResultKeepsHandInv ==
    ASSUME HandInv, OneExecutor, NEW p \in Callers, RecordResult(p)
    PROVE  HandInv'
<1>1. LinkInv /\ Types /\ TypeOK
  BY DEF HandInv, LinkInv, Types
<1>. DEFINE to == IF call[p].pc = "executed" THEN "EXECUTED" ELSE "FAILED"
<1>2. /\ call[p].pc \in {"executed", "failed"} /\ call[p].pc \in Executing /\ call[p].pc \in HasRun
      /\ call[p].pc \in HasLink /\ (call[p].pc \in HandedOver <=> call[p].pc = "executed")
      /\ UNCHANGED <<runVars, cut>> /\ to \in AttemptStatus
      /\ attempts' = [attempts EXCEPT ![Mine(p)].status = to] /\ call' = [call EXCEPT ![p] = Idle]
  BY DEF RecordResult, At, Become, HasLink, HasRun, Executing, HandedOver, AttemptStatus
<1>. HIDE DEF to
<1>3. /\ LinkInv' /\ call'[p] = Idle /\ \A q \in Callers : q # p => call'[q] = call[q]
      /\ DOMAIN attempts' = DOMAIN attempts /\ Mine(p) \in DOMAIN attempts
      /\ attempts'[Mine(p)].status = to
      /\ \A a \in DOMAIN attempts :
            /\ a # Mine(p) => attempts'[a] = attempts[a]
            /\ attempts'[a].link = attempts[a].link
  BY <1>1, <1>2, StatusWritten
<1>4. PICK m \in DOMAIN attempts : m = Mine(p)
  BY <1>3
<1>5. \A q \in Callers : /\ call'[q].pc \notin Executing
                         /\ call[q].pc \in HandedOver => q = p
  BY <1>1, <1>2, <1>3 DEF OneExecutor, Types, Executing, HandedOver, Idle
<1>6. /\ attempts[m].link = call[p].run /\ call[p].run \in Runs
      /\ call[p].pc = "executed" => call[p].run \in queued \/ status[call[p].run] # "CREATED"
      /\ m \notin cut /\ call[p].pc = "failed" => UnderWay(m) = {}
  BY <1>1, <1>2, <1>4 DEF HandInv, Mine, Types
<1>7. \A b : UnderWay(b)' = UnderWay(b)
  BY <1>2 DEF UnderWay, runVars
<1>8. ExecutedIsHandedOver'
  <2>. SUFFICES ASSUME NEW a \in DOMAIN attempts, attempts'[a].status = "EXECUTED"
                PROVE  /\ attempts[a].link # 0
                       /\ attempts[a].link \in queued \/ status[attempts[a].link] # "CREATED"
    BY <1>2, <1>3 DEF ExecutedIsHandedOver, runVars
  <2>1. CASE a = m
    BY <1>3, <1>4, <1>6, <2>1 DEF to, Runs
  <2>2. CASE a # m
    BY <1>3, <1>4, <2>2 DEF HandInv, ExecutedIsHandedOver
  <2>. QED  BY <2>1, <2>2
<1>9. NoDoubleRecovery'
  BY <1>2 DEF HandInv, NoDoubleRecovery, runVars
<1>10. \A a \in DOMAIN attempts \ cut : UnderWay(a) # {} => attempts'[a].status = "EXECUTED"
  <2>. SUFFICES ASSUME NEW a \in DOMAIN attempts \ cut, UnderWay(a) # {}
                PROVE  attempts'[a].status = "EXECUTED"
    OBVIOUS
  <2>1. CASE a = m
    BY <1>2, <1>3, <1>4, <1>6, <2>1 DEF to
  <2>2. CASE a # m
    BY <1>3, <1>4, <1>5, <2>2 DEF HandInv, Mine
  <2>. QED  BY <2>1, <2>2
<1>. QED  BY <1>2, <1>3, <1>5, <1>7, <1>8, <1>9, <1>10 DEF HandInv

LEMMA NextKeepsHandInv ==
    ASSUME OneExecutor
    PROVE  HandInv /\ [Next]_vars => HandInv'
<1>. SUFFICES ASSUME HandInv, [Next]_vars PROVE HandInv'
  OBVIOUS
<1>1. LinkInv' /\ LinkInv /\ Types
  BY NextKeepsLinkInv DEF HandInv, LinkInv
<1>2. HandedOver \subseteq Executing /\ "create" \notin HandedOver /\ "idle" \notin Executing
      /\ "decide" \notin Executing /\ "dead" \notin Executing
  BY DEF HandedOver, Executing
<1>3. ASSUME NEW p \in Callers, Review(p)
      PROVE  HandInv'
  <2>1. ASSUME NEW a \in DOMAIN attempts, NEW to \in {"APPROVED", "REJECTED"}, StartDecide(p, a, to)
        PROVE  HandInv'
    <3>1. UNCHANGED <<runVars, attempts, cut>> /\ call[p].pc = "idle" /\ call'[p].pc = "decide"
          /\ \A q \in Callers : q # p => call'[q] = call[q]
      BY <1>1, <2>1 DEF StartDecide, At, Become, Types, Idle
    <3>. QED  BY <1>1, <1>2, <3>1, HandStays DEF runVars
  <2>. QED  BY <1>3, <2>1, ProposeKeepsHandInv, DecideKeepsHandInv DEF Review
<1>4. ASSUME NEW p \in Callers, Execute(p)
      PROVE  HandInv'
  <2>1. CASE CreateRefused(p)
    <3>1. UNCHANGED <<runVars, attempts, cut>> /\ call[p].pc = "create" /\ call'[p].pc = "idle"
          /\ \A q \in Callers : q # p => call'[q] = call[q]
      BY <1>1, <2>1 DEF CreateRefused, At, Become, Types, Idle
    <3>. QED  BY <1>1, <1>2, <3>1, HandStays DEF runVars
  <2>2. CASE ExecuteRaises(p)
    <3>1. UNCHANGED <<runVars, attempts>> /\ cut' = cut \cup {call[p].attempt} /\ call'[p].pc = "idle"
          /\ \A q \in Callers : q # p => call'[q] = call[q]
      BY <1>1, <2>2 DEF ExecuteRaises, Become, Types, Idle, Cut, Mine
    <3>. QED  BY <1>1, <1>2, <3>1, HandStays DEF runVars
  <2>. QED  BY <1>1, <1>4, <2>1, <2>2, StartExecuteKeepsHandInv, CreateKeepsHandInv, LinkKeepsHandInv,
               HandOverKeepsHandInv, BreakKeepsHandInv, ResultKeepsHandInv DEF Execute
<1>5. ASSUME NEW p \in Callers, Die(p) \/ Restart(p)
      PROVE  HandInv'
  <2>1. UNCHANGED <<runVars, attempts>> /\ call'[p].pc \in {"dead", "idle"}
        /\ \A q \in Callers : q # p => call'[q] = call[q]
    BY <1>1, <1>5 DEF Die, Restart, Goto, Become, Types, CallRecord, Idle
  <2>2. \/ cut' = cut \cup {call[p].attempt}
        \/ cut' = cut /\ call[p].pc = "dead"
    BY <1>5 DEF Die, Restart, Cut, At, Mine
  <2>. QED  BY <1>1, <1>2, <2>1, <2>2, HandStays DEF runVars
<1>6. CASE \E r \in Runs : RunGoesOn(r)
  <2>1. PICK r \in Runs : RunGoesOn(r)
    BY <1>6
  <2>2. /\ UNCHANGED <<queued, origin, attempts, cut, call>> /\ queued' \cup started' = queued \cup started
        /\ \A k \in Runs : status'[k] = "CREATED" => status[k] = "CREATED"
    BY <1>1, <2>1, RunMoves
  <2>. QED  BY <1>1, <2>2, HandStays
<1>7. CASE UNCHANGED vars
  BY <1>1, <1>7, HandStays DEF vars
<1>. QED  BY <1>3, <1>4, <1>5, <1>6, <1>7 DEF Next

(* With one executor, an attempt that is not EXECUTED has nothing under way  *)
(* but what its execution has just handed over.                              *)
THEOREM HandInvariance ==
    ASSUME OneExecutor
    PROVE  Spec => []HandInv
BY InitHandInv, NextKeepsHandInv, PTL DEF Spec

(* EXECUTED is not written (recovery.py, execute_recovery) before the linked *)
(* run is queued or was executed, whatever is decided meanwhile.             *)
THEOREM ExecutedMeansHandedOver ==
    ASSUME OneExecutor
    PROVE  Spec => []ExecutedIsHandedOver
<1>1. HandInv => ExecutedIsHandedOver
  BY DEF HandInv
<1>. QED  BY <1>1, HandInvariance, PTL

(* With one executor, one failure is recovered by one run, however often a   *)
(* FAILED attempt is executed again (recovery.py, execute_recovery), but for *)
(* executions killed, raising or broken off after the agent began (cut), and *)
(* results a decision wrote over.                                            *)
THEOREM OneRunPerAttempt ==
    ASSUME OneExecutor
    PROVE  Spec => []NoDoubleRecovery
<1>1. HandInv => NoDoubleRecovery
  BY DEF HandInv
<1>. QED  BY <1>1, HandInvariance, PTL
================================================================================
