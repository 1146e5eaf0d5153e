---------------------------- MODULE WorktreesProofs ----------------------------
(***************************************************************************)
(* Proofs about Worktrees for any names, branches, callers and runs.       *)
(*                                                                         *)
(* What a removal may take from a run (RunsKeepTheirTree) is proved for    *)
(* any number of removers: it rests on CallInv, which says what the two    *)
(* reads of a removal still mean when git acts.                            *)
(* That rows and directories match is proved for one remover beside any    *)
(* number of creators: an id is handed out again once its row is gone, so  *)
(* a second remover may drop a row it never looked up.  It needs TreeInv:  *)
(* what a caller between git and the table knows about both.               *)
(***************************************************************************)
EXTENDS Worktrees, WellFoundedInduction, TLAPS

RunStatus == {"resolved", "CREATED", "RUNNING", "WAITING_APPROVAL", "DONE", "STOPPED"}

CreatorCall ==
    {Idle} \cup [pc : {"add", "record"}, project : Project, name : Name, branch : Branch]

Removal == [pc : {"count", "remove", "drop"}, id : 1..MaxId, path : Path,
            force : BOOLEAN, began : SUBSET Run]

RemoverCall == {Idle} \cup [pc : {"archive"}, id : 1..MaxId] \cup Removal

Calls ==
    /\ call \in [Client -> CreatorCall \cup RemoverCall]
    /\ \A c \in Creator : call[c] \in CreatorCall
    /\ \A c \in Remover : call[c] \in RemoverCall

Types ==
    /\ WorktreesTypeOK
    /\ runs \in [Run -> {NoRun} \cup [status : RunStatus, path : Path]]
    /\ Calls

(* The runs a removal found under way are still in its directory, and once   *)
(* it has counted none there, unforced, they have ended.                     *)
Counted ==
    \A c \in Remover :
        /\ call[c].pc = "count" =>
              \A r \in call[c].began :
                  /\ runs[r].status \in {"RUNNING", "WAITING_APPROVAL", "DONE", "STOPPED"}
                  /\ runs[r].path = call[c].path
        /\ call[c].pc = "remove" /\ ~call[c].force =>
              \A r \in call[c].began : runs[r].status \in {"DONE", "STOPPED"}

CallInv == Types /\ Counted

(* A removal under way holds the id and the path of one row. *)
Owned ==
    \A c \in Remover : call[c].pc \in {"count", "remove", "drop"} =>
        \E n \in Recorded : rows[n].id = call[c].id /\ PathOf(n) = call[c].path

KeyOf(c) == <<call[c].project, call[c].name>>
AtRecord(c) == c \in Creator /\ call[c].pc = "record"
Dropping(n) == \E x \in Remover : call[x].pc = "drop" /\ call[x].id = rows[n].id

(* A creation that git has done is alone at its path, and a row that is      *)
(* there already is about to be dropped.                                     *)
Recording ==
    \A c \in Creator : AtRecord(c) =>
        \/ KeyOf(c) \in torn
        \/ /\ trees[KeyOf(c)] = call[c].branch
           /\ \A d \in Creator : AtRecord(d) /\ KeyOf(d) = KeyOf(c) => d = c
           /\ call[c].name \in Recorded /\ PathOf(call[c].name) = KeyOf(c) => Dropping(call[c].name)

(* A directory found where a removal took one away is a new creation's.      *)
Removed ==
    \A x \in Remover : call[x].pc = "drop" /\ trees[call[x].path] # "none" =>
        \/ call[x].path \in torn
        \/ \E c \in Creator : AtRecord(c) /\ KeyOf(c) = call[x].path

TreeInv ==
    /\ CallInv
    /\ Owned
    /\ Recording
    /\ Removed
    /\ RowsHaveTrees
    /\ TreesHaveRows

OneRemover == \A x, y \in Remover : x = y

--------------------------------------------------------------------------------
(* A set of naturals that has a member and a bound has a greatest element.   *)
LEMMA GreatestNat ==
    ASSUME NEW B \in Nat, NEW T \in SUBSET (0..B), T # {}
    PROVE  \E m \in T : \A n \in T : n <= m
<1> DEFINE S == {B - n : n \in T}
<1>1. S \in SUBSET Nat /\ S # {}
  <2>1. \A n \in T : B - n \in Nat
    OBVIOUS
  <2>. QED  BY <2>1
<1>2. PICK s \in S : \A n \in S : <<n, s>> \notin OpToRel(<, Nat)
  BY <1>1, NatLessThanWellFounded, WFMin
<1>3. \A n \in S : ~(n < s)
  BY <1>1, <1>2 DEF OpToRel
<1>4. PICK m \in T : s = B - m
  BY <1>2
<1>5. ASSUME NEW n \in T
      PROVE  n <= m
  <2>1. ~(B - n < B - m)
    BY <1>3, <1>4
  <2>. QED  BY <2>1
<1>. QED  BY <1>5

(* A new row's id is a positive number that no row has. *)
LEMMA NextIdIsNew ==
    ASSUME Types
    PROVE  /\ NextId \in Nat \ {0}
           /\ \A n \in Recorded : rows[n].id # NextId
<1>1. CASE Recorded = {}
  BY <1>1 DEF NextId
<1>2. CASE Recorded # {}
  <2> DEFINE ids == {rows[n].id : n \in Recorded}
             top == CHOOSE n \in Recorded : \A m \in Recorded : rows[m].id <= rows[n].id
  <2>1. \A n \in Recorded : rows[n].id \in 1..MaxId
    BY DEF Types, WorktreesTypeOK, Recorded, Worktree
  <2>2. MaxId \in Nat /\ ids \in SUBSET (0..MaxId) /\ ids # {}
    BY <1>2, <2>1, WorktreesAssumption
  <2>3. PICK i \in ids : \A j \in ids : j <= i
    BY <2>2, GreatestNat
  <2>4. top \in Recorded /\ \A m \in Recorded : rows[m].id <= rows[top].id
    BY <2>3
  <2>5. NextId = 1 + rows[top].id
    BY <1>2 DEF NextId
  <2>6. rows[top].id \in 1..MaxId
    BY <2>1, <2>4
  <2>. HIDE DEF top
  <2>. QED  BY <2>1, <2>4, <2>5, <2>6
<1>. QED  BY <1>1, <1>2

(* What a creator's call holds once it has begun. *)
LEMMA CreatorShape ==
    ASSUME Types, NEW c \in Creator, call[c].pc # "idle"
    PROVE  /\ call[c] \in [pc : {"add", "record"}, project : Project, name : Name, branch : Branch]
           /\ KeyOf(c) \in Path
BY DEF Types, Calls, CreatorCall, Idle, KeyOf, Path

(* What a remover's call holds at each of its steps. *)
LEMMA RemoverShape ==
    ASSUME Types, NEW c \in Remover
    PROVE  /\ call[c].pc \in {"idle", "archive", "count", "remove", "drop"}
           /\ call[c].pc = "archive" => call[c] \in [pc : {"archive"}, id : 1..MaxId]
           /\ call[c].pc \in {"count", "remove", "drop"} => call[c] \in Removal
BY DEF Types, Calls, RemoverCall, Idle, Removal

(* A recorded row has a positive id and a path. *)
LEMMA RowShape ==
    ASSUME Types, NEW n \in Recorded
    PROVE  n \in Name /\ rows[n] \in Worktree /\ PathOf(n) \in Path
BY DEF Types, WorktreesTypeOK, Recorded, Worktree, PathOf, Path

--------------------------------------------------------------------------------
LEMMA InitCallInv == Init => CallInv
<1>. SUFFICES ASSUME Init PROVE CallInv
  OBVIOUS
<1>1. \A c \in Client : call[c] = Idle
  BY DEF Init
<1>2. WorktreesTypeOK
  BY WorktreesAssumption DEF Init, WorktreesTypeOK, Recorded, Path
<1>3. Types
  BY <1>1, <1>2 DEF Init, Types, Calls, Client, CreatorCall, RemoverCall
<1>4. Counted
  BY <1>1 DEF Counted, Idle, Client
<1>. QED  BY <1>3, <1>4 DEF CallInv

(* The rows, git's directories and the runs keep their shapes when only a    *)
(* caller moves.                                                             *)
LEMMA CallMoves ==
    ASSUME Types, NEW c \in Client, NEW next,
           call' = [call EXCEPT ![c] = next],
           c \in Creator => next \in CreatorCall,
           c \in Remover => next \in RemoverCall
    PROVE  Calls'
<1>1. next \in CreatorCall \cup RemoverCall
  BY DEF Client
<1>2. \A d \in Client : call'[d] = IF d = c THEN next ELSE call[d]
  BY DEF Types, Calls
<1>. QED  BY <1>1, <1>2 DEF Types, Calls, Client
(* A creator's step that leaves the runs alone leaves what removals counted. *)
LEMMA CountedWithoutRuns ==
    ASSUME Counted, runs' = runs, \A c \in Remover : call'[c] = call[c]
    PROVE  Counted'
BY DEF Counted

LEMMA CreateKeepsCallInv ==
    ASSUME CallInv, NEW c \in Creator, Create(c)
    PROVE  CallInv'
<1>1. Types /\ Counted /\ c \in Client /\ c \notin Remover
  BY WorktreesAssumption DEF CallInv, Client
<1>2. runs' = runs /\ \A x \in Remover : call'[x] = call[x]
  BY <1>1 DEF Create, CreateCheck, GitAdd, GitAddFails, GitAddTimesOut, RecordTree, Become, Finish,
              Types, Calls, Client
<1>3. Counted'
  BY <1>1, <1>2, CountedWithoutRuns
<1>4. ASSUME NEW project \in Project, NEW name \in Name, NEW branch \in Branch,
             CreateCheck(c, project, name, branch)
      PROVE  Types'
  <2> DEFINE next == [pc |-> "add", project |-> project, name |-> name, branch |-> branch]
  <2>1. call' = [call EXCEPT ![c] = next] /\ next \in CreatorCall
    BY <1>4 DEF CreateCheck, Become, CreatorCall
  <2>2. UNCHANGED <<rows, git, runs, torn>>
    BY <1>4 DEF CreateCheck
  <2>. HIDE DEF next
  <2>3. Calls'
    BY <1>1, <2>1, CallMoves
  <2>. QED  BY <1>1, <2>2, <2>3 DEF Types, WorktreesTypeOK, Recorded, git
<1>. DEFINE done == [call[c] EXCEPT !.pc = "record"]
<1>5. ASSUME call[c].pc = "add" \/ call[c].pc = "record"
      PROVE  /\ call[c] \in [pc : {"add", "record"}, project : Project, name : Name, branch : Branch]
             /\ KeyOf(c) \in Path /\ done \in CreatorCall
  <2>1. call[c] \in [pc : {"add", "record"}, project : Project, name : Name, branch : Branch]
        /\ KeyOf(c) \in Path
    BY <1>1, <1>5, CreatorShape
  <2>. QED  BY <2>1 DEF CreatorCall
<1>. HIDE DEF done
<1>6. ASSUME \/ Finish(c)
             \/ call[c].pc = "add" /\ call' = [call EXCEPT ![c] = done]
      PROVE  Calls'
  <2>1. Idle \in CreatorCall
    BY DEF CreatorCall
  <2>2. CASE Finish(c)
    BY <1>1, <2>1, <2>2, CallMoves DEF Finish, Become
  <2>3. CASE call[c].pc = "add" /\ call' = [call EXCEPT ![c] = done]
    BY <1>1, <1>5, <2>3, CallMoves
  <2>. QED  BY <1>6, <2>2, <2>3
<1>7. ASSUME GitAdd(c) \/ GitAddTimesOut(c)
      PROVE  Types'
  <2>1. Addable(call[c]) /\ AddTree(call[c]) /\ call[c].pc = "add" /\ rows' = rows
        /\ (torn' = torn \/ torn' = torn \cup {KeyOf(c)})
        /\ (dirty' = dirty \/ dirty' = dirty \cup {KeyOf(c)})
    BY <1>7 DEF GitAdd, GitAddTimesOut, KeyOf
  <2>2. trees' = [trees EXCEPT ![KeyOf(c)] = call[c].branch]
        /\ branches' = branches \cup {<<call[c].project, call[c].branch>>}
        /\ call[c].branch \in Branch /\ KeyOf(c) \in Path /\ call[c].project \in Project
    BY <1>5, <2>1 DEF AddTree, KeyOf
  <2>3. Finish(c) \/ call' = [call EXCEPT ![c] = done]
    BY <1>7 DEF GitAdd, GitAddTimesOut, done
  <2>4. WorktreesTypeOK'
    <3>1. trees' \in [Path -> Branch \cup {"none"}] /\ branches' \subseteq Project \X Branch
      BY <1>1, <2>2 DEF Types, WorktreesTypeOK
    <3>2. dirty' \subseteq {p \in Path : trees'[p] # "none"}
      BY <1>1, <2>1, <2>2, WorktreesAssumption DEF Types, WorktreesTypeOK
    <3>. QED  BY <1>1, <1>2, <2>1, <2>2, <3>1, <3>2 DEF Types, WorktreesTypeOK, Recorded
  <2>5. Calls'
    BY <1>6, <2>1, <2>3
  <2>. QED  BY <1>1, <1>2, <2>4, <2>5 DEF Types
<1>8. ASSUME GitAddFails(c)
      PROVE  Types'
  <2>1. Finish(c) /\ call[c].pc = "add" /\ UNCHANGED <<rows, trees, dirty, runs, torn>>
        /\ (branches' = branches \/ branches' = branches \cup {<<call[c].project, call[c].branch>>})
    BY <1>8 DEF GitAddFails
  <2>2. Calls'
    BY <1>6, <2>1
  <2>3. branches' \subseteq Project \X Branch
    BY <1>1, <1>5, <2>1 DEF Types, WorktreesTypeOK
  <2>. QED  BY <1>1, <2>1, <2>2, <2>3 DEF Types, WorktreesTypeOK, Recorded
<1>9. ASSUME RecordTree(c)
      PROVE  Types'
  <2> DEFINE k == call[c]
             row == [id |-> NextId, project |-> k.project, branch |-> k.branch, status |-> "ACTIVE"]
  <2>1. k.pc = "record" /\ NextId <= MaxId /\ Finish(c) /\ UNCHANGED <<git, runs>>
    BY <1>9 DEF RecordTree
  <2>2. k \in [pc : {"add", "record"}, project : Project, name : Name, branch : Branch]
        /\ KeyOf(c) \in Path
    BY <1>5, <2>1
  <2>3. \/ k.name \notin Recorded /\ rows' = [rows EXCEPT ![k.name] = row] /\ torn' = torn
        \/ rows' = rows /\ torn' = torn \cup {KeyOf(c)}
    BY <1>9 DEF RecordTree, KeyOf
  <2>4. row \in Worktree /\ \A n \in Recorded : rows[n].id # NextId
    BY <1>1, <2>1, <2>2, NextIdIsNew, WorktreesAssumption DEF Worktree
  <2>5. rows' \in [Name -> {NoRow} \cup Worktree]
        /\ \A m, n \in Recorded' : rows'[m].id = rows'[n].id => m = n
    <3>1. CASE rows' = rows
      BY <1>1, <3>1 DEF Types, WorktreesTypeOK, Recorded
    <3>2. CASE k.name \notin Recorded /\ rows' = [rows EXCEPT ![k.name] = row]
      <4>1. rows' \in [Name -> {NoRow} \cup Worktree]
        BY <1>1, <2>2, <2>4, <3>2 DEF Types, WorktreesTypeOK
      <4>2. \A n \in Name : rows'[n] = IF n = k.name THEN row ELSE rows[n]
        BY <1>1, <3>2 DEF Types, WorktreesTypeOK
      <4>3. row.id = NextId
        OBVIOUS
      <4>. HIDE DEF row
      <4>. QED  BY <1>1, <2>4, <4>1, <4>2, <4>3 DEF Types, WorktreesTypeOK, Recorded
    <3>. QED  BY <2>3, <3>1, <3>2
  <2>6. WorktreesTypeOK'
    BY <1>1, <2>1, <2>2, <2>3, <2>5 DEF Types, WorktreesTypeOK, git
  <2>7. Calls'
    BY <1>6, <2>1
  <2>. QED  BY <1>1, <1>2, <2>6, <2>7 DEF Types
<1>. QED  BY <1>3, <1>4, <1>7, <1>8, <1>9 DEF Create, CallInv
(* A removal's own step leaves the runs alone; the others' counts stand.     *)
LEMMA CountedAlone ==
    ASSUME CallInv, NEW c \in Remover, NEW next,
           call' = [call EXCEPT ![c] = next], runs' = runs,
           next.pc = "count" => \A r \in next.began :
               /\ runs[r].status \in {"RUNNING", "WAITING_APPROVAL", "DONE", "STOPPED"}
               /\ runs[r].path = next.path,
           next.pc = "remove" /\ ~next.force => \A r \in next.began : runs[r].status \in {"DONE", "STOPPED"}
    PROVE  Counted'
<1>1. \A x \in Remover : call'[x] = IF x = c THEN next ELSE call[x]
  BY DEF CallInv, Types, Calls, Client
<1>. QED  BY <1>1 DEF CallInv, Counted

LEMMA ArchiveKeepsCallInv ==
    ASSUME CallInv, NEW c \in Remover, Archive(c)
    PROVE  CallInv'
<1>1. Types /\ Counted /\ c \in Client /\ c \notin Creator
  BY WorktreesAssumption DEF CallInv, Client
<1>2. ASSUME NEW name \in Name, ArchiveGet(c, name)
      PROVE  CallInv'
  <2> DEFINE next == [pc |-> "archive", id |-> rows[name].id]
  <2>1. name \in Recorded /\ call' = [call EXCEPT ![c] = next] /\ UNCHANGED <<rows, git, runs, torn>>
    BY <1>2 DEF ArchiveGet, Become
  <2>2. next \in RemoverCall /\ next.pc = "archive"
    BY <1>1, <2>1, RowShape DEF RemoverCall, Worktree
  <2>. HIDE DEF next
  <2>3. Calls' /\ Counted'
    BY <1>1, <2>1, <2>2, CallMoves, CountedAlone
  <2>. QED  BY <1>1, <2>1, <2>3 DEF CallInv, Types, WorktreesTypeOK, Recorded, git
<1>3. ASSUME ArchiveWrite(c)
      PROVE  CallInv'
  <2>1. call' = [call EXCEPT ![c] = Idle] /\ UNCHANGED <<git, runs, torn>>
    BY <1>3 DEF ArchiveWrite, Finish, Become
  <2>2. Idle \in RemoverCall /\ Idle.pc = "idle"
    BY DEF RemoverCall, Idle
  <2>3. Calls' /\ Counted'
    BY <1>1, <2>1, <2>2, CallMoves, CountedAlone
  <2>4. call[c].id \in 1..MaxId
    BY <1>1, <1>3, RemoverShape DEF ArchiveWrite
  <2>5. \A n \in Name : /\ rows'[n] \in {NoRow} \cup Worktree
                        /\ rows'[n].id = rows[n].id /\ (rows'[n] = NoRow <=> rows[n] = NoRow)
    <3>. SUFFICES ASSUME NEW n \in Name
                  PROVE  /\ rows'[n] \in {NoRow} \cup Worktree
                         /\ rows'[n].id = rows[n].id /\ (rows'[n] = NoRow <=> rows[n] = NoRow)
      OBVIOUS
    <3>1. rows'[n] = IF rows[n].id = call[c].id THEN [rows[n] EXCEPT !.status = "ARCHIVED"] ELSE rows[n]
      BY <1>3 DEF ArchiveWrite
    <3>2. rows[n] = NoRow => rows[n].id = 0
      BY DEF NoRow
    <3>3. \A w \in Worktree : w.id \in 1..MaxId /\ w # NoRow /\ [w EXCEPT !.status = "ARCHIVED"] \in Worktree
            /\ [w EXCEPT !.status = "ARCHIVED"].id = w.id
      BY WorktreesAssumption DEF Worktree, NoRow
    <3>4. rows[n] \in {NoRow} \cup Worktree
      BY <1>1 DEF Types, WorktreesTypeOK
    <3>. QED  BY <2>4, <3>1, <3>2, <3>3, <3>4
  <2>6. rows' = [n \in Name |-> rows'[n]]
    BY <1>3 DEF ArchiveWrite
  <2>7. rows' \in [Name -> {NoRow} \cup Worktree]
    BY <2>5, <2>6
  <2>. QED  BY <1>1, <2>1, <2>3, <2>5, <2>7 DEF CallInv, Types, WorktreesTypeOK, Recorded, git
<1>. QED  BY <1>2, <1>3 DEF Archive

(* Removing a directory and dropping a row keep the shapes. *)
LEMMA RemoveKeepsCallInv ==
    ASSUME CallInv, NEW c \in Remover, Remove(c)
    PROVE  CallInv'
<1>1. Types /\ Counted /\ c \in Client /\ c \notin Creator
  BY WorktreesAssumption DEF CallInv, Client
<1>2. Idle \in RemoverCall /\ Idle.pc = "idle"
  BY DEF RemoverCall, Idle
<1>3. ASSUME Finish(c), runs' = runs
      PROVE  Calls' /\ Counted'
  BY <1>1, <1>2, <1>3, CallMoves, CountedAlone DEF Finish, Become
<1>4. ASSUME NEW name \in Name, NEW force \in BOOLEAN, RemoveGet(c, name, force)
      PROVE  CallInv'
  <2> DEFINE next == [pc |-> "count", id |-> rows[name].id, path |-> PathOf(name), force |-> force,
                      began |-> UnderWay(PathOf(name))]
  <2>1. name \in Recorded /\ call' = [call EXCEPT ![c] = next] /\ UNCHANGED <<rows, git, runs, torn>>
    BY <1>4 DEF RemoveGet, Become
  <2>2. /\ next \in RemoverCall /\ next.pc = "count"
        /\ \A r \in next.began : runs[r].status \in {"RUNNING", "WAITING_APPROVAL"} /\ runs[r].path = next.path
    BY <1>1, <2>1, RowShape DEF RemoverCall, Removal, Worktree, UnderWay
  <2>. HIDE DEF next
  <2>3. Calls' /\ Counted'
    BY <1>1, <2>1, <2>2, CallMoves, CountedAlone
  <2>. QED  BY <1>1, <2>1, <2>3 DEF CallInv, Types, WorktreesTypeOK, Recorded, git
<1>5. ASSUME RemoveCount(c)
      PROVE  CallInv'
  <2> DEFINE next == [call[c] EXCEPT !.pc = "remove"]
  <2>1. call[c].pc = "count" /\ call[c] \in Removal /\ UNCHANGED <<rows, git, runs, torn>>
    BY <1>1, <1>5, RemoverShape DEF RemoveCount
  <2>2. CASE Finish(c)
    BY <1>1, <1>3, <2>1, <2>2 DEF CallInv, Types, WorktreesTypeOK, Recorded, git
  <2>3. CASE /\ call' = [call EXCEPT ![c] = next]
             /\ call[c].force \/ ActiveRuns(call[c].path) = {}
    <3>1. /\ next \in Removal /\ next \in RemoverCall /\ next.pc = "remove"
          /\ next.force = call[c].force /\ next.began = call[c].began
      BY <2>1 DEF Removal, RemoverCall
    <3>2. ASSUME ~next.force, NEW r \in next.began
          PROVE  runs[r].status \in {"DONE", "STOPPED"}
      <4>1. /\ runs[r].status \in {"RUNNING", "WAITING_APPROVAL", "DONE", "STOPPED"}
            /\ runs[r].path = call[c].path /\ r \in Run
        BY <1>1, <2>1, <3>1, <3>2 DEF Counted, Removal
      <4>2. r \notin ActiveRuns(call[c].path)
        BY <2>3, <3>1, <3>2
      <4>. QED  BY <4>1, <4>2 DEF ActiveRuns
    <3>. HIDE DEF next
    <3>3. Calls' /\ Counted'
      BY <1>1, <2>1, <2>3, <3>1, <3>2, CallMoves, CountedAlone
    <3>. QED  BY <1>1, <2>1, <3>3 DEF CallInv, Types, WorktreesTypeOK, Recorded, git
  <2>. QED  BY <1>5, <2>1, <2>2, <2>3 DEF RemoveCount, Removal
<1>6. ASSUME GitRemove(c) \/ GitRemoveTimesOut(c)
      PROVE  CallInv'
  <2> DEFINE next == [call[c] EXCEPT !.pc = "drop"]
  <2>1. /\ call[c].pc = "remove" /\ call[c] \in Removal /\ RemoveTree(call[c])
        /\ UNCHANGED <<rows, runs>> /\ (torn' = torn \/ torn' = torn \cup {call[c].path})
    BY <1>1, <1>6, RemoverShape DEF GitRemove, GitRemoveTimesOut
  <2>2. next \in RemoverCall /\ next.pc = "drop" /\ call[c].path \in Path
    BY <2>1 DEF RemoverCall, Removal
  <2>3. Finish(c) \/ call' = [call EXCEPT ![c] = next]
    BY <1>6 DEF GitRemove, GitRemoveTimesOut
  <2>. HIDE DEF next
  <2>4. Calls' /\ Counted'
    BY <1>1, <1>3, <2>1, <2>2, <2>3, CallMoves, CountedAlone
  <2>5. WorktreesTypeOK'
    BY <1>1, <2>1, <2>2 DEF Types, WorktreesTypeOK, Recorded, RemoveTree
  <2>. QED  BY <1>1, <2>1, <2>4, <2>5 DEF CallInv, Types
<1>7. ASSUME GitRemoveFails(c)
      PROVE  CallInv'
  <2>1. /\ Finish(c) /\ call[c].pc = "remove" /\ UNCHANGED <<rows, trees, branches, runs, torn>>
        /\ dirty' = dirty \/ (Removable(call[c]) /\ dirty' = dirty \cup {call[c].path})
    BY <1>7 DEF GitRemoveFails
  <2>2. call[c].path \in Path
    BY <1>1, <2>1, RemoverShape DEF Removal
  <2>3. dirty' \subseteq {p \in Path : trees'[p] # "none"}
    BY <1>1, <2>1, <2>2 DEF Types, WorktreesTypeOK, Removable
  <2>. QED  BY <1>1, <1>3, <2>1, <2>3 DEF CallInv, Types, WorktreesTypeOK, Recorded
<1>8. ASSUME RemoveRecord(c)
      PROVE  CallInv'
  <2>1. /\ rows' = [n \in Name |-> IF rows[n].id = call[c].id THEN NoRow ELSE rows[n]]
        /\ Finish(c) /\ UNCHANGED <<git, runs, torn>>
    BY <1>8 DEF RemoveRecord
  <2>2. rows' \in [Name -> {NoRow} \cup Worktree] /\ \A n \in Recorded' : n \in Recorded /\ rows'[n] = rows[n]
    BY <1>1, <2>1 DEF Types, WorktreesTypeOK, Recorded
  <2>. QED  BY <1>1, <1>3, <2>1, <2>2 DEF CallInv, Types, WorktreesTypeOK, git
<1>. QED  BY <1>4, <1>5, <1>6, <1>7, <1>8 DEF Remove
LEMMA DieKeepsCallInv ==
    ASSUME CallInv, NEW c \in Client, Die(c)
    PROVE  CallInv'
<1>1. Types /\ Counted
  BY DEF CallInv
<1>2. call' = [call EXCEPT ![c] = Idle] /\ UNCHANGED <<rows, git, runs>> /\ call[c].pc # "idle"
  BY DEF Die, Finish, Become
<1>3. Idle \in CreatorCall /\ Idle \in RemoverCall /\ Idle.pc = "idle"
  BY DEF CreatorCall, RemoverCall, Idle
<1>4. Calls'
  BY <1>1, <1>2, <1>3, CallMoves
<1>5. \A x \in Remover : call'[x] = IF x = c THEN Idle ELSE call[x]
  BY <1>1, <1>2 DEF Types, Calls, Client
<1>6. Counted'
  BY <1>1, <1>2, <1>3, <1>5 DEF Counted
<1>7. torn' \subseteq Path
  <2>1. CASE call[c].pc = "record"
    <3>1. c \in Creator
      BY <1>1, <2>1, RemoverShape DEF Client
    <3>2. torn' = torn \cup {KeyOf(c)} /\ KeyOf(c) \in Path
      BY <1>1, <1>2, <2>1, <3>1, CreatorShape DEF Die, KeyOf
    <3>. QED  BY <1>1, <3>2 DEF Types, WorktreesTypeOK
  <2>2. CASE call[c].pc = "drop"
    <3>1. c \in Remover
      BY <1>1, <1>2, <2>2, CreatorShape DEF Client
    <3>2. torn' = torn \cup {call[c].path} /\ call[c].path \in Path
      BY <1>1, <2>2, <3>1, RemoverShape DEF Die, Removal
    <3>. QED  BY <1>1, <3>2 DEF Types, WorktreesTypeOK
  <2>3. CASE call[c].pc \notin {"record", "drop"}
    BY <1>1, <2>3 DEF Types, WorktreesTypeOK, Die
  <2>. QED  BY <2>1, <2>2, <2>3
<1>. QED  BY <1>1, <1>2, <1>4, <1>6, <1>7 DEF CallInv, Types, WorktreesTypeOK, Recorded, git

(* What a run's step does to the run: it stays in its directory, and once it *)
(* has become active it does not go back.                                    *)
LEMMA RunMoves ==
    ASSUME Types, NEW r \in Run, RunStep(r)
    PROVE  /\ UNCHANGED <<rows, trees, branches, call, torn>>
           /\ runs' \in [Run -> {NoRun} \cup [status : RunStatus, path : Path]]
           /\ dirty' \subseteq {p \in Path : trees[p] # "none"}
           /\ \A q \in Run : runs[q].status \in {"RUNNING", "WAITING_APPROVAL", "DONE", "STOPPED"} =>
                 /\ runs'[q].status \in {"RUNNING", "WAITING_APPROVAL", "DONE", "STOPPED"}
                 /\ runs'[q].path = runs[q].path
                 /\ runs[q].status \in {"DONE", "STOPPED"} => runs'[q].status = runs[q].status
<1>1. ASSUME NEW name \in Name, NEW checked \in BOOLEAN, RunResolve(r, name, checked)
      PROVE  /\ UNCHANGED <<rows, trees, branches, dirty, call, torn>>
             /\ runs[r] = NoRun
             /\ \E p \in Path : runs' = [runs EXCEPT ![r] = [status |-> "resolved", path |-> p]]
  BY <1>1, RowShape DEF RunResolve, git
<1>2. CASE \E name \in Name, checked \in BOOLEAN : RunResolve(r, name, checked)
  <2>1. NoRun.status = "none"
    BY DEF NoRun
  <2>2. PICK p \in Path : runs' = [runs EXCEPT ![r] = [status |-> "resolved", path |-> p]]
    BY <1>1, <1>2
  <2>3. UNCHANGED <<rows, trees, branches, dirty, call, torn>> /\ runs[r] = NoRun
    BY <1>1, <1>2
  <2>. QED  BY <2>1, <2>2, <2>3 DEF Types, WorktreesTypeOK, RunStatus
<1>3. ASSUME NEW from, NEW to, To(r, from, to),
             from \in {"resolved", "CREATED", "RUNNING", "WAITING_APPROVAL"},
             to \in RunStatus,
             from \in {"RUNNING", "WAITING_APPROVAL"} => to \in {"RUNNING", "WAITING_APPROVAL", "DONE", "STOPPED"}
      PROVE  /\ UNCHANGED <<rows, trees, branches, call, torn>>
             /\ runs' \in [Run -> {NoRun} \cup [status : RunStatus, path : Path]]
             /\ \A q \in Run : runs[q].status \in {"RUNNING", "WAITING_APPROVAL", "DONE", "STOPPED"} =>
                   /\ runs'[q].status \in {"RUNNING", "WAITING_APPROVAL", "DONE", "STOPPED"}
                   /\ runs'[q].path = runs[q].path
                   /\ runs[q].status \in {"DONE", "STOPPED"} => runs'[q].status = runs[q].status
  <2>1. runs[r].status = from /\ runs' = [runs EXCEPT ![r].status = to]
        /\ UNCHANGED <<rows, branches, trees, call, torn>>
    BY <1>3 DEF To
  <2>2. runs[r] \in [status : RunStatus, path : Path]
    BY <1>3, <2>1 DEF Types, NoRun
  <2>. QED  BY <1>3, <2>1, <2>2 DEF Types
<1>4. CASE RunInsert(r) \/ RunStart(r) \/ RunWorks(r) \/ RunWaits(r) \/ RunApproved(r) \/ RunEnds(r)
  <2>1. dirty' \subseteq {p \in Path : trees[p] # "none"}
    BY <1>4 DEF RunInsert, RunStart, RunWorks, RunWaits, RunApproved, RunEnds, Types, WorktreesTypeOK
  <2>2. \/ To(r, "resolved", "CREATED") \/ To(r, "CREATED", "RUNNING") \/ To(r, "RUNNING", "RUNNING")
        \/ To(r, "RUNNING", "WAITING_APPROVAL") \/ To(r, "WAITING_APPROVAL", "RUNNING")
        \/ To(r, "RUNNING", "DONE") \/ To(r, "WAITING_APPROVAL", "STOPPED")
    BY <1>4 DEF RunInsert, RunStart, RunWorks, RunWaits, RunApproved, RunEnds
  <2>3. {"resolved", "CREATED", "RUNNING", "WAITING_APPROVAL", "DONE", "STOPPED"} = RunStatus
    BY DEF RunStatus
  <2>. QED  BY <1>3, <2>1, <2>2, <2>3
<1>. QED  BY <1>2, <1>4 DEF RunStep, Types, WorktreesTypeOK

LEMMA RunKeepsCallInv ==
    ASSUME CallInv, NEW r \in Run, RunStep(r)
    PROVE  CallInv'
<1>1. Types /\ Counted
  BY DEF CallInv
<1>2. UNCHANGED <<rows, trees, branches, call, torn>>
  BY <1>1, RunMoves
<1>3. Types'
  <2>1. runs' \in [Run -> {NoRun} \cup [status : RunStatus, path : Path]]
        /\ dirty' \subseteq {p \in Path : trees[p] # "none"}
    BY <1>1, RunMoves
  <2>2. \A q \in Run : runs'[q] = NoRun \/ runs'[q].path \in Path
    BY <2>1
  <2>3. Calls'
    BY <1>1, <1>2 DEF Types, Calls
  <2>. QED  BY <1>1, <1>2, <2>1, <2>2, <2>3 DEF Types, WorktreesTypeOK, Recorded
<1>4. ASSUME NEW x \in Remover, call[x].pc \in {"count", "remove", "drop"}
      PROVE  call[x].began \subseteq Run
  BY <1>1, <1>4, RemoverShape DEF Removal
<1>5. Counted'
  BY <1>1, <1>2, <1>4, RunMoves DEF Counted
<1>. QED  BY <1>3, <1>5 DEF CallInv

LEMMA NextKeepsCallInv == CallInv /\ [Next]_vars => CallInv'
<1>. SUFFICES ASSUME CallInv, [Next]_vars PROVE CallInv'
  OBVIOUS
<1>1. CASE \E c \in Creator : Create(c)
  BY <1>1, CreateKeepsCallInv
<1>2. CASE \E c \in Remover : Archive(c) \/ Remove(c)
  BY <1>2, ArchiveKeepsCallInv, RemoveKeepsCallInv
<1>3. CASE \E c \in Client : Die(c)
  BY <1>3, DieKeepsCallInv
<1>4. CASE \E r \in Run : RunStep(r)
  BY <1>4, RunKeepsCallInv
<1>5. CASE \E p \in Path : UserCleans(p)
  BY <1>5 DEF UserCleans, CallInv, Counted, Types, Calls, WorktreesTypeOK, Recorded
<1>6. CASE UNCHANGED vars
  BY <1>6 DEF vars, git, CallInv, Counted, Types, Calls, WorktreesTypeOK, Recorded
<1>. QED  BY <1>1, <1>2, <1>3, <1>4, <1>5, <1>6 DEF Next

(* Every state has well-formed rows, directories, runs and calls, and what a *)
(* removal counted still holds of the runs it found.                         *)
THEOREM CallInvariance == Spec => []CallInv
BY InitCallInv, NextKeepsCallInv, PTL DEF Spec

(* Rows, git and calls keep the shapes the tables give them, and no two rows *)
(* have one id (storage.py, table worktrees).                                *)
THEOREM WorktreeTypes == Spec => []WorktreesTypeOK
<1>1. CallInv => WorktreesTypeOK
  BY DEF CallInv, Types
<1>. QED  BY <1>1, CallInvariance, PTL

(* Only a removal that was asked for takes a directory away, and unforced it *)
(* takes neither uncommitted changes nor the directory of a run that was     *)
(* active when it began (routes/worktrees.py, delete_worktree), however many *)
(* callers create, archive and remove beside it.                             *)
THEOREM ARemovalSparesItsRuns == Spec => RunsKeepTheirTree
<1> DEFINE Spares ==
        \A p \in Path : trees[p] # "none" /\ trees'[p] = "none" =>
          \E c \in Remover :
              /\ call[c].pc = "remove" /\ call[c].path = p
              /\ call[c].force \/ (p \notin dirty /\ call[c].began \cap UnderWay(p) = {})
<1>1. CallInv /\ [Next]_vars => [Spares]_vars
  <2>. SUFFICES ASSUME CallInv, [Next]_vars, NEW p \in Path, trees[p] # "none", trees'[p] = "none"
                PROVE  \E c \in Remover :
                         /\ call[c].pc = "remove" /\ call[c].path = p
                         /\ call[c].force \/ (p \notin dirty /\ call[c].began \cap UnderWay(p) = {})
    OBVIOUS
  <2>1. Types /\ Counted
    BY DEF CallInv
  <2>2. CASE \E c \in Creator : Create(c)
    <3>1. PICK c \in Creator : Create(c)
      BY <2>2
    <3>2. trees' = trees \/ (call[c].pc = "add" /\ trees' = [trees EXCEPT ![KeyOf(c)] = call[c].branch])
      BY <3>1 DEF Create, CreateCheck, GitAdd, GitAddFails, GitAddTimesOut, RecordTree, AddTree, KeyOf, git
    <3>3. call[c].pc = "add" => call[c].branch \in Branch
      BY <2>1, CreatorShape
    <3>. QED  BY <2>1, <3>2, <3>3, WorktreesAssumption DEF Types, WorktreesTypeOK
  <2>3. CASE \E c \in Remover : Archive(c) \/ Remove(c)
    <3>1. PICK c \in Remover : Archive(c) \/ Remove(c)
      BY <2>3
    <3>2. call[c].pc = "remove" /\ Removable(call[c]) /\ RemoveTree(call[c])
      BY <3>1 DEF Archive, ArchiveGet, ArchiveWrite, Remove, RemoveGet, RemoveCount, GitRemove, GitRemoveFails,
                  GitRemoveTimesOut, RemoveRecord, git
    <3>3. call[c] \in Removal
      BY <2>1, <3>2, RemoverShape
    <3>4. call[c].path = p /\ (call[c].force \/ p \notin dirty)
      BY <2>1, <3>2, <3>3 DEF Removable, RemoveTree, Removal, Types, WorktreesTypeOK
    <3>5. ~call[c].force => call[c].began \cap UnderWay(p) = {}
      BY <2>1, <3>2 DEF Counted, UnderWay
    <3>. QED  BY <3>2, <3>4, <3>5
  <2>4. CASE \E c \in Client : Die(c)
    BY <2>4 DEF Die, git
  <2>5. CASE \E r \in Run : RunStep(r)
    BY <2>1, <2>5, RunMoves
  <2>6. CASE \E q \in Path : UserCleans(q)
    BY <2>6 DEF UserCleans
  <2>7. CASE UNCHANGED vars
    BY <2>7 DEF vars, git
  <2>. QED  BY <2>2, <2>3, <2>4, <2>5, <2>6, <2>7 DEF Next
<1>. QED  BY <1>1, CallInvariance, PTL DEF Spec, RunsKeepTheirTree
--------------------------------------------------------------------------------
(* The other half, for one remover.                                          *)

LEMMA InitTreeInv == Init => TreeInv
<1>. SUFFICES ASSUME Init PROVE TreeInv
  OBVIOUS
<1>1. /\ \A c \in Client : call[c].pc = "idle"
      /\ Recorded = {} /\ \A p \in Path : trees[p] = "none"
  BY DEF Init, Idle, Recorded
<1>2. CallInv
  BY InitCallInv
<1>. QED  BY <1>1, <1>2 DEF TreeInv, Owned, Recording, Removed, AtRecord, RowsHaveTrees, TreesHaveRows, Client

(* A step that no directory, no row's identity, no torn path and no call     *)
(* between git and the table takes part in.                                  *)
LEMMA QuietStep ==
    ASSUME TreeInv, CallInv', trees' = trees, torn' = torn, Recorded' = Recorded,
           \A n \in Recorded : /\ rows'[n].id = rows[n].id
                               /\ rows'[n].project = rows[n].project
                               /\ rows'[n].branch = rows[n].branch,
           \A c \in Creator : \/ call[c].pc # "record" /\ call'[c].pc # "record"
                              \/ call'[c] = call[c],
           \A x \in Remover : \/ /\ call[x].pc # "drop" /\ call'[x].pc # "drop"
                                 /\ call'[x].pc \in {"count", "remove"} =>
                                      \E n \in Recorded : rows[n].id = call'[x].id /\ PathOf(n) = call'[x].path
                              \/ call'[x] = call[x]
    PROVE  TreeInv'
<1>1. \A n \in Recorded : PathOf(n)' = PathOf(n)
  BY DEF PathOf
<1>2. \A c \in Creator : AtRecord(c)' <=> AtRecord(c)
  BY DEF AtRecord
<1>3. \A c \in Creator : AtRecord(c) => call'[c] = call[c] /\ KeyOf(c)' = KeyOf(c)
  BY DEF AtRecord, KeyOf
<1>4. \A x \in Remover : /\ call'[x].pc = "drop" <=> call[x].pc = "drop"
                         /\ call[x].pc = "drop" => call'[x] = call[x]
  OBVIOUS
<1>5. \A n \in Recorded : Dropping(n)' <=> Dropping(n)
  BY <1>4 DEF Dropping
<1>6. Owned'
  BY <1>1 DEF TreeInv, Owned
<1>7. Recording'
  BY <1>1, <1>2, <1>3, <1>5 DEF TreeInv, Recording
<1>8. Removed'
  BY <1>2, <1>3, <1>4 DEF TreeInv, Removed
<1>9. RowsHaveTrees'
  BY <1>1, <1>4 DEF TreeInv, RowsHaveTrees
<1>10. TreesHaveRows'
  <2>. SUFFICES ASSUME NEW p \in Path, trees[p] # "none"
                PROVE  \/ p[2] \in Recorded /\ PathOf(p[2])' = p
                       \/ p \in torn
                       \/ \E c \in Creator : call'[c].pc = "record" /\ <<call'[c].project, call'[c].name>> = p
    BY DEF TreesHaveRows
  <2>1. \/ p[2] \in Recorded /\ PathOf(p[2]) = p
        \/ p \in torn
        \/ \E c \in Creator : call[c].pc = "record" /\ <<call[c].project, call[c].name>> = p
    BY DEF TreeInv, TreesHaveRows
  <2>. QED  BY <1>1, <1>2, <1>3, <2>1 DEF AtRecord
<1>. QED  BY <1>6, <1>7, <1>8, <1>9, <1>10 DEF TreeInv

(* git worktree add has made the directory. *)
LEMMA GitAddKeepsTreeInv ==
    ASSUME TreeInv, CallInv', NEW c \in Creator, GitAdd(c) \/ GitAddTimesOut(c)
    PROVE  TreeInv'
<1>. DEFINE key == KeyOf(c)
            branch == call[c].branch
<1>1. Types /\ c \notin Remover /\ c \in Client
  BY WorktreesAssumption DEF TreeInv, CallInv, Client
<1>2. /\ call[c].pc = "add" /\ rows' = rows /\ trees[key] = "none"
      /\ trees' = [trees EXCEPT ![key] = branch]
  BY DEF GitAdd, GitAddTimesOut, Addable, AddTree, KeyOf
<1>3. /\ call[c] \in [pc : {"add", "record"}, project : Project, name : Name, branch : Branch]
      /\ key \in Path /\ branch # "none"
  BY <1>1, <1>2, CreatorShape, WorktreesAssumption
<1>4. \/ /\ torn' = torn /\ call'[c].pc = "record" /\ call'[c].branch = branch
         /\ KeyOf(c)' = key /\ call'[c].name = call[c].name
      \/ torn' = torn \cup {key} /\ call'[c].pc = "idle"
  <2>1. CASE GitAdd(c)
    BY <1>1, <1>2, <1>3, <2>1 DEF GitAdd, Types, Calls, KeyOf
  <2>2. CASE GitAddTimesOut(c)
    BY <1>1, <2>2 DEF GitAddTimesOut, Finish, Become, Types, Calls, KeyOf, Idle
  <2>. QED  BY <2>1, <2>2
<1>5. \A d \in Client : d # c => call'[d] = call[d] /\ KeyOf(d)' = KeyOf(d)
  BY <1>1 DEF GitAdd, GitAddTimesOut, Finish, Become, Types, Calls, KeyOf
<1>6. \A p \in Path : trees'[p] = IF p = key THEN branch ELSE trees[p]
  BY <1>1, <1>2 DEF Types, WorktreesTypeOK
<1>7. Recorded' = Recorded /\ \A n \in Recorded : PathOf(n)' = PathOf(n) /\ PathOf(n) \in Path
  BY <1>1, <1>2, RowShape DEF Recorded, PathOf
<1>8. /\ \A x \in Remover : x \in Client /\ x # c
      /\ \A d \in Creator : d \in Client
      /\ torn \subseteq torn'
  BY <1>1, <1>4 DEF Client
<1>. HIDE DEF key, branch
<1>9. \A n \in Recorded : Dropping(n)' <=> Dropping(n)
  BY <1>2, <1>5, <1>8 DEF Dropping
<1>10. Owned'
  BY <1>2, <1>5, <1>7, <1>8 DEF TreeInv, Owned
<1>11. RowsHaveTrees'
  <2>. SUFFICES ASSUME NEW n \in Recorded
                PROVE  trees'[PathOf(n)] = rows[n].branch \/ PathOf(n) \in torn' \/ Dropping(n)
    BY <1>2, <1>7, <1>9 DEF RowsHaveTrees, Dropping
  <2>1. trees[PathOf(n)] = rows[n].branch \/ PathOf(n) \in torn \/ Dropping(n)
    BY DEF TreeInv, RowsHaveTrees, Dropping
  <2>2. rows[n].branch # "none"
    BY <1>1, RowShape, WorktreesAssumption DEF Worktree
  <2>. QED  BY <1>2, <1>6, <1>7, <1>8, <2>1, <2>2
<1>12. TreesHaveRows'
  <2>. SUFFICES ASSUME NEW p \in Path, trees'[p] # "none"
                PROVE  \/ p[2] \in Recorded /\ PathOf(p[2]) = p
                       \/ p \in torn'
                       \/ \E d \in Creator : call'[d].pc = "record" /\ KeyOf(d)' = p
    BY <1>7 DEF TreesHaveRows, KeyOf
  <2>1. CASE p = key
    BY <1>4, <2>1
  <2>2. CASE p # key
    <3>1. \/ p[2] \in Recorded /\ PathOf(p[2]) = p
          \/ p \in torn
          \/ \E d \in Creator : call[d].pc = "record" /\ KeyOf(d) = p
      BY <1>6, <2>2 DEF TreeInv, TreesHaveRows, KeyOf
    <3>. QED  BY <1>2, <1>5, <1>8, <3>1
  <2>. QED  BY <2>1, <2>2
<1>13. Removed'
  <2>. SUFFICES ASSUME NEW x \in Remover, call[x].pc = "drop", trees'[call[x].path] # "none"
                PROVE  call[x].path \in torn' \/ \E d \in Creator : AtRecord(d)' /\ KeyOf(d)' = call[x].path
    BY <1>5, <1>8 DEF Removed
  <2>1. call[x].path \in Path
    BY <1>1, RemoverShape DEF Removal
  <2>2. CASE call[x].path = key
    BY <1>4, <2>2 DEF AtRecord
  <2>3. CASE call[x].path # key
    <3>1. call[x].path \in torn \/ \E d \in Creator : AtRecord(d) /\ KeyOf(d) = call[x].path
      BY <1>6, <2>1, <2>3 DEF TreeInv, Removed
    <3>. QED  BY <1>2, <1>5, <1>8, <3>1 DEF AtRecord
  <2>. QED  BY <2>2, <2>3
<1>14. Recording'
  <2>. SUFFICES ASSUME NEW d \in Creator, AtRecord(d)', KeyOf(d)' \notin torn'
                PROVE  /\ trees'[KeyOf(d)'] = call'[d].branch
                       /\ \A e \in Creator : AtRecord(e)' /\ KeyOf(e)' = KeyOf(d)' => e = d
                       /\ call'[d].name \in Recorded /\ PathOf(call'[d].name) = KeyOf(d)'
                            => Dropping(call'[d].name)
    BY <1>7, <1>9 DEF Recording
  <2>1. \A e \in Creator : e # c /\ AtRecord(e)' /\ KeyOf(e)' \notin torn =>
            /\ AtRecord(e) /\ KeyOf(e)' = KeyOf(e) /\ call'[e] = call[e]
            /\ KeyOf(e) \in Path /\ KeyOf(e) # key
            /\ trees[KeyOf(e)] = call[e].branch
    <3>. SUFFICES ASSUME NEW e \in Creator, e # c, AtRecord(e)', KeyOf(e)' \notin torn
                  PROVE  /\ AtRecord(e) /\ KeyOf(e)' = KeyOf(e) /\ call'[e] = call[e]
                         /\ KeyOf(e) \in Path /\ KeyOf(e) # key
                         /\ trees[KeyOf(e)] = call[e].branch
      OBVIOUS
    <3>1. AtRecord(e) /\ KeyOf(e)' = KeyOf(e) /\ call'[e] = call[e]
      BY <1>5, <1>8 DEF AtRecord
    <3>2. KeyOf(e) \in Path /\ call[e].branch # "none"
      BY <1>1, <3>1, CreatorShape, WorktreesAssumption DEF AtRecord
    <3>3. trees[KeyOf(e)] = call[e].branch
      BY <3>1 DEF TreeInv, Recording
    <3>. QED  BY <1>2, <3>1, <3>2, <3>3
  <2>2. CASE d = c
    <3>1. torn' = torn /\ KeyOf(c)' = key /\ call'[c].branch = branch /\ call'[c].name = call[c].name
      BY <1>4, <2>2 DEF AtRecord
    <3>2. trees'[key] = branch
      BY <1>3, <1>6
    <3>3. ASSUME call[c].name \in Recorded, PathOf(call[c].name) = key
          PROVE  Dropping(call[c].name)
      <4>1. rows[call[c].name].branch # "none"
        BY <1>1, <3>3, RowShape, WorktreesAssumption DEF Worktree
      <4>. QED  BY <1>2, <2>2, <3>1, <3>3, <4>1 DEF TreeInv, RowsHaveTrees, Dropping
    <3>. QED  BY <2>1, <2>2, <3>1, <3>2, <3>3
  <2>3. CASE d # c
    <3>1. KeyOf(d)' \notin torn
      BY <1>8
    <3>2. ASSUME NEW e \in Creator, AtRecord(e)', KeyOf(e)' = KeyOf(d)'
          PROVE  e = d
      <4>1. e # c
        BY <1>4, <2>1, <2>3, <3>1, <3>2 DEF AtRecord
      <4>2. AtRecord(e) /\ KeyOf(e) = KeyOf(d) /\ AtRecord(d) /\ KeyOf(d) \notin torn
        BY <2>1, <2>3, <3>1, <3>2, <4>1
      <4>. QED  BY <4>2 DEF TreeInv, Recording
    <3>3. /\ AtRecord(d) /\ KeyOf(d)' = KeyOf(d) /\ call'[d] = call[d] /\ KeyOf(d) \in Path
          /\ KeyOf(d) # key /\ trees[KeyOf(d)] = call[d].branch
      BY <2>1, <2>3, <3>1
    <3>4. call[d].name \in Recorded /\ PathOf(call[d].name) = KeyOf(d) => Dropping(call[d].name)
      BY <3>1, <3>3 DEF TreeInv, Recording
    <3>. QED  BY <1>6, <3>2, <3>3, <3>4
  <2>. QED  BY <2>2, <2>3
<1>. QED  BY <1>10, <1>11, <1>12, <1>13, <1>14 DEF TreeInv
(* The row of a creation is written, or its path is torn: the unique index   *)
(* refused it, or its caller was killed.                                     *)
LEMMA CreationEnds ==
    ASSUME TreeInv, CallInv', NEW c \in Creator, call[c].pc = "record",
           Finish(c), trees' = trees,
           \/ rows' = rows /\ torn' = torn \cup {KeyOf(c)}
           \/ /\ call[c].name \notin Recorded /\ torn' = torn
              /\ rows' = [rows EXCEPT ![call[c].name] =
                            [id |-> NextId, project |-> call[c].project, branch |-> call[c].branch,
                             status |-> "ACTIVE"]]
    PROVE  TreeInv'
<1>. DEFINE row == [id |-> NextId, project |-> call[c].project, branch |-> call[c].branch, status |-> "ACTIVE"]
<1>1. Types /\ c \notin Remover /\ c \in Client
  BY WorktreesAssumption DEF TreeInv, CallInv, Client
<1>2. /\ call[c] \in [pc : {"add", "record"}, project : Project, name : Name, branch : Branch]
      /\ KeyOf(c) \in Path /\ KeyOf(c) = <<call[c].project, call[c].name>> /\ AtRecord(c)
  BY <1>1, CreatorShape DEF AtRecord, KeyOf
<1>3. PICK name \in Name, key \in Path : name = call[c].name /\ key = KeyOf(c)
  BY <1>2
<1>. DEFINE Written == name \notin Recorded /\ torn' = torn /\ rows' = [rows EXCEPT ![name] = row]
            Torn == rows' = rows /\ torn' = torn \cup {key}
<1>4. key = <<call[c].project, name>> /\ AtRecord(c) /\ name = call[c].name /\ key = KeyOf(c) /\ key[2] = name
  BY <1>2, <1>3
<1>5. /\ \A d \in Client : d # c => call'[d] = call[d] /\ KeyOf(d)' = KeyOf(d)
      /\ \A d \in Creator : AtRecord(d)' => d # c /\ AtRecord(d) /\ call'[d] = call[d] /\ KeyOf(d)' = KeyOf(d)
      /\ \A d \in Creator : AtRecord(d) /\ d # c => AtRecord(d)' /\ KeyOf(d)' = KeyOf(d)
      /\ \A x \in Remover : call'[x] = call[x]
  BY <1>1 DEF Finish, Become, Types, Calls, Idle, KeyOf, Client, AtRecord
<1>6. Written \/ Torn
  BY <1>4
<1>7. row.id = NextId /\ row.project = call[c].project /\ row.branch = call[c].branch /\ row # NoRow
  BY <1>1, NextIdIsNew DEF NoRow
<1>. HIDE DEF row
<1>8. \/ Recorded' = Recorded /\ Torn
      \/ /\ Recorded' = Recorded \cup {name} /\ name \notin Recorded /\ torn' = torn
         /\ rows'[name] = row /\ PathOf(name)' = key
  <2>1. CASE Torn
    BY <2>1 DEF Recorded
  <2>2. CASE Written
    <3>1. \A n \in Name : rows'[n] = IF n = name THEN row ELSE rows[n]
      BY <1>1, <2>2 DEF Types, WorktreesTypeOK
    <3>2. rows'[name] = row /\ PathOf(name)' = key
      BY <1>4, <1>7, <3>1 DEF PathOf
    <3>3. Recorded' = Recorded \cup {name}
      BY <1>4, <1>7, <3>1 DEF Recorded
    <3>. QED  BY <2>2, <3>2, <3>3
  <2>. QED  BY <1>6, <2>1, <2>2
<1>9. \A n \in Recorded : /\ n \in Recorded' /\ rows'[n] = rows[n] /\ PathOf(n)' = PathOf(n)
                          /\ PathOf(n) \in Path /\ PathOf(n)[2] = n
  <2>. SUFFICES ASSUME NEW n \in Recorded
                PROVE  /\ n \in Recorded' /\ rows'[n] = rows[n] /\ PathOf(n)' = PathOf(n)
                       /\ PathOf(n) \in Path /\ PathOf(n)[2] = n
    OBVIOUS
  <2>1. n \in Name /\ n \in Recorded' /\ rows'[n] = rows[n]
    BY <1>1, <1>6, <1>8 DEF Types, WorktreesTypeOK, Recorded
  <2>. QED  BY <1>1, <2>1, RowShape DEF PathOf
<1>10. torn \subseteq torn' /\ (Torn => key \in torn')
  BY <1>6
<1>11. \A n \in Recorded : Dropping(n)' <=> Dropping(n)
  BY <1>5, <1>9 DEF Dropping
<1>12. Owned'
  BY <1>5, <1>9 DEF TreeInv, Owned
<1>13. key \in torn \/ trees[key] = call[c].branch
  BY <1>4 DEF TreeInv, Recording
<1>14. RowsHaveTrees'
  <2>. SUFFICES ASSUME NEW n \in Recorded'
                PROVE  trees[PathOf(n)'] = rows'[n].branch \/ PathOf(n)' \in torn' \/ Dropping(n)'
    BY DEF RowsHaveTrees, Dropping
  <2>1. CASE n \in Recorded
    <3>1. trees[PathOf(n)] = rows[n].branch \/ PathOf(n) \in torn \/ Dropping(n)
      BY <2>1 DEF TreeInv, RowsHaveTrees, Dropping
    <3>. QED  BY <1>9, <1>10, <1>11, <2>1, <3>1
  <2>2. CASE n \notin Recorded
    BY <1>7, <1>8, <1>13, <2>2
  <2>. QED  BY <2>1, <2>2
<1>15. TreesHaveRows'
  <2>. SUFFICES ASSUME NEW p \in Path, trees[p] # "none"
                PROVE  \/ p[2] \in Recorded' /\ PathOf(p[2])' = p
                       \/ p \in torn'
                       \/ \E d \in Creator : AtRecord(d)' /\ KeyOf(d)' = p
    BY DEF TreesHaveRows, KeyOf, AtRecord
  <2>1. \/ p[2] \in Recorded /\ PathOf(p[2]) = p
        \/ p \in torn
        \/ \E d \in Creator : AtRecord(d) /\ KeyOf(d) = p
    BY DEF TreeInv, TreesHaveRows, KeyOf, AtRecord
  <2>2. CASE p = key
    BY <1>4, <1>8, <1>10, <2>2
  <2>3. CASE p # key
    BY <1>4, <1>5, <1>9, <1>10, <2>1, <2>3
  <2>. QED  BY <2>2, <2>3
<1>16. Removed'
  <2>. SUFFICES ASSUME NEW x \in Remover, call[x].pc = "drop", trees[call[x].path] # "none"
                PROVE  call[x].path \in torn' \/ \E d \in Creator : AtRecord(d)' /\ KeyOf(d)' = call[x].path
    BY <1>5 DEF Removed
  <2>1. call[x].path \in torn \/ \E d \in Creator : AtRecord(d) /\ KeyOf(d) = call[x].path
    BY DEF TreeInv, Removed
  <2>2. PICK n \in Recorded : PathOf(n) = call[x].path
    BY DEF TreeInv, Owned
  <2>3. CASE call[x].path = key
    BY <1>4, <1>6, <1>9, <1>10, <2>2, <2>3
  <2>4. CASE call[x].path # key
    BY <1>4, <1>5, <1>10, <2>1, <2>4
  <2>. QED  BY <2>3, <2>4
<1>17. Recording'
  <2>. SUFFICES ASSUME NEW d \in Creator, AtRecord(d), d # c, KeyOf(d) \notin torn'
                PROVE  /\ trees[KeyOf(d)] = call[d].branch
                       /\ \A e \in Creator : AtRecord(e) /\ KeyOf(e) = KeyOf(d) => e = d
                       /\ \A n \in Recorded' : n = call[d].name /\ PathOf(n)' = KeyOf(d) => Dropping(n)'
    BY <1>5 DEF Recording
  <2>1. /\ trees[KeyOf(d)] = call[d].branch
        /\ \A e \in Creator : AtRecord(e) /\ KeyOf(e) = KeyOf(d) => e = d
        /\ call[d].name \in Recorded /\ PathOf(call[d].name) = KeyOf(d) => Dropping(call[d].name)
    BY <1>10 DEF TreeInv, Recording
  <2>2. KeyOf(d) # key
    BY <1>4, <2>1
  <2>3. \A n \in Recorded' : PathOf(n)' = KeyOf(d) => n \in Recorded
    BY <1>8, <2>2
  <2>. QED  BY <1>9, <1>11, <2>1, <2>3
<1>. QED  BY <1>12, <1>14, <1>15, <1>16, <1>17 DEF TreeInv

(* git worktree remove has taken the directory; the row is next, or the path *)
(* is torn.                                                                  *)
LEMMA GitRemoveKeepsTreeInv ==
    ASSUME TreeInv, CallInv', OneRemover, NEW c \in Remover, GitRemove(c) \/ GitRemoveTimesOut(c)
    PROVE  TreeInv'
<1>. DEFINE path == call[c].path
<1>1. Types /\ c \notin Creator /\ c \in Client
  BY WorktreesAssumption DEF TreeInv, CallInv, Client
<1>2. call[c].pc = "remove" /\ rows' = rows /\ trees' = [trees EXCEPT ![path] = "none"]
  BY DEF GitRemove, GitRemoveTimesOut, RemoveTree
<1>3. call[c] \in Removal /\ path \in Path
  BY <1>1, <1>2, RemoverShape DEF Removal
<1>4. \/ /\ torn' = torn /\ call'[c].pc = "drop" /\ call'[c].path = path /\ call'[c].id = call[c].id
      \/ torn' = torn \cup {path} /\ call'[c].pc = "idle"
  BY <1>1, <1>3 DEF GitRemove, GitRemoveTimesOut, Finish, Become, Idle, Types, Calls, Removal
<1>5. \A d \in Creator : call'[d] = call[d] /\ KeyOf(d)' = KeyOf(d) /\ (AtRecord(d)' <=> AtRecord(d))
  BY <1>1 DEF GitRemove, GitRemoveTimesOut, Finish, Become, Types, Calls, Client, KeyOf, AtRecord
<1>6. \A x \in Remover : x = c
  BY DEF OneRemover
<1>7. \A p \in Path : trees'[p] = IF p = path THEN "none" ELSE trees[p]
  BY <1>1, <1>2 DEF Types, WorktreesTypeOK
<1>8. PICK own \in Recorded : rows[own].id = call[c].id /\ PathOf(own) = path
  BY <1>2 DEF TreeInv, Owned
<1>9. Recorded' = Recorded /\ \A n \in Recorded : PathOf(n)' = PathOf(n) /\ PathOf(n) \in Path /\ PathOf(n)[2] = n
  BY <1>1, <1>2, RowShape DEF Recorded, PathOf
<1>. HIDE DEF path
<1>10. \A n \in Recorded : ~Dropping(n)
  BY <1>2, <1>6 DEF Dropping
<1>11. Owned'
  BY <1>2, <1>4, <1>6, <1>8, <1>9 DEF Owned
<1>12. RowsHaveTrees'
  <2>. SUFFICES ASSUME NEW n \in Recorded
                PROVE  \/ trees'[PathOf(n)] = rows[n].branch \/ PathOf(n) \in torn'
                       \/ \E x \in Remover : call'[x].pc = "drop" /\ call'[x].id = rows[n].id
    BY <1>2, <1>9 DEF RowsHaveTrees
  <2>1. trees[PathOf(n)] = rows[n].branch \/ PathOf(n) \in torn
    BY <1>10 DEF TreeInv, RowsHaveTrees, Dropping
  <2>2. CASE PathOf(n) = path
    <3>1. n = own
      BY <1>8, <1>9, <2>2
    <3>. QED  BY <1>4, <1>8, <2>2, <3>1
  <2>3. CASE PathOf(n) # path
    BY <1>4, <1>7, <1>9, <2>1, <2>3
  <2>. QED  BY <2>2, <2>3
<1>13. TreesHaveRows'
  <2>. SUFFICES ASSUME NEW p \in Path, trees'[p] # "none"
                PROVE  \/ p[2] \in Recorded /\ PathOf(p[2]) = p
                       \/ p \in torn'
                       \/ \E d \in Creator : AtRecord(d) /\ KeyOf(d) = p
    BY <1>5, <1>9 DEF TreesHaveRows, KeyOf, AtRecord
  <2>1. trees[p] # "none"
    BY <1>7
  <2>. QED  BY <1>4, <2>1 DEF TreeInv, TreesHaveRows, KeyOf, AtRecord
<1>14. Removed'
  BY <1>3, <1>4, <1>6, <1>7 DEF Removed
<1>15. Recording'
  <2>. SUFFICES ASSUME NEW d \in Creator, AtRecord(d), KeyOf(d) \notin torn'
                PROVE  /\ trees'[KeyOf(d)] = call[d].branch
                       /\ \A e \in Creator : AtRecord(e) /\ KeyOf(e) = KeyOf(d) => e = d
                       /\ call[d].name \in Recorded /\ PathOf(call[d].name) = KeyOf(d)
                            => Dropping(call[d].name)'
    BY <1>5, <1>9 DEF Recording
  <2>1. /\ trees[KeyOf(d)] = call[d].branch
        /\ \A e \in Creator : AtRecord(e) /\ KeyOf(e) = KeyOf(d) => e = d
        /\ ~(call[d].name \in Recorded /\ PathOf(call[d].name) = KeyOf(d))
    BY <1>4, <1>10 DEF TreeInv, Recording
  <2>2. KeyOf(d) \in Path /\ KeyOf(d)[2] = call[d].name
    BY <1>1, CreatorShape DEF AtRecord, KeyOf
  <2>3. KeyOf(d) # path
    BY <1>8, <1>9, <2>1, <2>2
  <2>. QED  BY <1>7, <2>1, <2>2, <2>3
<1>. QED  BY <1>11, <1>12, <1>13, <1>14, <1>15 DEF TreeInv
(* A removal that git has done drops its row, or is killed and leaves a torn *)
(* path.                                                                     *)
LEMMA RemovalEnds ==
    ASSUME TreeInv, CallInv', OneRemover, NEW c \in Remover, call[c].pc = "drop",
           Finish(c), trees' = trees,
           \/ rows' = rows /\ torn' = torn \cup {call[c].path}
           \/ /\ torn' = torn
              /\ rows' = [n \in Name |-> IF rows[n].id = call[c].id THEN NoRow ELSE rows[n]]
    PROVE  TreeInv'
<1>1. Types /\ c \notin Creator /\ c \in Client
  BY WorktreesAssumption DEF TreeInv, CallInv, Client
<1>2. call[c] \in Removal /\ call[c].path \in Path
  BY <1>1, RemoverShape DEF Removal
<1>3. /\ call'[c].pc = "idle"
      /\ \A d \in Creator : call'[d] = call[d] /\ KeyOf(d)' = KeyOf(d) /\ (AtRecord(d)' <=> AtRecord(d))
  BY <1>1 DEF Finish, Become, Types, Calls, Client, Idle, KeyOf, AtRecord
<1>4. \A x \in Remover : x = c
  BY DEF OneRemover
<1>5. PICK own \in Recorded : rows[own].id = call[c].id /\ PathOf(own) = call[c].path
  BY DEF TreeInv, Owned
<1>6. \A n \in Recorded' : /\ n \in Recorded /\ rows'[n] = rows[n] /\ PathOf(n)' = PathOf(n)
                           /\ n # own \/ call[c].path \in torn'
  <2>1. CASE rows' = rows /\ torn' = torn \cup {call[c].path}
    BY <2>1 DEF Recorded, PathOf
  <2>2. CASE rows' = [n \in Name |-> IF rows[n].id = call[c].id THEN NoRow ELSE rows[n]]
    BY <1>5, <2>2 DEF Recorded, PathOf
  <2>. QED  BY <2>1, <2>2
<1>7. \A n \in Recorded : n # own => rows[n].id # call[c].id /\ n \in Recorded'
  BY <1>1, <1>5 DEF Types, WorktreesTypeOK, Recorded
<1>8. torn \subseteq torn' /\ (own \notin Recorded' \/ call[c].path \in torn')
  BY <1>6
<1>9. Owned' /\ Removed'
  BY <1>3, <1>4 DEF Owned, Removed
<1>10. RowsHaveTrees'
  <2>. SUFFICES ASSUME NEW n \in Recorded'
                PROVE  trees[PathOf(n)] = rows[n].branch \/ PathOf(n) \in torn'
    BY <1>6 DEF RowsHaveTrees
  <2>1. CASE n = own
    BY <1>5, <1>6, <2>1
  <2>2. CASE n # own
    BY <1>4, <1>6, <1>7, <1>8, <2>2 DEF TreeInv, RowsHaveTrees
  <2>. QED  BY <2>1, <2>2
<1>11. TreesHaveRows'
  <2>. SUFFICES ASSUME NEW p \in Path, trees[p] # "none"
                PROVE  \/ p[2] \in Recorded' /\ PathOf(p[2])' = p
                       \/ p \in torn'
                       \/ \E d \in Creator : AtRecord(d) /\ KeyOf(d) = p
    BY <1>3 DEF TreesHaveRows, KeyOf, AtRecord
  <2>1. \/ p[2] \in Recorded /\ PathOf(p[2]) = p
        \/ p \in torn
        \/ \E d \in Creator : AtRecord(d) /\ KeyOf(d) = p
    BY DEF TreeInv, TreesHaveRows, KeyOf, AtRecord
  <2>2. CASE p[2] = own /\ PathOf(own) = p
    <3>1. p = call[c].path
      BY <1>5, <2>2
    <3>. QED  BY <1>8, <3>1 DEF TreeInv, Removed
  <2>3. CASE p[2] # own
    BY <1>6, <1>7, <1>8, <2>1, <2>3
  <2>. QED  BY <1>8, <2>1, <2>2, <2>3
<1>12. Recording'
  <2>. SUFFICES ASSUME NEW d \in Creator, AtRecord(d), KeyOf(d) \notin torn'
                PROVE  /\ trees[KeyOf(d)] = call[d].branch
                       /\ \A e \in Creator : AtRecord(e) /\ KeyOf(e) = KeyOf(d) => e = d
                       /\ ~\E n \in Recorded' : n = call[d].name /\ PathOf(n) = KeyOf(d)
    BY <1>3, <1>6 DEF Recording
  <2>1. /\ trees[KeyOf(d)] = call[d].branch
        /\ \A e \in Creator : AtRecord(e) /\ KeyOf(e) = KeyOf(d) => e = d
        /\ call[d].name \in Recorded /\ PathOf(call[d].name) = KeyOf(d) => Dropping(call[d].name)
    BY <1>8 DEF TreeInv, Recording
  <2>2. ASSUME NEW n \in Recorded', n = call[d].name, PathOf(n) = KeyOf(d)
        PROVE  FALSE
    <3>1. n \in Recorded /\ Dropping(n)
      BY <1>6, <2>1, <2>2
    <3>2. n = own
      BY <1>4, <1>7, <3>1 DEF Dropping
    <3>. QED  BY <1>5, <1>6, <2>2, <3>2
  <2>. QED  BY <2>1, <2>2
<1>. QED  BY <1>9, <1>10, <1>11, <1>12 DEF TreeInv

LEMMA CreateKeepsTreeInv ==
    ASSUME TreeInv, CallInv', NEW c \in Creator, Create(c)
    PROVE  TreeInv'
<1>1. Types /\ c \notin Remover /\ c \in Client
  BY WorktreesAssumption DEF TreeInv, CallInv, Client
<1>2. \A x \in Remover : call'[x] = call[x]
  BY <1>1 DEF Create, CreateCheck, GitAdd, GitAddFails, GitAddTimesOut, RecordTree, Become, Finish,
              Types, Calls, Client
<1>3. CASE (\E project \in Project, name \in Name, branch \in Branch : CreateCheck(c, project, name, branch))
           \/ GitAddFails(c)
  <2>1. UNCHANGED <<rows, trees, torn>> /\ call[c].pc # "record" /\ call'[c].pc # "record"
        /\ \A d \in Client : d # c => call'[d] = call[d]
    BY <1>1, <1>3 DEF CreateCheck, GitAddFails, Become, Finish, Idle, Types, Calls, git
  <2>. QED  BY <1>2, <2>1, QuietStep DEF Recorded, Client
<1>4. CASE GitAdd(c) \/ GitAddTimesOut(c)
  BY <1>4, GitAddKeepsTreeInv
<1>5. CASE RecordTree(c)
  BY <1>5, CreationEnds DEF RecordTree, KeyOf, git
<1>. QED  BY <1>3, <1>4, <1>5 DEF Create

LEMMA RemoverKeepsTreeInv ==
    ASSUME TreeInv, CallInv', OneRemover, NEW c \in Remover, Archive(c) \/ Remove(c)
    PROVE  TreeInv'
<1>1. Types /\ c \notin Creator /\ c \in Client
  BY WorktreesAssumption DEF TreeInv, CallInv, Client
<1>2. \A d \in Creator : call'[d] = call[d]
  BY <1>1 DEF Archive, ArchiveGet, ArchiveWrite, Remove, RemoveGet, RemoveCount, GitRemove, GitRemoveFails,
              GitRemoveTimesOut, RemoveRecord, Become, Finish, Types, Calls, Client
<1>3. \A x \in Remover : x = c
  BY DEF OneRemover
<1>4. CASE \E name \in Name : ArchiveGet(c, name)
  <2>1. UNCHANGED <<rows, trees, torn>> /\ call[c].pc = "idle" /\ call'[c].pc = "archive"
    BY <1>1, <1>4 DEF ArchiveGet, Become, Types, Calls, git
  <2>. QED  BY <1>2, <1>3, <2>1, QuietStep DEF Recorded
<1>5. CASE ArchiveWrite(c)
  <2>1. UNCHANGED <<trees, torn>> /\ call[c].pc = "archive" /\ call'[c].pc = "idle"
    BY <1>1, <1>5 DEF ArchiveWrite, Finish, Become, Idle, Types, Calls, git
  <2>2. ASSUME NEW n \in Name
        PROVE  /\ n \in Recorded' <=> n \in Recorded
               /\ n \in Recorded => /\ rows'[n].id = rows[n].id
                                    /\ rows'[n].project = rows[n].project
                                    /\ rows'[n].branch = rows[n].branch
    <3>1. rows'[n] = IF rows[n].id = call[c].id THEN [rows[n] EXCEPT !.status = "ARCHIVED"] ELSE rows[n]
      BY <1>5 DEF ArchiveWrite
    <3>2. CASE rows[n] = NoRow
      <4>1. call[c].id \in 1..MaxId /\ rows[n].id = 0
        BY <1>1, <2>1, <3>2, RemoverShape DEF NoRow
      <4>. QED  BY <3>1, <3>2, <4>1 DEF Recorded
    <3>3. CASE rows[n] \in Worktree
      <4>1. \A w \in Worktree : /\ w # NoRow /\ [w EXCEPT !.status = "ARCHIVED"] \in Worktree
                                /\ [w EXCEPT !.status = "ARCHIVED"].id = w.id
                                /\ [w EXCEPT !.status = "ARCHIVED"].project = w.project
                                /\ [w EXCEPT !.status = "ARCHIVED"].branch = w.branch
        BY WorktreesAssumption DEF Worktree, NoRow
      <4>. QED  BY <3>1, <3>3, <4>1 DEF Recorded
    <3>. QED  BY <1>1, <3>2, <3>3 DEF Types, WorktreesTypeOK
  <2>3. Recorded' = Recorded /\ \A n \in Recorded : n \in Name
    BY <2>2 DEF Recorded
  <2>. QED  BY <1>2, <1>3, <2>1, <2>2, <2>3, QuietStep
<1>6. CASE \E name \in Name, force \in BOOLEAN : RemoveGet(c, name, force)
  <2>1. PICK name \in Name, force \in BOOLEAN : RemoveGet(c, name, force)
    BY <1>6
  <2>2. /\ UNCHANGED <<rows, trees, torn>> /\ call[c].pc = "idle" /\ call'[c].pc = "count"
        /\ name \in Recorded /\ call'[c].id = rows[name].id /\ call'[c].path = PathOf(name)
    BY <1>1, <2>1 DEF RemoveGet, Become, Types, Calls, git
  <2>. QED  BY <1>2, <1>3, <2>2, QuietStep DEF Recorded
<1>7. CASE RemoveCount(c)
  <2>1. call[c].pc = "count" /\ UNCHANGED <<rows, trees, torn>>
    BY <1>7 DEF RemoveCount, git
  <2>2. call[c] \in Removal
    BY <1>1, <2>1, RemoverShape
  <2>3. \/ call'[c].pc = "idle"
        \/ call'[c].pc = "remove" /\ call'[c].id = call[c].id /\ call'[c].path = call[c].path
    BY <1>1, <1>7, <2>2 DEF RemoveCount, Finish, Become, Idle, Types, Calls, Removal
  <2>4. \E n \in Recorded : rows[n].id = call[c].id /\ PathOf(n) = call[c].path
    BY <2>1 DEF TreeInv, Owned
  <2>. QED  BY <1>2, <1>3, <2>1, <2>3, <2>4, QuietStep DEF Recorded
<1>8. CASE GitRemoveFails(c)
  <2>1. call[c].pc = "remove" /\ UNCHANGED <<rows, trees, torn>> /\ call'[c].pc = "idle"
    BY <1>1, <1>8 DEF GitRemoveFails, Finish, Become, Idle, Types, Calls, git
  <2>. QED  BY <1>2, <1>3, <2>1, QuietStep DEF Recorded
<1>9. CASE GitRemove(c) \/ GitRemoveTimesOut(c)
  BY <1>9, GitRemoveKeepsTreeInv
<1>10. CASE RemoveRecord(c)
  BY <1>10, RemovalEnds DEF RemoveRecord, git
<1>. QED  BY <1>4, <1>5, <1>6, <1>7, <1>8, <1>9, <1>10 DEF Archive, Remove

LEMMA DieKeepsTreeInv ==
    ASSUME TreeInv, CallInv', OneRemover, NEW c \in Client, Die(c)
    PROVE  TreeInv'
<1>1. Types /\ Finish(c) /\ UNCHANGED <<rows, trees>> /\ call[c].pc # "idle"
  BY DEF TreeInv, CallInv, Die, git
<1>2. call'[c].pc = "idle" /\ \A d \in Client : d # c => call'[d] = call[d]
  BY <1>1 DEF Finish, Become, Idle, Types, Calls
<1>3. CASE call[c].pc = "record"
  <2>1. c \in Creator
    BY <1>1, <1>3, RemoverShape DEF Client
  <2>2. torn' = torn \cup {KeyOf(c)}
    BY <1>3 DEF Die, KeyOf
  <2>. QED  BY <1>1, <1>3, <2>1, <2>2, CreationEnds
<1>4. CASE call[c].pc = "drop"
  <2>1. c \in Remover
    BY <1>1, <1>4, CreatorShape DEF Client
  <2>2. torn' = torn \cup {call[c].path}
    BY <1>4 DEF Die
  <2>. QED  BY <1>1, <1>4, <2>1, <2>2, RemovalEnds
<1>5. CASE call[c].pc \notin {"record", "drop"}
  <2>1. torn' = torn
    BY <1>5 DEF Die
  <2>2. /\ \A d \in Creator : \/ call[d].pc # "record" /\ call'[d].pc # "record"
                              \/ call'[d] = call[d]
        /\ \A x \in Remover : \/ /\ call[x].pc # "drop" /\ call'[x].pc # "drop"
                                 /\ call'[x].pc \notin {"count", "remove"}
                              \/ call'[x] = call[x]
    BY <1>2, <1>5 DEF Client
  <2>. QED  BY <1>1, <2>1, <2>2, QuietStep DEF Recorded
<1>. QED  BY <1>3, <1>4, <1>5

LEMMA NextKeepsTreeInv ==
    ASSUME OneRemover
    PROVE  TreeInv /\ [Next]_vars => TreeInv'
<1>. SUFFICES ASSUME TreeInv, [Next]_vars PROVE TreeInv'
  OBVIOUS
<1>1. CallInv' /\ Types
  BY NextKeepsCallInv DEF TreeInv, CallInv
<1>2. CASE \E c \in Creator : Create(c)
  BY <1>1, <1>2, CreateKeepsTreeInv
<1>3. CASE \E c \in Remover : Archive(c) \/ Remove(c)
  BY <1>1, <1>3, RemoverKeepsTreeInv
<1>4. CASE \E c \in Client : Die(c)
  BY <1>1, <1>4, DieKeepsTreeInv
<1>5. CASE (\E r \in Run : RunStep(r)) \/ (\E p \in Path : UserCleans(p)) \/ UNCHANGED vars
  <2>1. UNCHANGED <<rows, trees, call, torn>>
    BY <1>1, <1>5, RunMoves DEF UserCleans, vars, git
  <2>. QED  BY <1>1, <2>1, QuietStep DEF Recorded
<1>. QED  BY <1>2, <1>3, <1>4, <1>5 DEF Next

(* With one remover, every caller between git and the table still finds what *)
(* it left there.                                                            *)
THEOREM TreeInvariance ==
    ASSUME OneRemover
    PROVE  Spec => []TreeInv
BY InitTreeInv, NextKeepsTreeInv, PTL DEF Spec

(* A recorded worktree has its directory (worktrees.py, delete_worktree:     *)
(* git first, the row after it), but for a removal between the two and the   *)
(* paths a killed one left.                                                  *)
THEOREM RecordedWorktreesHaveTrees ==
    ASSUME OneRemover
    PROVE  Spec => []RowsHaveTrees
<1>1. TreeInv => RowsHaveTrees
  BY DEF TreeInv
<1>. QED  BY <1>1, TreeInvariance, PTL

(* A directory git made has its row (routes/worktrees.py, create_worktree:   *)
(* git first, the row after it), but for a creation between the two and the  *)
(* paths where the row was refused or its caller killed.                     *)
THEOREM TreesAreRecorded ==
    ASSUME OneRemover
    PROVE  Spec => []TreesHaveRows
<1>1. TreeInv => TreesHaveRows
  BY DEF TreeInv
<1>. QED  BY <1>1, TreeInvariance, PTL
================================================================================
