--------------------------- MODULE GitWorkspaceProofs ---------------------------
(***************************************************************************)
(* Proofs about GitWorkspace for any files, runs, clients and bounds.      *)
(*                                                                         *)
(* Nothing but a run takes the workspace lock, so every git command may    *)
(* fall between two steps of any call.  Kept says what a step leaves true  *)
(* for the calls beside it: commits are only added, what the branch had it  *)
(* has or a rollback took off, and secret-like content that was in a commit *)
(* or newer than a review is so.  GitInv says what a call and a record rely  *)
(* on, each for itself, so that a step has to be looked at only for its own. *)
(***************************************************************************)
EXTENDS GitWorkspace, TLAPS

Object == [parent : Nat, tree : Tree]

(* The repository: its files, its staging area, its commits and its branch. *)
StoreTypes ==
    /\ work \in Tree /\ index \in Tree /\ edits \in Contents
    /\ commits \in Seq(Object)
    /\ \A i \in DOMAIN commits : commits[i].parent \in 0..(i - 1)
    /\ head \in DOMAIN commits /\ cut \subseteq DOMAIN commits

RunCall == [status : {"CREATED", "RUNNING", "WAITING_APPROVAL", "DONE", "FAILED", "STOPPED"},
            pc : {"idle", "head", "status", "agent"}, seen : Nat]

RunTypes ==
    /\ run \in [Runs -> RunCall]
    /\ \A r \in Runs : run[r].pc = "status" => run[r].seen \in DOMAIN commits
    /\ holder \in 0..NumRuns /\ (holder # 0 => run[holder].pc # "idle")

RowTypes == checkpoints \in Seq(RunCheckpoint) /\ records \in Seq(RunCommit)

Committing == {"add", "staged", "commit", "fail", "hash", "committed"}
Other == {"idle", "reset", "mark", "files", "lock"}
Call == [pc : Other \cup Committing, run : 0..NumRuns,
         lines : SUBSET Line, record : Nat, checkpoint : Nat, force : BOOLEAN, ok : BOOLEAN,
         hash : Nat, known : Contents, hidden : SUBSET File]

(* The content is in a commit for this file already, or newer than k. *)
CommittedOrNew(f, content, k) == content > k \/ \E i \in DOMAIN commits : Content(f, i) = content

(* So it is with every secret-like file that was not hidden. *)
CleanOrNew(k, hidden) ==
    \A f \in SecretLike \ hidden : CommittedOrNew(f, index[f], k) /\ CommittedOrNew(f, work[f], k)

RecordOK(i) ==
    /\ records[i].known <= edits
    /\ records[i].status = "COMMITTED" =>
          /\ records[i].made # 0
          /\ records[i].hash = 0 \/ records[i].made \in History(records[i].hash) \cup cut
    /\ records[i].made # 0 =>
          \A f \in SecretLike \ records[i].hidden :
              CommittedBefore(f, records[i].made) \/ Content(f, records[i].made) > records[i].known

(* The record a commit call works on is its own, and open. *)
RecordHeld(c) ==
    /\ call[c].record \in DOMAIN records
    /\ Mine(c).status = "PROPOSED"
    /\ call[c].pc \in {"add", "staged", "commit"} => CleanOrNew(Mine(c).known, Mine(c).hidden)
    /\ call[c].pc = "hash" => Mine(c).made # 0 /\ Mine(c).made \in History(head) \cup cut
    /\ call[c].pc = "committed" =>
          /\ Mine(c).made # 0
          /\ call[c].hash = 0 \/ Mine(c).made \in History(call[c].hash) \cup cut

ClientOK(c) ==
    /\ call[c] \in Call
    /\ call[c].hash <= Len(commits) /\ call[c].known <= edits
    /\ call[c].pc \in {"reset", "mark"} => call[c].checkpoint \in DOMAIN checkpoints
    /\ call[c].pc \in {"files", "lock"} => call[c].run \in Runs
    /\ call[c].pc = "lock" => CleanOrNew(call[c].known, call[c].hidden)
    /\ call[c].pc \in Committing => RecordHeld(c)

OwnRecords ==
    \A c, d \in Clients : call[c].pc \in Committing /\ call[d].pc \in Committing /\ c # d =>
        call[c].record # call[d].record

GitInv ==
    /\ StoreTypes /\ RunTypes /\ RowTypes
    /\ call \in [Clients -> Call] /\ OwnRecords
    /\ \A i \in DOMAIN records : RecordOK(i)
    /\ \A c \in Clients : ClientOK(c)

(* What a step leaves true for those beside it. *)
Kept ==
    /\ StoreTypes /\ StoreTypes'
    /\ edits <= edits' /\ Len(commits) <= Len(commits')
    /\ \A i \in DOMAIN commits : commits'[i] = commits[i]
    /\ \A h \in 0..Len(commits) : History(h) \subseteq History(h)'
    /\ cut \subseteq cut' /\ History(head) \cup cut \subseteq (History(head) \cup cut)'
    /\ \A k \in 0..edits, hidden \in SUBSET File : CleanOrNew(k, hidden) => CleanOrNew(k, hidden)'
--------------------------------------------------------------------------------
(* The ancestors of a commit do not depend on later ones. *)
LEMMA HistoryStays ==
    ASSUME StoreTypes, Len(commits) <= Len(commits'), commits' \in Seq(Object),
           \A i \in DOMAIN commits : commits'[i] = commits[i]
    PROVE  \A h \in 0..Len(commits) : History(h) \subseteq History(h)'
<1>. SUFFICES ASSUME NEW h \in 0..Len(commits), NEW i \in History(h),
                     NEW S \in SUBSET (1..h), h \in S,
                     \A j \in S : commits'[j].parent \in S \cup {0}
              PROVE  i \in S
  BY DEF History, Hereditary
<1>1. \A j \in S : j \in DOMAIN commits
  BY DEF StoreTypes
<1>2. \A j \in S : commits[j].parent \in S \cup {0}
  BY <1>1
<1>. QED  BY <1>2 DEF History, Hereditary

(* A new commit has its parent's history. *)
LEMMA HistoryGrows ==
    ASSUME StoreTypes, CommitIndex
    PROVE  /\ History(head) \subseteq History(head)'
           /\ head' \in History(head)'
<1>1. /\ head \in 1..Len(commits) /\ Len(commits) \in Nat
      /\ commits' = Append(commits, [parent |-> head, tree |-> index])
      /\ head' = Len(commits) + 1
  BY DEF StoreTypes, CommitIndex
<1>2. /\ commits'[head'].parent = head
      /\ \A i \in 1..Len(commits) : commits'[i] = commits[i]
  BY <1>1 DEF StoreTypes
<1>3. head' \in History(head)'
  BY <1>1 DEF History
<1>4. ASSUME NEW i \in History(head) PROVE i \in History(head)'
  <2>1. i \in 1..head'
    BY <1>1, <1>4 DEF History
  <2>. SUFFICES ASSUME NEW S \in SUBSET (1..head'), head' \in S,
                       \A j \in S : commits'[j].parent \in S \cup {0}
                PROVE  i \in S
    BY <2>1 DEF History, Hereditary
  <2>. DEFINE T == S \cap (1..head)
  <2>2. head \in T
    BY <1>1, <1>2
  <2>3. ASSUME NEW j \in T PROVE commits[j].parent \in T \cup {0}
    <3>1. j \in DOMAIN commits /\ j \in 1..head
      BY <1>1 DEF StoreTypes
    <3>2. commits[j].parent \in 0..(j - 1) /\ commits'[j] = commits[j]
      BY <1>1, <1>2, <3>1 DEF StoreTypes
    <3>3. commits[j].parent \in S \cup {0} /\ commits[j].parent \in 0..head
      BY <1>1, <3>1, <3>2
    <3>. QED  BY <1>1, <3>3
  <2>. HIDE DEF T
  <2>4. T \in SUBSET (1..head)
    BY DEF T
  <2>5. i \in T
    BY <1>4, <2>2, <2>3, <2>4 DEF History, Hereditary
  <2>. QED  BY <2>5 DEF T
<1>. QED  BY <1>3, <1>4

LEMMA HeadIsReached == ASSUME StoreTypes PROVE head \in History(head)
BY DEF StoreTypes, History

--------------------------------------------------------------------------------
(* Commits are not taken back, and a file gets content it had, of a commit,   *)
(* or new.                                                                   *)
LEMMA CleanStays ==
    ASSUME StoreTypes, Len(commits) <= Len(commits'), commits' \in Seq(Object),
           \A i \in DOMAIN commits : commits'[i] = commits[i],
           NEW k \in 0..edits, NEW hidden \in SUBSET File, CleanOrNew(k, hidden),
           \A f \in File : /\ index'[f] \in {index[f], work[f]} \/ \E i \in DOMAIN commits : index'[f] = Content(f, i)
                           /\ \/ work'[f] \in {index[f], work[f]} \/ work'[f] > k
                              \/ \E i \in DOMAIN commits : work'[f] = Content(f, i)
    PROVE  CleanOrNew(k, hidden)'
<1>1. DOMAIN commits \subseteq DOMAIN commits'
  BY DEF StoreTypes
<1>2. ASSUME NEW f, NEW content, CommittedOrNew(f, content, k)
      PROVE  CommittedOrNew(f, content, k)'
  BY <1>1, <1>2 DEF CommittedOrNew, Content
<1>3. ASSUME NEW f \in SecretLike \ hidden
      PROVE  CommittedOrNew(f, index[f], k)' /\ CommittedOrNew(f, work[f], k)'
  <2>1. f \in File /\ CommittedOrNew(f, index[f], k) /\ CommittedOrNew(f, work[f], k)
    BY <1>3, GitAssumption DEF CleanOrNew
  <2>2. \A i \in DOMAIN commits : CommittedOrNew(f, Content(f, i), k)
    BY DEF CommittedOrNew
  <2>3. CommittedOrNew(f, index'[f], k)
    BY <2>1, <2>2
  <2>4. CommittedOrNew(f, work'[f], k)
    BY <2>1, <2>2 DEF CommittedOrNew
  <2>5. PICK i, w : i = index'[f] /\ w = work'[f]
    OBVIOUS
  <2>6. CommittedOrNew(f, i, k)' /\ CommittedOrNew(f, w, k)'
    BY <1>2, <2>3, <2>4, <2>5
  <2>. QED  BY <2>5, <2>6 DEF CommittedOrNew
<1>. QED  BY <1>3 DEF CleanOrNew

(* The git commands, and what they leave to the others. *)
LEMMA WriteKept ==
    ASSUME StoreTypes, NEW f \in File, Write(f), UNCHANGED cut
    PROVE  Kept
<1>1. /\ edits' = edits + 1 /\ edits + 1 \in Contents /\ edits \in Nat
      /\ work' = [work EXCEPT ![f] = edits + 1] /\ work \in Tree
      /\ UNCHANGED <<index, commits, head, cut>>
  BY GitAssumption DEF Write, StoreTypes, Contents
<1>2. StoreTypes'
  BY <1>1 DEF StoreTypes, Tree
<1>3. \A h \in 0..Len(commits) : History(h) \subseteq History(h)'
  BY <1>1, <1>2, HistoryStays DEF StoreTypes
<1>4. (History(head) \cup cut)' = History(head) \cup cut
  BY <1>1 DEF History, Hereditary
<1>5. ASSUME NEW k \in 0..edits, NEW hidden \in SUBSET File, CleanOrNew(k, hidden)
      PROVE  CleanOrNew(k, hidden)'
  <2>1. \A g \in File : index'[g] = index[g] /\ (work'[g] = work[g] \/ work'[g] > k)
    BY <1>1 DEF Tree
  <2>. QED  BY <1>1, <1>2, <1>5, <2>1, CleanStays DEF StoreTypes
<1>. QED  BY <1>1, <1>2, <1>3, <1>4, <1>5 DEF Kept, StoreTypes

LEMMA AddKept ==
    ASSUME StoreTypes, NEW lines \in SUBSET Line, Add(lines), UNCHANGED cut
    PROVE  Kept
<1>. DEFINE added(f) == \E line \in lines : f \in Under(line)
<1>1. /\ index' = [f \in File |-> IF added(f) THEN work[f] ELSE index[f]]
      /\ work \in Tree /\ index \in Tree /\ edits \in Nat
      /\ UNCHANGED <<work, commits, head, edits, cut>>
  BY DEF Add, StoreTypes, Contents
<1>. HIDE DEF added
<1>2. StoreTypes'
  BY <1>1 DEF StoreTypes, Tree
<1>3. \A h \in 0..Len(commits) : History(h) \subseteq History(h)'
  BY <1>1, <1>2, HistoryStays DEF StoreTypes
<1>4. (History(head) \cup cut)' = History(head) \cup cut
  BY <1>1 DEF History, Hereditary
<1>5. ASSUME NEW k \in 0..edits, NEW hidden \in SUBSET File, CleanOrNew(k, hidden)
      PROVE  CleanOrNew(k, hidden)'
  <2>1. \A f \in File : index'[f] \in {index[f], work[f]} /\ work'[f] = work[f]
    BY <1>1
  <2>. QED  BY <1>1, <1>2, <1>5, <2>1, CleanStays DEF StoreTypes
<1>. QED  BY <1>1, <1>2, <1>3, <1>4, <1>5 DEF Kept, StoreTypes

LEMMA CommitKept ==
    ASSUME StoreTypes, CommitIndex, UNCHANGED cut
    PROVE  /\ Kept
           /\ head' = Len(commits) + 1 /\ head' \in DOMAIN commits'
           /\ commits'[head'] = [parent |-> head, tree |-> index]
<1>. DEFINE new == [parent |-> head, tree |-> index]
<1>1. /\ commits \in Seq(Object) /\ new \in Object /\ Len(commits) \in Nat
      /\ head \in 1..Len(commits) /\ edits \in Nat
      /\ new.parent = head /\ new.tree = index
  BY DEF StoreTypes, Object, Contents
<1>2. commits' = Append(commits, new) /\ head' = Len(commits) + 1 /\ UNCHANGED <<work, index, edits, cut>>
  BY DEF CommitIndex
<1>. HIDE DEF new
<1>3. /\ commits' \in Seq(Object) /\ Len(commits') = Len(commits) + 1
      /\ commits'[head'] = new /\ \A i \in DOMAIN commits : commits'[i] = commits[i]
  BY <1>1, <1>2
<1>4. StoreTypes'
  <2>1. ASSUME NEW i \in DOMAIN commits' PROVE commits'[i].parent \in 0..(i - 1)
    <3>1. i \in 1..(Len(commits) + 1)
      BY <1>3
    <3>2. CASE i \in DOMAIN commits
      BY <1>3, <3>2 DEF StoreTypes
    <3>3. CASE i = head'
      BY <1>1, <1>2, <1>3, <3>3
    <3>. QED  BY <1>1, <1>2, <3>1, <3>2, <3>3
  <2>2. head' \in DOMAIN commits' /\ DOMAIN commits \subseteq DOMAIN commits'
    BY <1>1, <1>2, <1>3
  <2>. QED  BY <1>2, <1>3, <2>1, <2>2 DEF StoreTypes
<1>5. \A h \in 0..Len(commits) : History(h) \subseteq History(h)'
  BY <1>1, <1>3, HistoryStays
<1>6. History(head) \cup cut \subseteq (History(head) \cup cut)'
  BY <1>2, HistoryGrows
<1>7. ASSUME NEW k \in 0..edits, NEW hidden \in SUBSET File, CleanOrNew(k, hidden)
      PROVE  CleanOrNew(k, hidden)'
  <2>1. \A f \in File : index'[f] = index[f] /\ work'[f] = work[f]
    BY <1>2
  <2>. QED  BY <1>1, <1>3, <1>7, <2>1, CleanStays
<1>8. Kept
  BY <1>1, <1>2, <1>3, <1>4, <1>5, <1>6, <1>7 DEF Kept
<1>. QED  BY <1>2, <1>3, <1>4, <1>8 DEF new, StoreTypes

LEMMA ResetKept ==
    ASSUME StoreTypes, NEW target \in DOMAIN commits, ResetHard(target),
           cut' = cut \cup (History(head) \ History(target))
    PROVE  Kept
<1>1. /\ work' = AfterReset(target) /\ index' = commits[target].tree /\ head' = target
      /\ UNCHANGED <<commits, edits>>
      /\ commits[target].tree \in Tree /\ work \in Tree /\ edits \in Nat
      /\ head \in 1..Len(commits) /\ Len(commits) \in Nat
  <2>1. commits[target] \in Object /\ head \in 1..Len(commits) /\ Len(commits) \in Nat
    BY DEF StoreTypes
  <2>. QED  BY <2>1 DEF ResetHard, StoreTypes, Object, Contents
<1>2. History(head) \subseteq DOMAIN commits
  BY <1>1 DEF History, StoreTypes
<1>3. StoreTypes'
  <2>1. work' \in Tree
    BY <1>1 DEF AfterReset, Tree
  <2>. QED  BY <1>1, <1>2, <2>1 DEF StoreTypes
<1>4. \A h \in 0..Len(commits) : History(h) \subseteq History(h)'
  BY <1>1, <1>3, HistoryStays DEF StoreTypes
<1>5. History(head)' = History(target)
  BY <1>1 DEF History, Hereditary
<1>6. ASSUME NEW k \in 0..edits, NEW hidden \in SUBSET File, CleanOrNew(k, hidden)
      PROVE  CleanOrNew(k, hidden)'
  <2>1. \A f \in File : index'[f] = Content(f, target) /\ work'[f] \in {work[f], Content(f, target)}
    BY <1>1 DEF AfterReset, Content
  <2>. QED  BY <1>1, <1>3, <1>6, <2>1, CleanStays DEF StoreTypes
<1>. QED  BY <1>1, <1>3, <1>4, <1>5, <1>6 DEF Kept

(* A killed reset wrote some files of the work tree. *)
LEMMA TornResetKept ==
    ASSUME StoreTypes, NEW target \in DOMAIN commits, NEW files \in SUBSET File,
           work' = [f \in File |-> IF f \in files THEN AfterReset(target)[f] ELSE work[f]],
           UNCHANGED <<index, commits, head, edits, cut>>
    PROVE  Kept
<1>1. commits[target].tree \in Tree /\ work \in Tree /\ edits \in Nat /\ Len(commits) \in Nat
  <2>1. commits[target] \in Object
    BY DEF StoreTypes
  <2>. QED  BY <2>1 DEF StoreTypes, Object, Contents
<1>2. \A f \in File : work'[f] \in {work[f], Content(f, target)}
  BY DEF AfterReset, Content
<1>3. StoreTypes'
  <2>1. work' \in Tree
    BY <1>1 DEF AfterReset, Tree
  <2>. QED  BY <2>1 DEF StoreTypes
<1>4. \A h \in 0..Len(commits) : History(h) \subseteq History(h)'
  BY <1>3, HistoryStays DEF StoreTypes
<1>5. (History(head) \cup cut)' = History(head) \cup cut
  BY DEF History, Hereditary
<1>6. ASSUME NEW k \in 0..edits, NEW hidden \in SUBSET File, CleanOrNew(k, hidden)
      PROVE  CleanOrNew(k, hidden)'
  BY <1>1, <1>2, <1>3, <1>6, CleanStays DEF StoreTypes
<1>. QED  BY <1>1, <1>3, <1>4, <1>5, <1>6 DEF Kept

LEMMA NothingKept ==
    ASSUME StoreTypes, UNCHANGED <<gitVars, cut>>
    PROVE  Kept
<1>1. UNCHANGED <<work, index, commits, head, edits, cut>>
  BY DEF gitVars
<1>2. StoreTypes' /\ edits \in Nat /\ Len(commits) \in Nat
  BY <1>1 DEF StoreTypes, Contents
<1>3. \A h \in 0..Len(commits) : History(h) \subseteq History(h)'
  BY <1>1, <1>2, HistoryStays DEF StoreTypes
<1>4. (History(head) \cup cut)' = History(head) \cup cut
  BY <1>1 DEF History, Hereditary
<1>5. \A k \in 0..edits, hidden \in SUBSET File : CleanOrNew(k, hidden) => CleanOrNew(k, hidden)'
  BY <1>1 DEF CleanOrNew, CommittedOrNew, Content
<1>. QED  BY <1>1, <1>2, <1>3, <1>4, <1>5 DEF Kept

--------------------------------------------------------------------------------
(* What the step of another keeps of a row or a call.                        *)
LEMMA RowKinds ==
    ASSUME Kept
    PROVE  /\ RunCheckpoint \subseteq RunCheckpoint' /\ RunCommit \subseteq RunCommit'
           /\ RowTypes => checkpoints \in Seq(RunCheckpoint)' /\ records \in Seq(RunCommit)'
<1>1. Len(commits) \in Nat /\ Len(commits') \in Nat /\ Len(commits) <= Len(commits')
  BY DEF Kept, StoreTypes
<1>2. 0..Len(commits) \subseteq 0..Len(commits') /\ DOMAIN commits \subseteq DOMAIN commits'
  BY <1>1 DEF Kept, StoreTypes
<1>3. RunCheckpoint \subseteq RunCheckpoint'
  BY <1>2 DEF RunCheckpoint
<1>4. RunCommit \subseteq RunCommit'
  BY <1>2 DEF RunCommit
<1>5. ASSUME RowTypes PROVE checkpoints \in Seq(RunCheckpoint)' /\ records \in Seq(RunCommit)'
  <2>1. \A S, T : S \subseteq T => Seq(S) \subseteq Seq(T)
    OBVIOUS
  <2>2. Seq(RunCheckpoint) \subseteq Seq(RunCheckpoint') /\ Seq(RunCommit) \subseteq Seq(RunCommit')
    BY <1>3, <1>4, <2>1
  <2>. QED  BY <1>5, <2>2 DEF RowTypes
<1>. QED  BY <1>3, <1>4, <1>5

LEMMA RecordStays ==
    ASSUME Kept, RowTypes, NEW i \in DOMAIN records, RecordOK(i), records'[i] = records[i]
    PROVE  RecordOK(i)'
<1>. DEFINE row == records[i]
<1>1. /\ row.known \in Nat /\ edits \in Nat /\ edits' \in Nat /\ edits <= edits'
      /\ row.hash \in 0..Len(commits) /\ row.made \in 0..Len(commits)
  <2>1. row \in RunCommit
    BY DEF RowTypes
  <2>. HIDE DEF row
  <2>2. row.known \in Contents /\ row.hash \in 0..Len(commits) /\ row.made \in 0..Len(commits)
    BY <2>1 DEF RunCommit
  <2>. QED  BY <2>2 DEF Kept, StoreTypes, Contents
<1>2. records'[i].known <= edits'
  BY <1>1 DEF RecordOK
<1>3. ASSUME records[i].made \in History(records[i].hash) \cup cut
      PROVE  records[i].made \in (History(records[i].hash) \cup cut)'
  <2>1. PICK h \in 0..Len(commits) : h = records[i].hash
    BY <1>1
  <2>2. History(h) \subseteq History(h)' /\ cut \subseteq cut'
    BY DEF Kept
  <2>. QED  BY <1>3, <2>1, <2>2 DEF History
<1>4. ASSUME records[i].made # 0, NEW f \in SecretLike \ records[i].hidden
      PROVE  CommittedBefore(f, records[i].made)' \/ Content(f, records[i].made)' > records[i].known
  <2>1. records[i].made \in 1..Len(commits) /\ Len(commits) \in Nat
    BY <1>1, <1>4 DEF Kept, StoreTypes
  <2>2. \A j \in 1..records[i].made : commits'[j] = commits[j]
    BY <2>1 DEF Kept, StoreTypes
  <2>3. Content(f, records[i].made)' = Content(f, records[i].made)
    BY <2>1, <2>2 DEF Content
  <2>4. CommittedBefore(f, records[i].made) => CommittedBefore(f, records[i].made)'
    BY <2>1, <2>2 DEF CommittedBefore, Content
  <2>. QED  BY <1>4, <2>3, <2>4 DEF RecordOK
<1>5. records'[i].made = records[i].made /\ records'[i].hidden = records[i].hidden
  OBVIOUS
<1>. QED  BY <1>2, <1>3, <1>4, <1>5 DEF RecordOK, CommittedBefore, Content, History

LEMMA HeldRecordStays ==
    ASSUME Kept, RowTypes, NEW c \in Clients, RecordHeld(c), call'[c] = call[c],
           RecordOK(call[c].record),
           call[c].hash \in 0..Len(commits),
           DOMAIN records \subseteq DOMAIN records',
           records'[call[c].record] = records[call[c].record]
    PROVE  RecordHeld(c)'
<1>1. Mine(c)' = Mine(c) /\ call'[c].record \in DOMAIN records'
  BY DEF RecordHeld, Mine
<1>2. PICK k \in 0..edits : k = Mine(c).known
  <2>1. Mine(c) \in RunCommit
    BY DEF RowTypes, RecordHeld, Mine
  <2>2. Mine(c).known \in Nat
    BY <2>1 DEF RunCommit, Contents
  <2>. QED  BY <2>2 DEF RecordOK, Mine, Kept, StoreTypes, Contents
<1>3. CleanOrNew(Mine(c).known, Mine(c).hidden) => CleanOrNew(Mine(c).known, Mine(c).hidden)'
  <2>1. Mine(c).hidden \in SUBSET File
    <3>1. Mine(c) \in RunCommit
      BY DEF RowTypes, RecordHeld, Mine
    <3>. QED  BY <3>1 DEF RunCommit
  <2>2. PICK hidden \in SUBSET File : hidden = Mine(c).hidden
    BY <2>1
  <2>3. CleanOrNew(k, hidden) => CleanOrNew(k, hidden)'
    BY DEF Kept
  <2>. QED  BY <1>1, <1>2, <2>2, <2>3 DEF CleanOrNew, CommittedOrNew, Content
<1>4. PICK h \in 0..Len(commits) : h = call[c].hash
  OBVIOUS
<1>5. History(call[c].hash) \cup cut \subseteq (History(call[c].hash) \cup cut)'
  <2>1. History(h) \subseteq History(h)' /\ cut \subseteq cut'
    BY DEF Kept
  <2>. QED  BY <1>4, <2>1 DEF History
<1>6. History(head) \cup cut \subseteq (History(head) \cup cut)'
  BY DEF Kept
<1>. QED  BY <1>1, <1>3, <1>5, <1>6 DEF RecordHeld

LEMMA ClientStays ==
    ASSUME Kept, RowTypes, NEW c \in Clients, ClientOK(c), call'[c] = call[c],
           \A i \in DOMAIN records : RecordOK(i),
           DOMAIN checkpoints \subseteq DOMAIN checkpoints',
           DOMAIN records \subseteq DOMAIN records',
           call[c].pc \in Committing => records'[call[c].record] = records[call[c].record]
    PROVE  ClientOK(c)'
<1>1. /\ call[c] \in Call
      /\ call[c].hash \in 0..Len(commits) /\ call[c].known \in 0..edits
      /\ edits \in Nat /\ edits' \in Nat /\ edits <= edits'
      /\ Len(commits) \in Nat /\ Len(commits') \in Nat /\ Len(commits) <= Len(commits')
  <2>1. call[c].hash \in Nat /\ call[c].known \in Contents
    BY DEF ClientOK, Call
  <2>. QED  BY <2>1 DEF ClientOK, Kept, StoreTypes, Contents
<1>2. call'[c].hash <= Len(commits') /\ call'[c].known <= edits'
  BY <1>1
<1>3. CleanOrNew(call[c].known, call[c].hidden) => CleanOrNew(call[c].known, call[c].hidden)'
  <2>1. PICK k \in 0..edits : k = call[c].known
    BY <1>1
  <2>2. call[c].hidden \in SUBSET File
    BY <1>1 DEF Call
  <2>3. PICK hidden \in SUBSET File : hidden = call[c].hidden
    BY <2>2
  <2>4. CleanOrNew(k, hidden) => CleanOrNew(k, hidden)'
    BY DEF Kept
  <2>. QED  BY <2>1, <2>3, <2>4 DEF CleanOrNew, CommittedOrNew, Content
<1>4. ASSUME call[c].pc \in Committing PROVE RecordHeld(c)'
  <2>1. RecordHeld(c) /\ call[c].record \in DOMAIN records
    BY <1>4 DEF ClientOK, RecordHeld
  <2>. QED  BY <1>1, <1>4, <2>1, HeldRecordStays
<1>. QED  BY <1>1, <1>2, <1>3, <1>4 DEF ClientOK

(* A step that leaves every row and every call it is not about as they are.  *)
LEMMA Beside ==
    ASSUME GitInv, Kept, RunTypes', RowTypes',
           call' \in [Clients -> Call], OwnRecords',
           DOMAIN checkpoints \subseteq DOMAIN checkpoints',
           DOMAIN records \subseteq DOMAIN records',
           \A i \in DOMAIN records' : (i \in DOMAIN records /\ records'[i] = records[i]) \/ RecordOK(i)',
           \A c \in Clients :
              \/ ClientOK(c)'
              \/ /\ call'[c] = call[c]
                 /\ call[c].pc \in Committing => records'[call[c].record] = records[call[c].record]
    PROVE  GitInv'
<1>1. StoreTypes'
  BY DEF Kept
<1>3. \A i \in DOMAIN records' : RecordOK(i)'
  BY RecordStays DEF GitInv
<1>4. \A c \in Clients : ClientOK(c)'
  BY ClientStays DEF GitInv
<1>. QED  BY <1>1, <1>3, <1>4 DEF GitInv

LEMMA RunTypesStay ==
    ASSUME Kept, RunTypes, UNCHANGED <<run, holder>>
    PROVE  RunTypes'
<1>1. DOMAIN commits \subseteq DOMAIN commits'
  BY DEF Kept, StoreTypes
<1>. QED  BY <1>1 DEF RunTypes

(* Only the repository or one run moves. *)
LEMMA RunOrUserMoves ==
    ASSUME GitInv, Kept, RunTypes', UNCHANGED <<checkpoints, records, call>>
    PROVE  GitInv'
<1>1. RowTypes'
  BY RowKinds DEF GitInv, RowTypes
<1>2. call' \in [Clients -> Call] /\ OwnRecords'
  BY DEF GitInv, OwnRecords
<1>. QED  BY <1>1, <1>2, Beside

(* Only one client's call moves, beside the repository. *)
LEMMA CallMoves ==
    ASSUME GitInv, Kept, NEW c \in Clients, NEW value \in Call,
           call' = [call EXCEPT ![c] = value],
           UNCHANGED <<run, holder, checkpoints, records>>,
           value.pc \in Committing => call[c].pc \in Committing /\ value.record = call[c].record,
           ClientOK(c)'
    PROVE  GitInv'
<1>1. RowTypes' /\ RunTypes'
  BY RowKinds, RunTypesStay DEF GitInv, RowTypes
<1>2. /\ call' \in [Clients -> Call] /\ call'[c] = value
      /\ \A d \in Clients \ {c} : call'[d] = call[d]
  BY DEF GitInv
<1>3. OwnRecords'
  BY <1>2 DEF GitInv, OwnRecords
<1>. QED  BY <1>1, <1>2, <1>3, Beside

(* A client marks the record it holds. *)
LEMMA RecordMoves ==
    ASSUME GitInv, Kept, NEW c \in Clients, NEW value \in Call, NEW row,
           NEW held \in DOMAIN records, held = call[c].record, call[c].pc \in Committing,
           call' = [call EXCEPT ![c] = value],
           records' = [records EXCEPT ![held] = row], row \in RunCommit',
           UNCHANGED <<run, holder, checkpoints>>,
           value.pc \in Committing => value.record = held,
           RecordOK(held)', ClientOK(c)'
    PROVE  GitInv'
<1>1. RunTypes'
  BY RunTypesStay DEF GitInv
<1>2. /\ call' \in [Clients -> Call] /\ call'[c] = value
      /\ \A d \in Clients \ {c} : call'[d] = call[d]
  BY DEF GitInv
<1>3. OwnRecords'
  BY <1>2 DEF GitInv, OwnRecords
<1>4. records \in Seq(RunCommit)' /\ checkpoints \in Seq(RunCheckpoint)'
  BY RowKinds DEF GitInv
<1>5. /\ DOMAIN records' = DOMAIN records
      /\ \A i \in DOMAIN records : i # held => records'[i] = records[i]
      /\ records' \in Seq(RunCommit)'
  BY <1>4
<1>6. RowTypes'
  BY <1>4, <1>5 DEF RowTypes
<1>7. ASSUME NEW d \in Clients, d # c, call[d].pc \in Committing
      PROVE  records'[call[d].record] = records[call[d].record]
  <2>1. call[d].record # call[c].record /\ call[d].record \in DOMAIN records
    BY <1>7 DEF GitInv, OwnRecords, ClientOK, RecordHeld
  <2>. QED  BY <1>5, <2>1
<1>. QED  BY <1>1, <1>2, <1>3, <1>5, <1>6, <1>7, Beside

(* A record is inserted, for a client or for display. *)
LEMMA RecordInserted ==
    ASSUME GitInv, Kept, NEW row \in RunCommit,
           records' = Append(records, row), call' \in [Clients -> Call],
           \A c \in Clients : \/ call'[c] = call[c]
                              \/ ClientOK(c)' /\ call'[c].record = Len(records) + 1,
           \A c, d \in Clients : call'[c] # call[c] /\ call'[d] # call[d] => c = d,
           UNCHANGED <<run, holder, checkpoints>>,
           row.status = "PROPOSED", row.made = 0, row.known <= edits
    PROVE  GitInv'
<1>1. RunTypes' /\ RowTypes /\ records \in Seq(RunCommit) /\ Len(records) \in Nat
  BY RunTypesStay DEF GitInv, RowTypes
<1>2. row \in RunCommit' /\ records \in Seq(RunCommit)' /\ checkpoints \in Seq(RunCheckpoint)'
  BY <1>1, RowKinds
<1>3. RowTypes'
  BY <1>2 DEF RowTypes
<1>4. /\ DOMAIN records' = (DOMAIN records) \cup {Len(records) + 1}
      /\ records'[Len(records) + 1] = row
      /\ \A i \in DOMAIN records : records'[i] = records[i] /\ i # Len(records) + 1
  BY <1>1
<1>5. ASSUME NEW i \in DOMAIN records', i \notin DOMAIN records PROVE RecordOK(i)'
  <2>1. row.known <= edits'
    BY DEF RunCommit, Kept, StoreTypes, Contents
  <2>2. records'[i] = row
    BY <1>4, <1>5
  <2>. QED  BY <2>1, <2>2 DEF RecordOK
<1>6. \A c \in Clients : call[c].pc \in Committing => call[c].record \in DOMAIN records
  BY DEF GitInv, ClientOK, RecordHeld
<1>7. OwnRecords'
  BY <1>4, <1>6 DEF GitInv, OwnRecords
<1>8. \A c \in Clients :
         \/ ClientOK(c)'
         \/ /\ call'[c] = call[c]
            /\ call[c].pc \in Committing => records'[call[c].record] = records[call[c].record]
  BY <1>4, <1>6
<1>9. \A i \in DOMAIN records' : (i \in DOMAIN records /\ records'[i] = records[i]) \/ RecordOK(i)'
  BY <1>4, <1>5
<1>. QED  BY <1>1, <1>3, <1>4, <1>7, <1>8, <1>9, Beside

--------------------------------------------------------------------------------
(* The user and the runs.                                                    *)
LEMMA UserKeepsGitInv == ASSUME GitInv, UserEdits PROVE GitInv'
<1>1. UNCHANGED <<run, holder, checkpoints, records, call, cut>> /\ StoreTypes /\ RunTypes
  BY DEF UserEdits, GitInv
<1>2. Kept
  <2>1. \A f \in File : {f} \in SUBSET Line
    BY DEF Line
  <2>. QED  BY <1>1, <2>1, WriteKept, AddKept, CommitKept DEF UserEdits
<1>. QED  BY <1>1, <1>2, RunTypesStay, RunOrUserMoves

(* One run's call moves; the lock goes to it, or is free.                    *)
LEMMA OneRunMoves ==
    ASSUME Kept, RunTypes, NEW r \in Runs, NEW value \in RunCall,
           run' = [run EXCEPT ![r] = value],
           value.pc = "status" => value.seen \in DOMAIN commits,
           holder' \in {0, holder, r}, holder' = r => value.pc # "idle"
    PROVE  RunTypes'
<1>1. DOMAIN commits \subseteq DOMAIN commits'
  BY DEF Kept, StoreTypes
<1>2. r \in 0..NumRuns
  BY GitAssumption DEF Runs
<1>3. \A q \in Runs : run'[q] = IF q = r THEN value ELSE run[q]
  BY DEF RunTypes
<1>4. run' \in [Runs -> RunCall]
  BY DEF RunTypes
<1>5. holder' # 0 => holder' \in Runs
  BY <1>2, GitAssumption DEF RunTypes, Runs
<1>6. ASSUME holder' # 0 PROVE run'[holder'].pc # "idle"
  <2>1. CASE holder' = r
    BY <1>3, <2>1
  <2>2. CASE holder' # r
    <3>1. holder' = holder /\ holder \in Runs
      BY <1>5, <1>6, <2>2
    <3>. QED  BY <1>3, <1>6, <2>2, <3>1 DEF RunTypes
  <2>. QED  BY <2>1, <2>2
<1>7. holder' \in 0..NumRuns
  BY <1>2, GitAssumption DEF RunTypes
<1>. QED  BY <1>1, <1>3, <1>4, <1>6, <1>7 DEF RunTypes

LEMMA RunStepKeepsGitInv ==
    ASSUME GitInv, NEW r \in Runs, RunStep(r)
    PROVE  GitInv'
<1>1. StoreTypes /\ RunTypes /\ RowTypes /\ run[r] \in RunCall
  BY DEF GitInv, RunTypes
<1>2. CASE AgentEdits(r)
  <2>1. Kept
    BY <1>1, <1>2, WriteKept DEF AgentEdits, Stored
  <2>. QED  BY <1>1, <1>2, <2>1, RunTypesStay, RunOrUserMoves DEF AgentEdits, Stored
<1>3. CASE ~AgentEdits(r)
  <2>1. UNCHANGED <<gitVars, cut, records, call>>
    BY <1>3 DEF RunStep, Execute, CaptureHead, CaptureStatus, CaptureFails, NextStep, Finish, Stored
  <2>2. Kept
    BY <1>1, <2>1, NothingKept
  <2>3. head \in Nat /\ head \in DOMAIN commits
    BY <1>1 DEF StoreTypes
  <2>4. CASE Execute(r)
    <3>. DEFINE value == [run[r] EXCEPT !.status = "RUNNING", !.pc = "head"]
    <3>1. value \in RunCall /\ value.pc = "head"
      BY <1>1 DEF RunCall
    <3>2. run' = [run EXCEPT ![r] = value] /\ holder' = r
      BY <1>1, <2>4 DEF Execute, RunTypes
    <3>. HIDE DEF value
    <3>3. RunTypes'
      BY <1>1, <2>2, <3>1, <3>2, OneRunMoves
    <3>. QED  BY <2>2, <2>4, <3>3, RunOrUserMoves DEF Execute, Stored
  <2>5. CASE CaptureHead(r)
    <3>. DEFINE value == [run[r] EXCEPT !.pc = "status", !.seen = head]
    <3>1. value \in RunCall /\ value.pc = "status" /\ value.seen = head
      BY <1>1, <2>3 DEF RunCall
    <3>2. run' = [run EXCEPT ![r] = value] /\ holder' = holder
      BY <1>1, <2>5 DEF CaptureHead, RunTypes
    <3>. HIDE DEF value
    <3>3. RunTypes'
      BY <1>1, <2>2, <2>3, <3>1, <3>2, OneRunMoves
    <3>. QED  BY <2>2, <2>5, <3>3, RunOrUserMoves DEF CaptureHead, Stored
  <2>6. ASSUME NEW pc \in {"agent", "head"}, NEW seen \in Nat, holder' = holder,
               run' = [run EXCEPT ![r].pc = pc, ![r].seen = seen]
        PROVE  RunTypes'
    <3>. DEFINE value == [run[r] EXCEPT !.pc = pc, !.seen = seen]
    <3>1. value \in RunCall /\ value.pc = pc
      BY <1>1 DEF RunCall
    <3>2. run' = [run EXCEPT ![r] = value]
      BY <1>1, <2>6 DEF RunTypes
    <3>. HIDE DEF value
    <3>. QED  BY <1>1, <2>2, <2>6, <3>1, <3>2, OneRunMoves
  <2>7. CASE CaptureFails(r) \/ NextStep(r)
    <3>1. CASE CaptureFails(r)
      <4>1. RunTypes'
        BY <2>6, <3>1 DEF CaptureFails
      <4>. QED  BY <2>2, <3>1, <4>1, RunOrUserMoves DEF CaptureFails, Stored
    <3>2. CASE NextStep(r)
      <4>1. run[r].seen \in Nat /\ run' = [run EXCEPT ![r].pc = "head", ![r].seen = run[r].seen]
        BY <1>1, <3>2 DEF NextStep, RunCall, RunTypes
      <4>2. RunTypes'
        BY <2>6, <3>2, <4>1 DEF NextStep
      <4>. QED  BY <2>2, <3>2, <4>2, RunOrUserMoves DEF NextStep, Stored
    <3>. QED  BY <2>7, <3>1, <3>2
  <2>8. CASE Finish(r)
    <3>1. PICK to \in {"WAITING_APPROVAL", "DONE", "FAILED", "STOPPED"} :
             run' = [run EXCEPT ![r].status = to, ![r].pc = "idle"] /\ holder' = 0
      BY <2>8 DEF Finish
    <3>. DEFINE value == [run[r] EXCEPT !.status = to, !.pc = "idle"]
    <3>2. value \in RunCall /\ value.pc = "idle"
      BY <1>1 DEF RunCall
    <3>3. run' = [run EXCEPT ![r] = value]
      BY <1>1, <3>1 DEF RunTypes
    <3>. HIDE DEF value
    <3>4. holder' # r
      BY <3>1, GitAssumption DEF Runs
    <3>5. RunTypes'
      BY <1>1, <2>2, <3>1, <3>2, <3>3, <3>4, OneRunMoves
    <3>. QED  BY <2>2, <2>8, <3>5, RunOrUserMoves DEF Finish, Stored
  <2>9. CASE CaptureStatus(r)
    <3>1. PICK dirty \in {Dirty, FALSE} :
             checkpoints' = Append(checkpoints, [run |-> r, head |-> run[r].seen, dirty |-> dirty,
                                                 status |-> "CREATED", was |-> Dirty])
      BY <2>9 DEF CaptureStatus
    <3>. DEFINE row == [run |-> r, head |-> run[r].seen, dirty |-> dirty, status |-> "CREATED",
                        was |-> Dirty]
                value == [run[r] EXCEPT !.pc = "agent", !.seen = 0]
    <3>2. /\ run[r].pc = "status" /\ run[r].seen \in DOMAIN commits
          /\ run' = [run EXCEPT ![r] = value] /\ holder' = holder
      BY <1>1, <2>9 DEF CaptureStatus, RunTypes
    <3>3. row \in RunCheckpoint /\ value \in RunCall /\ value.pc = "agent"
      BY <1>1, <3>2 DEF RunCheckpoint, Dirty, RunCall
    <3>4. checkpoints' = Append(checkpoints, row)
      BY <3>1
    <3>. HIDE DEF row, value
    <3>5. RunTypes'
      BY <1>1, <2>2, <3>2, <3>3, OneRunMoves
    <3>6. row \in RunCheckpoint' /\ checkpoints \in Seq(RunCheckpoint)' /\ records \in Seq(RunCommit)'
      BY <1>1, <2>2, <3>3, RowKinds
    <3>7. RowTypes' /\ DOMAIN checkpoints \subseteq DOMAIN checkpoints'
      BY <2>1, <3>4, <3>6 DEF RowTypes
    <3>8. call' \in [Clients -> Call] /\ OwnRecords'
      BY <2>1 DEF GitInv, OwnRecords
    <3>. QED  BY <2>1, <2>2, <3>5, <3>7, <3>8, Beside
  <2>. QED  BY <1>3, <2>4, <2>5, <2>7, <2>8, <2>9 DEF RunStep
<1>. QED  BY <1>2, <1>3

--------------------------------------------------------------------------------
(* The calls of the clients.                                                 *)
LEMMA GoesTo ==
    ASSUME NEW c \in Clients, call \in [Clients -> Call],
           NEW pc \in Other \cup Committing,
           Goto(c, pc)
    PROVE  \E value \in Call :
              /\ call' = [call EXCEPT ![c] = value]
              /\ value.pc = pc /\ value.record = call[c].record
              /\ value.checkpoint = call[c].checkpoint
              /\ value.hash = call[c].hash /\ value.known = call[c].known
<1>. DEFINE value == [call[c] EXCEPT !.pc = pc]
<1>1. call' = [call EXCEPT ![c] = value]
  BY DEF Goto
<1>2. call[c] \in Call
  OBVIOUS
<1>3. /\ value \in Call
      /\ value.pc = pc /\ value.record = call[c].record
      /\ value.checkpoint = call[c].checkpoint
      /\ value.hash = call[c].hash /\ value.known = call[c].known
  BY <1>2 DEF Call
<1>. HIDE DEF value
<1>. QED  BY <1>1, <1>3

(* A call that ended holds nothing. *)
LEMMA IdleIsFine ==
    ASSUME Kept, NEW c \in Clients, call'[c] = Idle
    PROVE  Idle \in Call /\ Idle.pc = "idle" /\ ClientOK(c)'
<1>1. Idle \in Call
  BY GitAssumption DEF Idle, Call, Contents, Other
<1>2. Idle.pc = "idle" /\ Idle.hash = 0 /\ Idle.known = 0
  BY DEF Idle
<1>. QED  BY <1>1, <1>2 DEF ClientOK, Committing, Kept, StoreTypes, Contents

LEMMA InvParts ==
    ASSUME GitInv, NEW c \in Clients
    PROVE  /\ StoreTypes /\ RowTypes /\ call \in [Clients -> Call] /\ call[c] \in Call
           /\ ClientOK(c) /\ edits \in Nat /\ Len(commits) \in Nat
           /\ call[c].hash <= Len(commits) /\ call[c].known <= edits
           /\ call[c].pc \in Committing =>
                 RecordHeld(c) /\ call[c].record \in DOMAIN records /\ Mine(c) \in RunCommit
                 /\ RecordOK(call[c].record)
<1>1. StoreTypes /\ RowTypes /\ call \in [Clients -> Call] /\ ClientOK(c)
  BY DEF GitInv
<1>2. call[c].pc \in Committing => RecordHeld(c) /\ call[c].record \in DOMAIN records
  BY <1>1 DEF ClientOK, RecordHeld
<1>3. call[c].record \in DOMAIN records => Mine(c) \in RunCommit
  BY <1>1 DEF RowTypes, Mine
<1>. QED  BY <1>1, <1>2, <1>3 DEF GitInv, ClientOK, StoreTypes, Contents

(* rollback_checkpoint *)
LEMMA RollbackKeepsGitInv ==
    ASSUME GitInv, NEW c \in Clients, Rollback(c)
    PROVE  GitInv'
<1>1. /\ StoreTypes /\ RowTypes /\ call \in [Clients -> Call] /\ call[c] \in Call /\ ClientOK(c)
      /\ edits \in Nat
  BY InvParts
<1>2. ASSUME NEW value \in Call, value.pc \in {"reset", "mark"},
             value.checkpoint \in DOMAIN checkpoints, value.hash = 0, value.known = 0,
             Kept, call' = [call EXCEPT ![c] = value],
             UNCHANGED <<run, holder, checkpoints, records>>
      PROVE  GitInv'
  <2>1. call'[c] = value /\ value.pc \notin Committing
    BY <1>1, <1>2 DEF Committing
  <2>2. ClientOK(c)'
    BY <1>2, <2>1 DEF ClientOK, Kept, StoreTypes, Contents
  <2>. QED  BY <1>2, <2>1, <2>2, CallMoves
<1>8. Idle \in Call /\ Idle.hash = 0 /\ Idle.known = 0 /\ \A k \in DOMAIN checkpoints : k \in Nat
  BY <1>1, GitAssumption DEF RowTypes, Idle, Call, Contents, Other
<1>3. ASSUME NEW k \in DOMAIN checkpoints, NEW force \in BOOLEAN, Plan(c, k, force) PROVE GitInv'
  <2>. DEFINE value == [Idle EXCEPT !.pc = "reset", !.checkpoint = k, !.force = force]
  <2>1. Kept
    BY <1>1, <1>3, NothingKept DEF Plan
  <2>2. /\ value \in Call /\ value.pc = "reset" /\ value.checkpoint = k
        /\ value.hash = 0 /\ value.known = 0
    BY <1>8 DEF Call, Other
  <2>3. call' = [call EXCEPT ![c] = value] /\ UNCHANGED <<run, holder, checkpoints, records>>
    BY <1>3 DEF Plan, Become
  <2>. HIDE DEF value
  <2>. QED  BY <1>2, <2>1, <2>2, <2>3
<1>4. ASSUME call[c].pc = "reset" PROVE call[c].checkpoint \in DOMAIN checkpoints /\ Target(c) \in DOMAIN commits
  <2>1. call[c].checkpoint \in DOMAIN checkpoints
    BY <1>1, <1>4 DEF ClientOK
  <2>2. checkpoints[call[c].checkpoint] \in RunCheckpoint
    BY <1>1, <2>1 DEF RowTypes
  <2>. QED  BY <2>1, <2>2 DEF RunCheckpoint, Target
<1>5. CASE Reset(c)
  <2>1. call[c].pc = "reset" /\ UNCHANGED <<run, holder, checkpoints, records>>
    BY <1>5 DEF Reset, At
  <2>2. Kept
    BY <1>1, <1>4, <1>5, <2>1, ResetKept DEF Reset
  <2>. DEFINE value == [Idle EXCEPT !.pc = "mark", !.checkpoint = call[c].checkpoint, !.ok = TRUE]
  <2>3. /\ value \in Call /\ value.pc = "mark" /\ value.checkpoint = call[c].checkpoint
        /\ value.hash = 0 /\ value.known = 0
    BY <1>1, <1>4, <2>1, <1>8 DEF Call, Other
  <2>4. call' = [call EXCEPT ![c] = value]
    BY <1>5 DEF Reset, Become
  <2>. HIDE DEF value
  <2>. QED  BY <1>2, <1>4, <2>1, <2>2, <2>3, <2>4
<1>6. CASE ResetFails(c)
  <2>1. call[c].pc = "reset" /\ UNCHANGED <<run, holder, checkpoints, records>>
    BY <1>6 DEF ResetFails, At
  <2>2. Kept
    <3>1. CASE ResetHard(Target(c)) /\ cut' = cut \cup (History(head) \ History(Target(c)))
      BY <1>1, <1>4, <2>1, <3>1, ResetKept
    <3>2. ASSUME NEW files \in SUBSET File,
                 work' = [f \in File |-> IF f \in files THEN AfterReset(Target(c))[f] ELSE work[f]],
                 UNCHANGED <<index, commits, head, edits, cut>>
          PROVE  Kept
      BY <1>1, <1>4, <2>1, <3>2, TornResetKept
    <3>. QED  BY <1>6, <3>1, <3>2 DEF ResetFails
  <2>. DEFINE value == [Idle EXCEPT !.pc = "mark", !.checkpoint = call[c].checkpoint]
  <2>3. /\ value \in Call /\ value.pc = "mark" /\ value.checkpoint = call[c].checkpoint
        /\ value.hash = 0 /\ value.known = 0
    BY <1>1, <1>4, <2>1, <1>8 DEF Call, Other
  <2>4. call' = [call EXCEPT ![c] = value]
    BY <1>6 DEF ResetFails, Become
  <2>. HIDE DEF value
  <2>. QED  BY <1>2, <1>4, <2>1, <2>2, <2>3, <2>4
<1>7. CASE MarkCheckpoint(c)
  <2>. DEFINE k == call[c].checkpoint
              status == IF call[c].ok THEN "RESTORED" ELSE "FAILED"
  <2>1. /\ call[c].pc = "mark"
        /\ checkpoints' = [checkpoints EXCEPT ![k].status = status]
        /\ call' = [call EXCEPT ![c] = Idle]
        /\ UNCHANGED <<gitVars, run, holder, records, cut>>
    BY <1>7 DEF MarkCheckpoint, At, Become
  <2>2. k \in DOMAIN checkpoints /\ status \in {"RESTORED", "FAILED"}
    BY <1>1, <2>1 DEF ClientOK
  <2>. HIDE DEF k, status
  <2>3. Kept /\ RunTypes'
    BY <1>1, <2>1, NothingKept, RunTypesStay DEF GitInv
  <2>4. checkpoints \in Seq(RunCheckpoint)' /\ records \in Seq(RunCommit)'
    BY <1>1, <2>3, RowKinds
  <2>5. [checkpoints[k] EXCEPT !.status = status] \in RunCheckpoint'
    <3>1. checkpoints[k] \in RunCheckpoint'
      BY <2>2, <2>4
    <3>. QED  BY <2>2, <3>1 DEF RunCheckpoint
  <2>6. RowTypes' /\ DOMAIN checkpoints' = DOMAIN checkpoints
    BY <2>1, <2>2, <2>4, <2>5 DEF RowTypes
  <2>7. /\ call' \in [Clients -> Call] /\ call'[c] = Idle /\ ClientOK(c)'
        /\ \A d \in Clients \ {c} : call'[d] = call[d]
    BY <1>1, <2>1, <2>3, IdleIsFine
  <2>8. OwnRecords'
    BY <2>3, <2>7, IdleIsFine DEF GitInv, OwnRecords, Committing
  <2>. QED  BY <2>1, <2>3, <2>6, <2>7, <2>8, Beside
<1>. QED  BY <1>3, <1>5, <1>6, <1>7 DEF Rollback

(* commit_run_changes: what the review saw of the run, and of the files.     *)
LEMMA ReviewRunKeepsGitInv ==
    ASSUME GitInv, NEW c \in Clients, NEW r \in Runs, NEW allowFailed \in BOOLEAN,
           ReviewRun(c, r, allowFailed)
    PROVE  GitInv'
<1>. DEFINE value == [Idle EXCEPT !.pc = "files", !.run = r]
<1>1. /\ call' = [call EXCEPT ![c] = value]
      /\ UNCHANGED <<gitVars, run, holder, checkpoints, records, cut>>
  BY DEF ReviewRun, Become
<1>2. StoreTypes /\ call \in [Clients -> Call]
  BY InvParts
<1>3. Idle \in Call /\ r \in 0..NumRuns
  BY GitAssumption DEF Idle, Call, Contents, Other, Runs
<1>4. value \in Call
  BY <1>3 DEF Call, Other
<1>5. value.pc = "files" /\ value.run = r /\ value.known = 0 /\ value.hash = 0
  BY DEF Idle
<1>. HIDE DEF value
<1>6. Kept /\ call'[c] = value /\ value.pc \notin Committing
  BY <1>1, <1>2, <1>5, NothingKept DEF Committing
<1>7. ClientOK(c)'
  BY <1>4, <1>5, <1>6 DEF ClientOK, Kept, StoreTypes, Contents
<1>. QED  BY <1>1, <1>4, <1>6, <1>7, CallMoves

(* What git status shows nothing of is as in the last commit, or hidden.     *)
LEMMA WhatStatusShows ==
    ASSUME StoreTypes, StatusLines \cap SecretLike = {}
    PROVE  CleanOrNew(edits, Hidden)
<1>. SUFFICES ASSUME NEW f \in SecretLike \ Hidden
              PROVE  CommittedOrNew(f, index[f], edits) /\ CommittedOrNew(f, work[f], edits)
  BY DEF CleanOrNew
<1>1. f \notin ChangedFiles
  BY DEF StatusLines
<1>2. index[f] = Content(f, head) /\ work[f] = Content(f, head)
  BY <1>1, GitAssumption DEF ChangedFiles, Changed, HeadTree, Content
<1>. QED  BY <1>2 DEF CommittedOrNew, StoreTypes

LEMMA ReviewFilesKeepsGitInv ==
    ASSUME GitInv, NEW c \in Clients, ReviewFiles(c)
    PROVE  GitInv'
<1>1. call[c].pc = "files" /\ UNCHANGED <<gitVars, run, holder, checkpoints, records, cut>>
  BY DEF ReviewFiles, At
<1>2. /\ StoreTypes /\ call \in [Clients -> Call] /\ call[c] \in Call /\ ClientOK(c)
      /\ edits \in Nat
  BY InvParts
<1>3. Kept
  BY <1>1, <1>2, NothingKept
<1>4. CASE call' = [call EXCEPT ![c] = Idle]
  <2>1. call'[c] = Idle
    BY <1>2, <1>4
  <2>2. Idle \in Call /\ Idle.pc \notin Committing /\ ClientOK(c)'
    BY <1>3, <2>1, IdleIsFine DEF Committing
  <2>. QED  BY <1>1, <1>3, <1>4, <2>2, CallMoves
<1>5. ASSUME Ready(StatusLines), NEW lines, lines = StatusLines, NEW hidden, hidden = Hidden,
             call' = [call EXCEPT ![c] = [call[c] EXCEPT !.pc = "lock", !.lines = lines,
                                                         !.known = edits, !.hidden = hidden]]
      PROVE  GitInv'
  <2>. DEFINE value == [call[c] EXCEPT !.pc = "lock", !.lines = lines, !.known = edits, !.hidden = hidden]
  <2>1. lines \in SUBSET Line /\ hidden \in SUBSET File /\ edits \in Contents
    BY <1>2, <1>5, GitAssumption DEF StatusLines, Hidden, ChangedFiles, Line, StoreTypes
  <2>2. value \in Call
    BY <1>2, <2>1 DEF Call, Other
  <2>3. value.pc = "lock" /\ value.run = call[c].run /\ value.known = edits /\ value.hidden = hidden
        /\ value.hash = call[c].hash
    BY <1>2 DEF Call
  <2>. HIDE DEF value
  <2>4. call' = [call EXCEPT ![c] = value]
    BY <1>5 DEF value
  <2>5. call'[c] = value /\ value.pc \notin Committing
    BY <1>2, <2>3, <2>4 DEF Committing
  <2>6. CleanOrNew(edits, hidden)'
    <3>1. StatusLines \cap SecretLike = {}
      BY <1>5 DEF Ready
    <3>2. CleanOrNew(edits, hidden)
      BY <1>2, <1>5, <3>1, WhatStatusShows
    <3>3. PICK k \in 0..edits : k = edits
      BY <1>2
    <3>4. CleanOrNew(k, hidden)'
      BY <1>3, <2>1, <3>2, <3>3 DEF Kept
    <3>5. edits' = k
      BY <1>1, <3>3 DEF gitVars
    <3>. QED  BY <3>4, <3>5 DEF CleanOrNew, CommittedOrNew
  <2>7. call'[c].hash <= Len(commits') /\ call'[c].known <= edits'
    BY <1>1, <1>2, <2>3, <2>5 DEF ClientOK, gitVars
  <2>8. CleanOrNew(call[c].known, call[c].hidden)'
    BY <1>1, <2>3, <2>5, <2>6 DEF CleanOrNew, CommittedOrNew, gitVars
  <2>9. call'[c].run \in Runs
    BY <1>1, <1>2, <2>3, <2>5 DEF ClientOK
  <2>10. ClientOK(c)'
    BY <2>2, <2>3, <2>5, <2>7, <2>8, <2>9 DEF ClientOK
  <2>. QED  BY <1>1, <1>3, <2>2, <2>4, <2>5, <2>10, CallMoves
<1>. QED  BY <1>4, <1>5 DEF ReviewFiles, Become

(* The review passes a record on, or ends the call. *)
LEMMA ReviewLockKeepsGitInv ==
    ASSUME GitInv, NEW c \in Clients, NEW wanted \in SUBSET Line, ReviewLock(c, wanted)
    PROVE  GitInv'
<1>1. call[c].pc = "lock" /\ UNCHANGED <<gitVars, run, holder, checkpoints, cut>>
  BY DEF ReviewLock, At
<1>2. /\ StoreTypes /\ RowTypes /\ call \in [Clients -> Call] /\ call[c] \in Call /\ ClientOK(c)
      /\ records \in Seq(RunCommit) /\ edits \in Nat
  BY InvParts DEF RowTypes
<1>3. Kept
  BY <1>1, <1>2, NothingKept
<1>4. CASE call' = [call EXCEPT ![c] = Idle] /\ UNCHANGED records
  <2>1. call'[c] = Idle
    BY <1>2, <1>4
  <2>2. Idle \in Call /\ Idle.pc \notin Committing /\ ClientOK(c)'
    BY <1>3, <2>1, IdleIsFine DEF Committing
  <2>. QED  BY <1>1, <1>3, <1>4, <2>2, CallMoves
<1>5. CASE /\ records' = Append(records, [run |-> call[c].run, status |-> "PROPOSED",
                  lines |-> Selected(call[c].lines, wanted),
                  hash |-> 0, known |-> call[c].known, hidden |-> call[c].hidden, made |-> 0])
           /\ call' = [call EXCEPT ![c] = [Idle EXCEPT !.pc = "add", !.record = Len(records) + 1]]
  <2>. DEFINE row == [run |-> call[c].run, status |-> "PROPOSED",
                      lines |-> Selected(call[c].lines, wanted),
                      hash |-> 0, known |-> call[c].known, hidden |-> call[c].hidden, made |-> 0]
              value == [Idle EXCEPT !.pc = "add", !.record = Len(records) + 1]
  <2>1. /\ call[c].run \in Runs /\ call[c].known \in Contents /\ call[c].known <= edits
        /\ call[c].lines \in SUBSET Line /\ call[c].hidden \in SUBSET File
    BY <1>1, <1>2 DEF ClientOK, Call
  <2>2. CleanOrNew(call[c].known, call[c].hidden)
    BY <1>1, <1>2 DEF ClientOK
  <2>3. row \in RunCommit
    <3>1. Selected(call[c].lines, wanted) \in SUBSET Line /\ 0 \in 0..Len(commits)
      BY <1>2, <2>1 DEF Selected, StoreTypes
    <3>. QED  BY <2>1, <3>1 DEF RunCommit
  <2>4. /\ row.status = "PROPOSED" /\ row.made = 0 /\ row.known = call[c].known
        /\ row.hidden = call[c].hidden
    OBVIOUS
  <2>5. Idle \in Call /\ Len(records) + 1 \in Nat
    BY <1>2, GitAssumption DEF Idle, Call, Contents, Other
  <2>6. /\ value \in Call /\ value.pc = "add" /\ value.record = Len(records) + 1
        /\ value.hash = 0 /\ value.known = 0
    <3>1. value \in Call
      BY <2>5 DEF Call, Committing
    <3>. QED  BY <3>1 DEF Idle
  <2>7. records' = Append(records, row) /\ call' = [call EXCEPT ![c] = value]
    BY <1>5
  <2>. HIDE DEF row, value
  <2>8. /\ call' \in [Clients -> Call] /\ call'[c] = value
        /\ \A d \in Clients \ {c} : call'[d] = call[d]
    BY <1>2, <2>6, <2>7
  <2>9. Mine(c)' = row /\ Len(records) + 1 \in DOMAIN records'
    BY <1>2, <2>6, <2>7, <2>8 DEF Mine
  <2>10. CleanOrNew(Mine(c).known, Mine(c).hidden)'
    <3>1. PICK k \in 0..edits, hidden \in SUBSET File : k = call[c].known /\ hidden = call[c].hidden
      BY <1>2, <2>1 DEF Contents
    <3>2. CleanOrNew(k, hidden)'
      BY <1>3, <2>2, <3>1 DEF Kept
    <3>3. Mine(c)'.known = k /\ Mine(c)'.hidden = hidden
      BY <2>4, <2>9, <3>1
    <3>. QED  BY <3>2, <3>3 DEF CleanOrNew, CommittedOrNew
  <2>11. RecordHeld(c)'
    BY <2>4, <2>6, <2>8, <2>9, <2>10 DEF RecordHeld
  <2>12. call'[c].known <= edits' /\ call'[c].hash <= Len(commits')
    BY <1>1, <1>2, <2>6, <2>8 DEF StoreTypes, Contents, gitVars
  <2>13. ClientOK(c)'
    BY <2>6, <2>8, <2>11, <2>12 DEF ClientOK
  <2>. QED  BY <1>1, <1>3, <2>1, <2>3, <2>4, <2>6, <2>7, <2>8, <2>13, RecordInserted
<1>. QED  BY <1>4, <1>5 DEF ReviewLock, Become

LEMMA ProposeKeepsGitInv ==
    ASSUME GitInv, NEW r \in Runs, Propose(r)
    PROVE  GitInv'
<1>. DEFINE row == [run |-> r, status |-> "PROPOSED", lines |-> {}, hash |-> 0, known |-> 0,
                    hidden |-> {}, made |-> 0]
<1>1. records' = Append(records, row) /\ UNCHANGED <<gitVars, run, holder, checkpoints, call, cut>>
  BY DEF Propose
<1>2. StoreTypes /\ call \in [Clients -> Call] /\ edits \in Nat /\ Len(commits) \in Nat
  BY DEF GitInv, StoreTypes, Contents
<1>3. Kept
  BY <1>1, <1>2, NothingKept
<1>4. row \in RunCommit /\ row.status = "PROPOSED" /\ row.made = 0 /\ row.known <= edits
  <2>1. 0 \in Contents /\ 0 \in 0..Len(commits) /\ {} \in SUBSET File /\ {} \in SUBSET Line
    BY <1>2, GitAssumption DEF Contents
  <2>. QED  BY <1>2, <2>1 DEF RunCommit
<1>. HIDE DEF row
<1>. QED  BY <1>1, <1>2, <1>3, <1>4, RecordInserted

(* The record goes on to the next step of its commit, beside git. *)
LEMMA HeldGoesOn ==
    ASSUME GitInv, Kept, NEW c \in Clients, NEW pc \in {"staged", "commit", "fail"},
           call[c].pc \in {"add", "staged", "commit"}, Goto(c, pc),
           UNCHANGED <<run, holder, checkpoints, records>>
    PROVE  GitInv'
<1>1. call \in [Clients -> Call] /\ call[c].pc \in Committing /\ pc \in Committing
  BY InvParts DEF Committing
<1>2. PICK value \in Call : /\ call' = [call EXCEPT ![c] = value]
                            /\ value.pc = pc /\ value.record = call[c].record
                            /\ value.hash = call[c].hash /\ value.known = call[c].known
  BY <1>1, GoesTo
<1>3. call'[c] = value /\ Mine(c)' = Mine(c)
  BY <1>1, <1>2 DEF Mine
<1>4. /\ RecordHeld(c) /\ Mine(c) \in RunCommit /\ RecordOK(call[c].record)
      /\ call[c].hash <= Len(commits) /\ call[c].known <= edits
  BY <1>1, InvParts
<1>5. CleanOrNew(Mine(c).known, Mine(c).hidden)'
  <2>1. PICK k \in 0..edits, hidden \in SUBSET File : k = Mine(c).known /\ hidden = Mine(c).hidden
    <3>1. Mine(c).known \in Contents /\ Mine(c).hidden \in SUBSET File
      BY <1>4 DEF RunCommit
    <3>2. Mine(c).known \in 0..edits
      BY <1>4, <3>1 DEF RecordOK, Mine, Contents, Kept, StoreTypes
    <3>. QED  BY <3>1, <3>2
  <2>2. call[c].pc \in {"add", "staged", "commit"} => CleanOrNew(k, hidden)
    BY <1>4, <2>1 DEF RecordHeld
  <2>3. CleanOrNew(k, hidden)'
    BY <2>2 DEF Kept
  <2>. QED  BY <1>3, <2>1, <2>3 DEF CleanOrNew, CommittedOrNew
<1>6. RecordHeld(c)'
  BY <1>2, <1>3, <1>4, <1>5 DEF RecordHeld
<1>7. value.hash <= Len(commits') /\ value.known <= edits'
  BY <1>2, <1>4 DEF Call, Contents, Kept, StoreTypes
<1>8. ClientOK(c)'
  BY <1>2, <1>3, <1>6, <1>7 DEF ClientOK
<1>. QED  BY <1>1, <1>2, <1>8, CallMoves

LEMMA StagingKeepsGitInv ==
    ASSUME GitInv, NEW c \in Clients,
           AddFiles(c) \/ AddFails(c) \/ CheckStaged(c) \/ (CommitFails(c) /\ UNCHANGED <<gitVars, records>>)
    PROVE  GitInv'
<1>1. /\ call[c].pc \in {"add", "staged", "commit"}
      /\ UNCHANGED <<run, holder, checkpoints, records, cut>>
  BY DEF AddFiles, AddFails, CheckStaged, CommitFails, At
<1>2. StoreTypes /\ Mine(c) \in RunCommit
  BY <1>1, InvParts DEF Committing
<1>3. Mine(c).lines \in SUBSET Line
  BY <1>2 DEF RunCommit
<1>4. Add(Mine(c).lines) \/ UNCHANGED gitVars
  BY DEF AddFiles, AddFails, CheckStaged, CommitFails
<1>5. Kept
  BY <1>1, <1>2, <1>3, <1>4, AddKept, NothingKept
<1>6. Goto(c, "staged") \/ Goto(c, "commit") \/ Goto(c, "fail")
  BY DEF AddFiles, AddFails, CheckStaged, CommitFails
<1>. QED  BY <1>1, <1>5, <1>6, HeldGoesOn

(* git commit takes the whole index: what of a secret is in it was committed  *)
(* before, is new, or was hidden.  The exit code is looked at or lost.        *)
LEMMA CommitKeepsGitInv ==
    ASSUME GitInv, NEW c \in Clients, NEW pc \in {"hash", "fail"}, call[c].pc = "commit",
           Commits(c), Goto(c, pc), UNCHANGED <<run, holder, checkpoints, cut>>
    PROVE  GitInv'
<1>1. /\ CommitIndex
      /\ records' = [records EXCEPT ![call[c].record].made = Len(commits) + 1]
  BY DEF Commits
<1>2. /\ StoreTypes /\ RowTypes /\ call \in [Clients -> Call] /\ call[c].pc \in Committing
      /\ RecordHeld(c) /\ Mine(c) \in RunCommit /\ RecordOK(call[c].record)
      /\ call[c].hash <= Len(commits) /\ call[c].known <= edits
      /\ Len(commits) \in Nat /\ head \in 1..Len(commits)
  BY InvParts DEF Committing, StoreTypes
<1>3. /\ Kept /\ head' = Len(commits) + 1 /\ head' \in DOMAIN commits'
      /\ commits'[head'] = [parent |-> head, tree |-> index]
      /\ UNCHANGED edits
  BY <1>1, <1>2, CommitKept DEF CommitIndex
<1>4. PICK held \in DOMAIN records : held = call[c].record
  BY <1>2 DEF RecordHeld
<1>. DEFINE row == [Mine(c) EXCEPT !.made = Len(commits) + 1]
<1>5. /\ row \in RunCommit' /\ row.made = head' /\ row.status = "PROPOSED"
      /\ row.known = Mine(c).known /\ row.hidden = Mine(c).hidden
  <2>1. Mine(c) \in RunCommit'
    BY <1>2, <1>3, RowKinds
  <2>2. head' \in 0..Len(commits')
    BY <1>3 DEF Kept, StoreTypes
  <2>. QED  BY <1>2, <1>3, <2>1, <2>2 DEF RunCommit, RecordHeld
<1>6. records' = [records EXCEPT ![held] = row] /\ records'[held] = row
  BY <1>1, <1>2, <1>4 DEF Mine, RowTypes
<1>. HIDE DEF row
<1>7. PICK value \in Call : /\ call' = [call EXCEPT ![c] = value]
                            /\ value.pc = pc /\ value.record = call[c].record
                            /\ value.hash = call[c].hash /\ value.known = call[c].known
  BY <1>1, <1>2, GoesTo DEF Committing
<1>8. call'[c] = value /\ Mine(c)' = row
  BY <1>2, <1>4, <1>6, <1>7 DEF Mine
<1>9. RecordOK(held)'
  <2>1. /\ commits'[head'].tree = index
        /\ \A i \in DOMAIN commits : commits'[i] = commits[i]
        /\ DOMAIN commits = 1..(head' - 1)
    BY <1>2, <1>3 DEF Kept, StoreTypes
  <2>2. PICK kept : kept = row
    OBVIOUS
  <2>3. ASSUME NEW f \in SecretLike \ kept.hidden
        PROVE  index[f] > kept.known \/ \E i \in DOMAIN commits : Content(f, i) = index[f]
    <3>1. CleanOrNew(kept.known, kept.hidden)
      BY <1>2, <1>5, <2>2 DEF RecordHeld
    <3>. QED  BY <2>3, <3>1 DEF CleanOrNew, CommittedOrNew
  <2>4. ASSUME NEW f \in SecretLike \ kept.hidden
        PROVE  (CommittedBefore(f, kept.made) \/ Content(f, kept.made) > kept.known)'
    <3>1. kept.made = head'
      BY <1>5, <2>2
    <3>2. CASE index[f] > kept.known
      BY <2>1, <3>1, <3>2 DEF Content
    <3>3. CASE \E i \in DOMAIN commits : Content(f, i) = index[f]
      BY <2>1, <3>1, <3>3 DEF CommittedBefore, Content
    <3>. QED  BY <2>3, <2>4, <3>2, <3>3
  <2>5. row.known <= edits'
    BY <1>2, <1>3, <1>4, <1>5 DEF RecordOK, Mine
  <2>. QED  BY <1>5, <1>6, <2>2, <2>4, <2>5 DEF RecordOK, CommittedBefore, Content
<1>10. RecordHeld(c)'
  <2>1. head' \in History(head)'
    BY <1>3, HeadIsReached DEF Kept, StoreTypes, History
  <2>2. row.made # 0
    BY <1>2, <1>3, <1>5
  <2>. QED  BY <1>2, <1>4, <1>5, <1>6, <1>7, <1>8, <2>1, <2>2 DEF RecordHeld, RowTypes
<1>11. ClientOK(c)'
  <2>1. value.hash <= Len(commits') /\ value.known <= edits'
    BY <1>2, <1>3, <1>7 DEF Call, Contents, Kept, StoreTypes
  <2>. QED  BY <1>7, <1>8, <1>10, <2>1 DEF ClientOK
<1>12. value.pc \in Committing => value.record = held
  BY <1>4, <1>7
<1>. QED  BY <1>2, <1>3, <1>4, <1>5, <1>6, <1>7, <1>9, <1>11, <1>12, RecordMoves

(* The hash is the branch's: the commit is in its history, or was cut off.   *)
LEMMA ReadHashKeepsGitInv ==
    ASSUME GitInv, NEW c \in Clients, ReadHash(c)
    PROVE  GitInv'
<1>1. /\ call[c].pc = "hash"
      /\ UNCHANGED <<gitVars, run, holder, checkpoints, records, cut>>
  BY DEF ReadHash, At
<1>2. PICK h \in {head, 0} : call' = [call EXCEPT ![c] = [call[c] EXCEPT !.pc = "committed", !.hash = h]]
  BY DEF ReadHash, Become
<1>. DEFINE value == [call[c] EXCEPT !.pc = "committed", !.hash = h]
<1>3. /\ StoreTypes /\ call \in [Clients -> Call] /\ call[c] \in Call /\ call[c].pc \in Committing
      /\ RecordHeld(c) /\ call[c].known <= edits
      /\ h \in Nat /\ h <= Len(commits)
  BY <1>1, InvParts DEF Committing, StoreTypes
<1>4. /\ value \in Call /\ value.pc = "committed" /\ value.record = call[c].record
      /\ value.hash = h /\ value.known = call[c].known
  BY <1>3 DEF Call, Committing
<1>5. call' = [call EXCEPT ![c] = value]
  BY <1>2
<1>. HIDE DEF value
<1>6. Kept
  BY <1>1, <1>3, NothingKept
<1>7. call'[c] = value /\ Mine(c)' = Mine(c)
  BY <1>1, <1>3, <1>4, <1>5 DEF Mine
<1>8. call'[c].hash = 0 \/ Mine(c).made \in (History(call[c].hash) \cup cut)'
  <2>1. History(h)' = History(h)
    BY <1>1 DEF gitVars, History, Hereditary
  <2>2. call'[c].hash = h
    BY <1>4, <1>7
  <2>3. h = 0 \/ Mine(c).made \in History(h) \cup cut
    BY <1>1, <1>2, <1>3 DEF RecordHeld
  <2>. QED  BY <1>1, <2>1, <2>2, <2>3 DEF History
<1>9. RecordHeld(c)'
  BY <1>1, <1>3, <1>4, <1>7, <1>8 DEF RecordHeld
<1>10. ClientOK(c)'
  BY <1>1, <1>3, <1>4, <1>7, <1>9 DEF ClientOK, gitVars
<1>. QED  BY <1>1, <1>3, <1>4, <1>5, <1>6, <1>10, CallMoves

(* The record is marked with what became of it. *)
LEMMA MarkRecordKeepsGitInv ==
    ASSUME GitInv, NEW c \in Clients, MarkCommitted(c) \/ MarkFailed(c)
    PROVE  GitInv'
<1>1. /\ call[c].pc \in {"committed", "fail"}
      /\ call' = [call EXCEPT ![c] = Idle]
      /\ UNCHANGED <<gitVars, run, holder, checkpoints, cut>>
  BY DEF MarkCommitted, MarkFailed, At, Become
<1>2. /\ StoreTypes /\ RowTypes /\ call \in [Clients -> Call] /\ call[c] \in Call
      /\ call[c].pc \in Committing /\ call[c].hash \in 0..Len(commits)
      /\ RecordHeld(c) /\ Mine(c) \in RunCommit /\ RecordOK(call[c].record)
  BY <1>1, InvParts DEF Committing, Call
<1>3. Kept
  BY <1>1, <1>2, NothingKept
<1>4. PICK held \in DOMAIN records : held = call[c].record
  BY <1>2 DEF RecordHeld
<1>5. call'[c] = Idle /\ Idle \in Call /\ Idle.pc \notin Committing /\ ClientOK(c)'
  BY <1>1, <1>2, <1>3, IdleIsFine DEF Committing
<1>6. Mine(c) \in RunCommit' /\ Mine(c) = records[held]
  BY <1>2, <1>3, <1>4, RowKinds DEF Mine
<1>7. UNCHANGED <<commits, edits, cut>>
  BY <1>1 DEF gitVars
<1>8. ASSUME NEW f, NEW made, NEW known
      PROVE  /\ CommittedBefore(f, made)' <=> CommittedBefore(f, made)
             /\ (Content(f, made) > known)' <=> Content(f, made) > known
  BY <1>7 DEF CommittedBefore, Content
<1>9. ASSUME NEW row, row = records'[held],
             row.made = Mine(c).made, row.known = Mine(c).known, row.hidden = Mine(c).hidden,
             row.status = "COMMITTED" =>
                 row.made # 0 /\ (row.hash = 0 \/ row.made \in (History(row.hash) \cup cut)')
      PROVE  RecordOK(held)'
  <2>1. row.known <= edits'
    BY <1>2, <1>4, <1>6, <1>7, <1>9 DEF RecordOK
  <2>2. ASSUME row.made # 0, NEW f \in SecretLike \ row.hidden
        PROVE  CommittedBefore(f, row.made) \/ Content(f, row.made) > row.known
    BY <1>2, <1>4, <1>6, <1>9, <2>2 DEF RecordOK
  <2>. QED  BY <1>7, <1>9, <2>1, <2>2 DEF RecordOK, CommittedBefore, Content, History, Hereditary
<1>10. CASE MarkCommitted(c)
  <2>. DEFINE row == [Mine(c) EXCEPT !.status = "COMMITTED", !.hash = call[c].hash]
  <2>1. records' = [records EXCEPT ![held] = row]
    BY <1>4, <1>6, <1>10 DEF MarkCommitted
  <2>2. /\ row \in RunCommit' /\ row.made = Mine(c).made /\ row.status = "COMMITTED"
        /\ row.known = Mine(c).known /\ row.hash = call[c].hash /\ row.hidden = Mine(c).hidden
    BY <1>2, <1>6, <1>7 DEF RunCommit
  <2>. HIDE DEF row
  <2>3. records'[held] = row
    BY <2>1
  <2>4. row.made # 0 /\ (row.hash = 0 \/ row.made \in History(call[c].hash) \cup cut)
    BY <1>2, <1>10, <2>2 DEF MarkCommitted, At, RecordHeld
  <2>5. PICK kept : kept = row
    OBVIOUS
  <2>6. kept.hash = 0 \/ kept.made \in (History(kept.hash) \cup cut)'
    <3>1. History(kept.hash)' = History(kept.hash)
      BY <1>7 DEF History, Hereditary
    <3>. QED  BY <1>7, <2>2, <2>4, <2>5, <3>1
  <2>7. RecordOK(held)'
    BY <1>9, <2>2, <2>3, <2>4, <2>5, <2>6
  <2>. QED  BY <1>1, <1>2, <1>3, <1>4, <1>5, <2>1, <2>2, <2>7, RecordMoves
<1>11. CASE MarkFailed(c)
  <2>. DEFINE row == [Mine(c) EXCEPT !.status = "FAILED"]
  <2>1. records' = [records EXCEPT ![held] = row]
    BY <1>4, <1>6, <1>11 DEF MarkFailed
  <2>2. /\ row \in RunCommit' /\ row.made = Mine(c).made /\ row.status = "FAILED"
        /\ row.known = Mine(c).known /\ row.hidden = Mine(c).hidden
    BY <1>6 DEF RunCommit
  <2>. HIDE DEF row
  <2>3. records'[held] = row
    BY <2>1
  <2>4. RecordOK(held)'
    BY <1>9, <2>2, <2>3
  <2>. QED  BY <1>1, <1>2, <1>3, <1>4, <1>5, <2>1, <2>2, <2>4, RecordMoves
<1>. QED  BY <1>10, <1>11

--------------------------------------------------------------------------------
LEMMA InitGitInv == Init => GitInv
<1>. SUFFICES ASSUME Init PROVE GitInv
  OBVIOUS
<1>1. Empty \in Tree /\ 0 \in Contents
  BY GitAssumption DEF Empty, Tree, Contents
<1>2. StoreTypes
  <2>. DEFINE first == [parent |-> 0, tree |-> Empty]
  <2>1. first \in Object /\ first.parent = 0
    BY <1>1 DEF Object
  <2>2. commits = <<first>>
    BY DEF Init
  <2>. HIDE DEF first
  <2>3. commits \in Seq(Object) /\ Len(commits) = 1 /\ commits[1] = first
    BY <2>1, <2>2
  <2>. QED  BY <1>1, <2>1, <2>3 DEF Init, StoreTypes
<1>3. RunTypes
  BY GitAssumption DEF Init, RunTypes, RunCall
<1>4. RowTypes /\ DOMAIN checkpoints = {} /\ DOMAIN records = {}
  BY DEF Init, RowTypes
<1>5. \A c \in Clients : call[c] = Idle
  BY DEF Init
<1>6. /\ Idle \in Call /\ Idle.pc = "idle" /\ Idle.hash = 0 /\ Idle.known = 0
      /\ call \in [Clients -> Call]
  BY GitAssumption DEF Init, Idle, Call, Contents, Other
<1>7. OwnRecords /\ \A c \in Clients : ClientOK(c)
  BY <1>2, <1>5, <1>6 DEF OwnRecords, ClientOK, Committing, StoreTypes, Contents
<1>. QED  BY <1>2, <1>3, <1>4, <1>6, <1>7 DEF GitInv

LEMMA NextKeepsGitInv == GitInv /\ [Next]_vars => GitInv'
<1>. SUFFICES ASSUME GitInv, [Next]_vars PROVE GitInv'
  OBVIOUS
<1>1. CASE UNCHANGED vars
  <2>1. Kept
    BY <1>1, NothingKept DEF GitInv, vars, gitVars
  <2>. QED  BY <1>1, <2>1, RunTypesStay, RunOrUserMoves DEF GitInv, vars
<1>2. ASSUME NEW c \in Clients, CommitFails(c) PROVE GitInv'
  <2>1. call[c].pc = "commit" /\ Goto(c, "fail") /\ UNCHANGED <<run, holder, checkpoints, cut>>
    BY <1>2 DEF CommitFails, At
  <2>. QED  BY <1>2, <2>1, CommitKeepsGitInv, StagingKeepsGitInv DEF CommitFails
<1>3. ASSUME NEW c \in Clients, Commit(c) PROVE GitInv'
  BY <1>3, CommitKeepsGitInv DEF Commit, At
<1>4. ASSUME NEW c \in Clients, CommitChanges(c) PROVE GitInv'
  BY <1>2, <1>3, <1>4, ReviewRunKeepsGitInv, ReviewFilesKeepsGitInv, ReviewLockKeepsGitInv,
     StagingKeepsGitInv, ReadHashKeepsGitInv, MarkRecordKeepsGitInv DEF CommitChanges
<1>5. Committers \subseteq Clients /\ Rollers \subseteq Clients
  BY DEF Clients
<1>. QED  BY <1>1, <1>4, <1>5, UserKeepsGitInv, RunStepKeepsGitInv, ProposeKeepsGitInv, RollbackKeepsGitInv DEF Next

(* Runs, rollbacks, commits and the user keep GitInv.                        *)
THEOREM GitInvariance == Spec => []GitInv
BY InitGitInv, NextKeepsGitInv, PTL DEF Spec

(* Every variable holds a value of its kind; the branch and every checkpoint *)
(* are at commits that exist.                                                *)
THEOREM GitTypes == Spec => []GitTypeOK
<1>1. GitInv => GitTypeOK
  <2>. SUFFICES ASSUME GitInv PROVE GitTypeOK
    OBVIOUS
  <2>1. StoreTypes /\ RunTypes /\ RowTypes
    BY DEF GitInv
  <2>2. \A i \in DOMAIN commits : commits[i].parent \in 0..(i - 1) /\ commits[i].tree \in Tree
    <3>1. \A i \in DOMAIN commits : commits[i] \in Object
      BY <2>1 DEF StoreTypes
    <3>. QED  BY <2>1, <3>1 DEF StoreTypes, Object
  <2>. QED  BY <2>1, <2>2 DEF GitTypeOK, StoreTypes, RunTypes, RowTypes
<1>. QED  BY <1>1, GitInvariance, PTL

(* What a record says of its commit is so, however users, runs and rollbacks *)
(* move the branch between the git commands of commit_run_changes, and       *)
(* whichever of them fails or is killed.                                    *)
THEOREM CommitRecordsAreTrue == Spec => []RecordsAreTrue
<1>1. GitInv => RecordsAreTrue
  BY DEF GitInv, RecordsAreTrue, RecordOK
<1>. QED  BY <1>1, GitInvariance, PTL

(* No secret-like content that was there for the review is committed for the  *)
(* first time, although git commits whatever is staged by then: unless it     *)
(* was untracked in a folder that git status showed as one line.             *)
THEOREM ReviewedSecretsStayOut == Spec => []SecretsStayOut
<1>1. GitInv => SecretsStayOut
  BY DEF GitInv, SecretsStayOut, RecordOK
<1>. QED  BY <1>1, GitInvariance, PTL
================================================================================
