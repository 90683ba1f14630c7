---------------------------- MODULE SessionTree ----------------------------
(***************************************************************************)
(* Sessions on disk: packages/coding-agent/src/core/session-manager.ts,    *)
(* with the operations of agent-session-runtime.ts and of tree navigation  *)
(* that replace or move a session.                                         *)
(*                                                                         *)
(* A session is an append-only tree of entries.  A process keeps the       *)
(* entries in memory with a leaf, and one line for each in a file, which   *)
(* is made when the first answer arrives.  Entries are numbered in the     *)
(* order of their creation, in memory and in every file, so that a set of  *)
(* numbers stands for a sequence of entries.  Several processes may have   *)
(* one session open; a write may fail or be cut off; a process may die.    *)
(***************************************************************************)
EXTENDS Naturals, FiniteSets

CONSTANTS
  Procs,        \* the processes
  Kinds,        \* the kinds of entries that are appended directly
  Targets,      \* the entries that users put labels on
  MaxEntries,   \* bound: entries made
  MaxSessions,  \* bound: sessions made
  MaxMoves,     \* bound: moves of a leaf, sessions opened, forked and closed
  MaxFaults     \* bound: writes that fail or are cut off

ASSUME BoundsAssumption == {MaxEntries, MaxSessions, MaxMoves, MaxFaults} \subseteq Nat
ASSUME KindsAssumption == Kinds \subseteq {"user", "assistant", "setting"}

Ids      == 1 .. MaxEntries
Sessions == 1 .. MaxSessions
None     == 0

Messages == {"user", "assistant"}        \* entries of type "message"
Content  == Messages \cup {"summary"}    \* what enters a context
AllKinds == Content \cup {"setting", "label", "unlabel", "compaction"}

VARIABLES
  kind, ref,  \* of each entry; ref is a label's target or what a compaction keeps from
  parent,     \* of each entry in each session
  count,      \* entries made so far
  made,       \* sessions made so far
  file,       \* the file of each session
  session,    \* the session each process has open
  mem,        \* fileEntries of each process
  leaf,       \* leafId
  flushed,    \* whether the process takes the file for written
  stored,     \* history: entries whose write returned, for each session
  lost,       \* history: entries whose write failed, or ran into a torn line
  unwritten,  \* history: sessions whose first write has failed
  moves, faults

entryVars   == <<kind, ref, parent, count>>
procVars    == <<session, mem, leaf, flushed>>
historyVars == <<stored, lost, unwritten>>
vars == <<entryVars, made, file, procVars, historyVars, moves, faults>>

\* A file: absent, without a header, or with a header and the entries that can
\* be parsed; torn says that its last line is incomplete.
Files  == [state : {"absent", "invalid", "valid"}, ids : SUBSET Ids, torn : BOOLEAN]
Absent == [state |-> "absent", ids |-> {}, torn |-> FALSE]
Whole(ids) == [state |-> "valid", ids |-> ids, torn |-> FALSE]

\* What a write of several lines leaves when it is cut off.
Partial(ids) ==
  {[state |-> "invalid", ids |-> {}, torn |-> FALSE]}
    \cup {[state |-> "valid", ids |-> {i \in ids : i < k}, torn |-> t] :
            k \in ids, t \in BOOLEAN}

Init ==
  /\ kind = [i \in Ids |-> "setting"] /\ ref = [i \in Ids |-> None]
  /\ parent = [s \in Sessions |-> [i \in Ids |-> None]]
  /\ count = 0 /\ made = 0
  /\ file = [s \in Sessions |-> Absent]
  /\ session = [p \in Procs |-> None]
  /\ mem = [p \in Procs |-> {}]
  /\ leaf = [p \in Procs |-> None]
  /\ flushed = [p \in Procs |-> FALSE]
  /\ stored = [s \in Sessions |-> {}] /\ lost = [s \in Sessions |-> {}]
  /\ unwritten = {}
  /\ moves = 0 /\ faults = 0

-----------------------------------------------------------------------------
(* Reading the tree.                                                       *)

Latest(S) ==
  IF \E i \in S : \A j \in S : j <= i THEN CHOOSE i \in S : \A j \in S : j <= i ELSE None

\* The targets that have a label: the last label entry of a target decides.
Labels(ids) ==
  {t \in ids : \E i \in ids : kind[i] = "label" /\ ref[i] = t
     /\ \A j \in ids : kind[j] \in {"label", "unlabel"} /\ ref[j] = t => j <= i}

\* getBranch(): from an entry up to the root, or to a parent that is missing.
Path(s, ids, l) ==
  LET up[i \in 0 .. MaxEntries] == IF i \in ids THEN {i} \cup up[parent[s][i]] ELSE {}
  IN  {i \in ids : i \in up[l]}

LastCompaction(path) == Latest({i \in path : kind[i] = "compaction"})

\* buildSessionContext(): the entries a model is shown.
Context(s, ids, l) ==
  LET path == Path(s, ids, l)
      c    == LastCompaction(path)
      Kept(i) == i > c \/ (ref[c] \in path /\ ref[c] <= i)
  IN  IF c = None
        THEN {i \in path : kind[i] \in Content}
        ELSE {c} \cup {i \in path : kind[i] \in Content /\ Kept(i)}

\* findCutPoint(): from a message back over the entries that are none.
Barriers == Messages \cup {"compaction"}
ScansBack(path, m, k) ==
  /\ k <= m
  /\ \A i \in path : k <= i /\ i < m => kind[i] \notin Barriers
  /\ \A j \in path : j < k => \E i \in path : j <= i /\ i < m /\ kind[i] \in Barriers

\* prepareCompaction(): the entries it may choose as the first one to keep.
FirstKept(path) ==
  LET c     == LastCompaction(path)
      start == {i \in path : c = None \/ IF ref[c] \in path THEN ref[c] <= i ELSE c < i}
      cuts  == {m \in start : kind[m] \in Content}
  IN  {k \in start : IF cuts = {} THEN \A j \in start : k <= j
                     ELSE \E m \in cuts : ScansBack(start, m, k)}

-----------------------------------------------------------------------------
(* Writing.                                                                *)

HasAssistant(ids) == \E i \in ids : kind[i] = "assistant"

\* appendFileSync(): after a torn line the new one is part of it, and neither
\* can be parsed.
WithLine(f, e) ==
  IF f.torn THEN [f EXCEPT !.torn = FALSE] ELSE [f EXCEPT !.ids = @ \cup {e}]

Fault == faults < MaxFaults /\ faults' = faults + 1

AppendLine(p, s, e) ==
  /\ flushed[p]
  /\ file' = [file EXCEPT ![s] = WithLine(@, e)]
  /\ IF file[s].torn
       THEN lost' = [lost EXCEPT ![s] = @ \cup {e}] /\ UNCHANGED stored
       ELSE stored' = [stored EXCEPT ![s] = @ \cup {e}] /\ UNCHANGED lost
  /\ UNCHANGED <<flushed, unwritten, faults>>

\* The write of a line fails, perhaps in its middle; the process goes on, or it
\* has died (Close).
AppendFails(p, s, e) ==
  /\ flushed[p]
  /\ Fault
  /\ \E t \in BOOLEAN : file' = [file EXCEPT ![s].torn = @ \/ t]
  /\ lost' = [lost EXCEPT ![s] = @ \cup {e}]
  /\ UNCHANGED <<flushed, stored, unwritten>>

\* Without an answer nothing is written.
Deferred(p, answered) ==
  /\ ~ flushed[p] /\ ~ answered
  /\ UNCHANGED <<file, flushed, historyVars, faults>>

\* Bug: the first write has only the entry that caused it.
OnlyLast(ids) == Whole({i \in ids : \A j \in ids : j <= i})
FirstContent(ids) == Whole(ids)

\* The first answer: the file is created, exclusively, with all entries.
CreateFile(p, s, ids, answered) ==
  /\ ~ flushed[p] /\ answered
  /\ file[s].state = "absent"
  /\ file' = [file EXCEPT ![s] = FirstContent(ids)]
  /\ flushed' = [flushed EXCEPT ![p] = TRUE]
  /\ stored' = [stored EXCEPT ![s] = @ \cup ids]
  /\ UNCHANGED <<lost, unwritten, faults>>

\* The creation fails or is cut off, or the file is there: this write throws,
\* and so does every later one when there is a file.
CreateFails(p, s, ids, answered) ==
  /\ ~ flushed[p] /\ answered
  /\ \/ /\ file[s].state # "absent"
        /\ UNCHANGED <<file, faults>>
     \/ /\ file[s].state = "absent"
        /\ Fault
        /\ \E f \in Partial(ids) \cup {Absent} : file' = [file EXCEPT ![s] = f]
  /\ unwritten' = unwritten \cup {s}
  /\ UNCHANGED <<flushed, stored, lost>>

\* _persist() of the new entry e, with all entries of the session.
Persist(p, s, ids, answered, e) ==
  \/ AppendLine(p, s, e) \/ AppendFails(p, s, e)
  \/ Deferred(p, answered)
  \/ CreateFile(p, s, ids, answered) \/ CreateFails(p, s, ids, answered)

\* _appendEntry(): a child of l; memory first, then the file.
AppendEntry(p, k, r, l) ==
  LET s == session[p]
      e == count + 1
      ids == mem[p] \cup {e}
  IN  /\ s # None
      /\ count < MaxEntries
      /\ count' = e
      /\ kind' = [kind EXCEPT ![e] = k]
      /\ ref' = [ref EXCEPT ![e] = r]
      /\ parent' = [parent EXCEPT ![s][e] = l]
      /\ mem' = [mem EXCEPT ![p] = ids]
      /\ leaf' = [leaf EXCEPT ![p] = e]
      /\ Persist(p, s, ids, HasAssistant(mem[p]) \/ k = "assistant", e)
      /\ UNCHANGED <<made, session>>

\* appendMessage(), and the entries that carry a setting.
Append(p) ==
  /\ \E k \in Kinds : AppendEntry(p, k, None, leaf[p])
  /\ UNCHANGED moves

\* appendLabelChange(): a label is set or cleared.
AppendLabelChange(p, target) ==
  /\ target \in mem[p] \cap Targets
  /\ \E k \in {"label", "unlabel"} : AppendEntry(p, k, target, leaf[p])
  /\ UNCHANGED moves

\* appendCompaction(), for a cut that prepareCompaction() has found.
AppendCompaction(p) ==
  LET path == Path(session[p], mem[p], leaf[p])
  IN  /\ path # {}
      /\ kind[leaf[p]] # "compaction"
      /\ \E k \in FirstKept(path) : AppendEntry(p, "compaction", k, leaf[p])
      /\ UNCHANGED moves

Move == moves < MaxMoves /\ moves' = moves + 1

\* branchWithSummary(), from an entry or from before the first one.
BranchWithSummary(p, from) ==
  /\ Move
  /\ from \in mem[p] \cup {None}
  /\ AppendEntry(p, "summary", None, from)

\* branch() and resetLeaf(): the leaf moves, nothing is written.
Branch(p, to) ==
  /\ Move
  /\ session[p] # None
  /\ to \in mem[p] \cup {None}
  /\ leaf' = [leaf EXCEPT ![p] = to]
  /\ UNCHANGED <<entryVars, made, file, session, mem, flushed, historyVars, faults>>

-----------------------------------------------------------------------------
(* Opening, forking, closing.                                              *)

Holds(p, s, ids, onDisk) ==
  /\ session' = [session EXCEPT ![p] = s]
  /\ mem' = [mem EXCEPT ![p] = ids]
  /\ leaf' = [leaf EXCEPT ![p] = Latest(ids)]
  /\ flushed' = [flushed EXCEPT ![p] = onDisk]

NewSession(p) ==
  /\ Move
  /\ made < MaxSessions
  /\ made' = made + 1
  /\ Holds(p, made + 1, {}, FALSE)
  /\ UNCHANGED <<entryVars, file, historyVars, faults>>

\* setSessionFile(): the file is read; one that is absent is a new session under
\* that path, one without a header is started afresh.
Open(p, s) ==
  /\ Move
  /\ s <= made
  /\ Holds(p, s, file[s].ids, file[s].state # "absent")
  /\ file' = IF file[s].state = "invalid" THEN [file EXCEPT ![s] = Whole({})] ELSE file
  /\ UNCHANGED <<entryVars, made, historyVars, faults>>

\* Bug: the copies keep the parents they had, among them labels that are gone.
ParentsKept(s, ids) == parent[s]
\* Every retained entry becomes a child of the one before it.
Rechained(s, ids) ==
  [i \in Ids |-> IF i \in ids THEN Latest({j \in ids : j < i}) ELSE None]

\* Bug: labels that were cleared come back.
EverLabelled(ids, kept) == {t \in kept : \E i \in ids : kind[i] = "label" /\ ref[i] = t}
LabelsToWrite(ids, kept) == Labels(ids) \cap kept

\* fork() and clone of the runtime: the file of the session is read again and
\* createBranchedSession() writes the path to an entry as a new session; the
\* labels of the retained entries are made anew, in any order, after the last one.
Fork(p, l) ==
  LET s        == session[p]
      ids      == file[s].ids
      kept     == {i \in Path(s, ids, l) : kind[i] \notin {"label", "unlabel"}}
      labelled == LabelsToWrite(ids, kept)
      fresh    == (count + 1) .. (count + Cardinality(labelled))
      new      == made + 1
      answered == HasAssistant(kept)
  IN  /\ Move
      /\ s # None
      /\ l \in ids
      /\ made < MaxSessions
      /\ count + Cardinality(labelled) <= MaxEntries
      /\ made' = new
      /\ count' = count + Cardinality(labelled)
      /\ kind' = [i \in Ids |-> IF i \in fresh THEN "label" ELSE kind[i]]
      /\ \E target \in [fresh -> labelled] :
           /\ labelled \subseteq {target[i] : i \in fresh}
           /\ ref' = [i \in Ids |-> IF i \in fresh THEN target[i] ELSE ref[i]]
      /\ parent' = [parent EXCEPT ![new] = Rechained(s, kept \cup fresh)]
      /\ \/ /\ Holds(p, new, kept \cup fresh, answered)
            /\ file' = IF answered THEN [file EXCEPT ![new] = Whole(kept \cup fresh)] ELSE file
            /\ stored' = IF answered THEN [stored EXCEPT ![new] = kept \cup fresh] ELSE stored
            /\ UNCHANGED faults
         \/ /\ answered
            /\ Fault
            /\ \E f \in Partial(kept \cup fresh) : file' = [file EXCEPT ![new] = f]
            /\ UNCHANGED <<procVars, stored>>
      /\ UNCHANGED <<lost, unwritten>>

\* forkFrom(): all lines of a file are copied, one by one, and the copy opened.
ForkFrom(p, s) ==
  LET new == made + 1
      ids == file[s].ids
  IN  /\ Move
      /\ s <= made
      /\ file[s].state = "valid"
      /\ made < MaxSessions
      /\ made' = new
      /\ parent' = [parent EXCEPT ![new] = parent[s]]
      /\ lost' = [lost EXCEPT ![new] = lost[s]]
      /\ \/ /\ Holds(p, new, ids, TRUE)
            /\ file' = [file EXCEPT ![new] = Whole(ids)]
            /\ stored' = [stored EXCEPT ![new] = ids]
            /\ UNCHANGED faults
         \/ /\ Fault
            /\ \E f \in Partial(ids) : file' = [file EXCEPT ![new] = f]
            /\ UNCHANGED <<procVars, stored>>
      /\ UNCHANGED <<kind, ref, count, unwritten>>

\* The process ends, or dies.
Close(p) ==
  /\ Move
  /\ session[p] # None
  /\ Holds(p, None, {}, FALSE)
  /\ UNCHANGED <<entryVars, made, file, historyVars, faults>>

-----------------------------------------------------------------------------
Next ==
  \E p \in Procs :
    \/ Append(p) \/ AppendCompaction(p)
    \/ \E i \in Ids : AppendLabelChange(p, i) \/ Fork(p, i)
    \/ \E i \in Ids \cup {None} : Branch(p, i) \/ BranchWithSummary(p, i)
    \/ NewSession(p)
    \/ \E s \in Sessions : Open(p, s) \/ ForkFrom(p, s)
    \/ Close(p)

Spec == Init /\ [][Next]_vars

-----------------------------------------------------------------------------
TypeOK ==
  /\ kind \in [Ids -> AllKinds]
  /\ ref \in [Ids -> Ids \cup {None}]
  /\ parent \in [Sessions -> [Ids -> Ids \cup {None}]]
  /\ count \in 0 .. MaxEntries
  /\ made \in 0 .. MaxSessions
  /\ file \in [Sessions -> Files]
  /\ session \in [Procs -> 0 .. made]
  /\ mem \in [Procs -> SUBSET (1 .. count)]
  /\ leaf \in [Procs -> Ids \cup {None}]
  /\ flushed \in [Procs -> BOOLEAN]
  /\ stored \in [Sessions -> SUBSET Ids] /\ lost \in [Sessions -> SUBSET Ids]
  /\ unwritten \subseteq Sessions
  /\ moves \in 0 .. MaxMoves /\ faults \in 0 .. MaxFaults

Parented(par, missing, ids) ==
  \A i \in ids : par[i] = None \/ (par[i] < i /\ par[i] \in ids \cup missing)

\* What a process has in memory, and what any file would load as, is a forest
\* whose entries come after their parents: a branch is never cut short, but at an
\* entry whose write failed or ran into a torn line.  This is to hold for labels
\* that are dropped from a fork, cut-off writes, and two processes on one file.
TreeSound ==
  /\ \A s \in Sessions : Parented(parent[s], lost[s], file[s].ids)
  /\ \A p \in Procs :
       session[p] # None =>
         /\ Parented(parent[session[p]], lost[session[p]], mem[p])
         /\ leaf[p] \in mem[p] \cup {None}

\* An entry whose write returned can be loaded for ever after, and a process that
\* takes its file for written has no entry, old or new, that is not in it, unless
\* its own write failed.  A conversation with an answer is in no file only if its
\* first write failed.
Saved ==
  /\ \A s \in Sessions : stored[s] \subseteq file[s].ids
  /\ \A p \in Procs :
       session[p] # None =>
         IF flushed[p] THEN mem[p] \subseteq file[session[p]].ids \cup lost[session[p]]
         ELSE HasAssistant(mem[p]) => session[p] \in unwritten

BranchContent(s, ids, l) == {i \in Path(s, ids, l) : kind[i] \notin {"label", "unlabel"}}

\* A fork has the entries of the branch that was selected, all of them on one
\* branch again, and their labels, although labels were entries of that branch.
\* The model is shown the same conversation, unless the last compaction on it
\* keeps from a label entry: the fork does not have that entry.
ForkKeepsBranch ==
  [][\A p \in Procs, l \in Ids :
       Fork(p, l) /\ session'[p] # session[p] =>
         LET s == session[p]
             ids == file[s].ids
             branch == BranchContent(s, ids, l)
             last == LastCompaction(branch)
         IN  /\ BranchContent(session[p], mem[p], leaf[p])' = branch
             /\ Labels(mem[p])' = Labels(ids) \cap branch
             /\ \/ Context(session[p], mem[p], leaf[p])' = Context(s, ids, l)
                \/ last # None /\ kind[ref[last]] \in {"label", "unlabel"}]_vars
=============================================================================
