------------------------- MODULE SessionTree_proofs -------------------------
(***************************************************************************)
(* Sessions are sound trees, what was written stays, and a fork keeps the  *)
(* branch, for any number of entries, sessions, processes and faults.      *)
(***************************************************************************)
EXTENDS SessionTree, FiniteSetTheorems, WellFoundedInduction, TLAPS

\* Files have only entries that were made; a session that is not made yet has
\* no file; a file that is taken for written has its header.
BookInv ==
  /\ \A s \in Sessions : file[s].ids \subseteq 1 .. count
  /\ \A s \in Sessions : file[s].state # "valid" => file[s].ids = {}
  /\ \A s \in Sessions : s > made => file[s] = Absent /\ stored[s] = {}
  /\ \A p \in Procs : session[p] # None /\ flushed[p] => file[session[p]].state = "valid"

IInv == TypeOK /\ BookInv /\ TreeSound /\ Saved

-----------------------------------------------------------------------------
(* The operators.                                                          *)

\* A path is part of the entries it is taken from.
LEMMA PathWithin == \A s, l : \A ids : Path(s, ids, l) \subseteq ids
BY DEF Path

\* The latest entry is one of the set, or there is none.
LEMMA LatestWithin == \A S : Latest(S) \in S \cup {None}
BY DEF Latest

\* Re-chaining gives each entry an earlier one as its parent, or none.
LEMMA RechainedSound ==
  ASSUME NEW s, NEW ids \in SUBSET Ids, NEW i \in ids
  PROVE  /\ Rechained(s, ids)[i] \in Ids \cup {None}
         /\ Rechained(s, ids)[i] = None
              \/ (Rechained(s, ids)[i] < i /\ Rechained(s, ids)[i] \in ids)
<1>1. Rechained(s, ids)[i] = Latest({j \in ids : j < i})
  BY DEF Rechained
<1>2. Latest({j \in ids : j < i}) \in {j \in ids : j < i} \cup {None}
  BY LatestWithin
<1> QED
  BY <1>1, <1>2

\* The numbers that a fork gives to its labels are bounded by its guard.
LEMMA LabelsFinite ==
  ASSUME NEW ids \in SUBSET Ids, NEW kept, BoundsAssumption
  PROVE  Cardinality(LabelsToWrite(ids, kept)) \in Nat
<1>1. LabelsToWrite(ids, kept) \subseteq Ids
  BY DEF LabelsToWrite, Labels
<1>2. IsFiniteSet(Ids)
  BY FS_Interval, BoundsAssumption DEF Ids
<1>3. IsFiniteSet(LabelsToWrite(ids, kept))
  BY <1>1, <1>2, FS_Subset
<1> QED
  BY <1>3, FS_CardinalityType

\* What a cut-off write leaves is a file with some of the entries.
LEMMA PartialType ==
  ASSUME NEW ids \in SUBSET Ids, NEW f \in Partial(ids)
  PROVE  /\ f \in Files /\ f.ids \subseteq ids
         /\ f.state \in {"invalid", "valid"}
         /\ f.state # "valid" => f.ids = {}
         /\ f.ids = {} \/ \E k \in ids : f.ids = {i \in ids : i < k}
<1>1. CASE f = [state |-> "invalid", ids |-> {}, torn |-> FALSE]
  BY <1>1 DEF Files
<1>2. ASSUME NEW k \in ids, NEW t \in BOOLEAN,
             f = [state |-> "valid", ids |-> {i \in ids : i < k}, torn |-> t]
      PROVE  /\ f \in Files /\ f.ids \subseteq ids
             /\ f.state \in {"invalid", "valid"}
             /\ f.state # "valid" => f.ids = {}
             /\ \E j \in ids : f.ids = {i \in ids : i < j}
  <2>1. f.ids = {i \in ids : i < k}
    BY <1>2
  <2>2. f \in Files
    BY <1>2, <2>1 DEF Files
  <2> QED
    BY <1>2, <2>1, <2>2
<1> QED
  BY <1>1, <1>2 DEF Partial

\* A part of a file from its beginning is as sound as the whole.
LEMMA PartialSound ==
  ASSUME NEW par, NEW missing, NEW ids \in SUBSET Ids, NEW f \in Partial(ids),
         Parented(par, missing, ids)
  PROVE  Parented(par, missing, f.ids)
<1>1. CASE f.ids = {}
  BY <1>1 DEF Parented
<1>2. ASSUME NEW k \in ids, f.ids = {i \in ids : i < k}
      PROVE  Parented(par, missing, f.ids)
  <2>1. k \in Nat /\ \A i \in ids : i \in Nat
    BY DEF Ids
  <2>2. ASSUME NEW i \in f.ids, par[i] # None
        PROVE  par[i] < i /\ par[i] \in f.ids \cup missing
    <3>1. i \in ids /\ i < k /\ par[i] < i /\ par[i] \in ids \cup missing
      BY <1>2, <2>2 DEF Parented
    <3>2. \A q, b, c \in Nat : q < b /\ b < c => q < c
      OBVIOUS
    <3>3. par[i] \in ids => par[i] < k
      BY ONLY <3>1, <3>2, <2>1
    <3> QED
      BY <3>1, <3>3, <1>2
  <2> QED
    BY <2>2 DEF Parented
<1> QED
  BY <1>1, <1>2, PartialType

-----------------------------------------------------------------------------
(* The initial state.                                                      *)

\* Nothing is open and no file exists.
LEMMA InitEstablishesIInv == Init => IInv
<1> SUFFICES ASSUME Init PROVE IInv
  OBVIOUS
<1> USE BoundsAssumption DEF Init
<1>1. TypeOK
  BY DEF TypeOK, AllKinds, Files, Absent, Ids, None
<1>2. BookInv
  BY DEF BookInv, Absent
<1>3. TreeSound
  BY DEF TreeSound, Parented, Absent
<1>4. Saved
  BY DEF Saved, Absent
<1> QED
  BY <1>1, <1>2, <1>3, <1>4 DEF IInv

-----------------------------------------------------------------------------
(* Appending an entry.                                                     *)

\* What the step of _appendEntry() makes of the counters and the memory.
LEMMA AppendMemory ==
  ASSUME IInv, NEW p \in Procs, NEW k \in AllKinds, NEW r \in Ids \cup {None},
         NEW l \in mem[p] \cup {None}, AppendEntry(p, k, r, l)
  PROVE  /\ session[p] \in Sessions /\ session[p] # None /\ session[p] <= made
         /\ count + 1 \in Ids /\ count \in Nat
         /\ count' = count + 1 /\ made' = made /\ session' = session
         /\ mem[p] \cup {count + 1} \in SUBSET (1 .. count')
         /\ 1 .. count' \subseteq Ids
         /\ l \in Ids \cup {None}
         /\ l # None => l < count + 1
         /\ Persist(p, session[p], mem[p] \cup {count + 1},
                    HasAssistant(mem[p]) \/ k = "assistant", count + 1)
<1>1. /\ count \in 0 .. MaxEntries /\ made \in 0 .. MaxSessions
      /\ session[p] \in 0 .. made /\ mem[p] \in SUBSET (1 .. count)
  BY DEF IInv, TypeOK
<1>2. session[p] # None /\ count < MaxEntries /\ count' = count + 1
  BY DEF AppendEntry
<1>3. session[p] \in Sessions /\ session[p] <= made
  BY <1>1, <1>2, BoundsAssumption DEF Sessions, None
<1>4. count + 1 \in Ids /\ 1 .. (count + 1) \subseteq Ids /\ count \in Nat
  BY <1>1, <1>2, BoundsAssumption DEF Ids
<1>5. mem[p] \cup {count + 1} \in SUBSET (1 .. (count + 1))
  BY <1>1
<1>6. l \in Ids \cup {None} /\ (l # None => l < count + 1)
  BY <1>1, BoundsAssumption DEF Ids
<1> QED
  BY <1>2, <1>3, <1>4, <1>5, <1>6 DEF AppendEntry

\* The types survive an append.
LEMMA AppendTypes ==
  ASSUME IInv, NEW p \in Procs, NEW k \in AllKinds, NEW r \in Ids \cup {None},
         NEW l \in mem[p] \cup {None}, AppendEntry(p, k, r, l), moves' \in 0 .. MaxMoves
  PROVE  TypeOK'
<1> DEFINE s == session[p]
           e == count + 1
           ids == mem[p] \cup {e}
<1>a. /\ s \in Sessions /\ e \in Ids /\ count' = e /\ made' = made /\ session' = session
      /\ ids \in SUBSET (1 .. count') /\ 1 .. count' \subseteq Ids /\ count \in Nat
      /\ l \in Ids \cup {None}
  BY AppendMemory
<1>b. /\ mem' = [mem EXCEPT ![p] = ids] /\ leaf' = [leaf EXCEPT ![p] = e]
      /\ kind' = [kind EXCEPT ![e] = k] /\ ref' = [ref EXCEPT ![e] = r]
      /\ parent' = [parent EXCEPT ![s][e] = l]
  BY DEF AppendEntry
<1>p. Persist(p, s, ids, HasAssistant(mem[p]) \/ k = "assistant", e)
  BY AppendMemory
<1> HIDE DEF s, e, ids
<1>2. TypeOK
  BY DEF IInv
<1>3. /\ kind' \in [Ids -> AllKinds] /\ ref' \in [Ids -> Ids \cup {None}]
      /\ leaf' \in [Procs -> Ids \cup {None}]
  BY <1>a, <1>b, <1>2 DEF TypeOK
<1>4. parent' \in [Sessions -> [Ids -> Ids \cup {None}]]
  BY <1>a, <1>b, <1>2 DEF TypeOK
<1>5. mem' \in [Procs -> SUBSET (1 .. count')]
  <2>1. mem \in [Procs -> SUBSET (1 .. count')]
    BY <1>a, <1>2 DEF TypeOK, e
  <2> QED
    BY <2>1, <1>a, <1>b
<1>6. ids \in SUBSET Ids
  BY <1>a
<1>7. /\ file' \in [Sessions -> Files] /\ flushed' \in [Procs -> BOOLEAN]
      /\ stored' \in [Sessions -> SUBSET Ids] /\ lost' \in [Sessions -> SUBSET Ids]
      /\ unwritten' \subseteq Sessions /\ faults' \in 0 .. MaxFaults
  <2>1. /\ file \in [Sessions -> Files] /\ flushed \in [Procs -> BOOLEAN]
        /\ stored \in [Sessions -> SUBSET Ids] /\ lost \in [Sessions -> SUBSET Ids]
        /\ unwritten \subseteq Sessions /\ faults \in 0 .. MaxFaults
    BY <1>2 DEF TypeOK
  <2>2. CASE AppendLine(p, s, e)
    <3>1. WithLine(file[s], e) \in Files
      BY <1>a, <2>1 DEF WithLine, Files
    <3> QED
      BY <1>a, <2>1, <2>2, <3>1 DEF AppendLine
  <2>3. CASE AppendFails(p, s, e)
    <3>1. \A t \in BOOLEAN : [file[s] EXCEPT !.torn = @ \/ t] \in Files
      BY <1>a, <2>1 DEF Files
    <3>2. faults' \in 0 .. MaxFaults
      BY <2>1, <2>3, BoundsAssumption DEF AppendFails, Fault
    <3> QED
      BY <1>a, <2>1, <2>3, <3>1, <3>2 DEF AppendFails
  <2>4. CASE ~ flushed[p] /\ UNCHANGED <<file, flushed, historyVars, faults>>
    BY <2>1, <2>4 DEF historyVars
  <2>5. CASE CreateFile(p, s, ids, HasAssistant(mem[p]) \/ k = "assistant")
    <3>1. FirstContent(ids) \in Files
      BY <1>6 DEF FirstContent, Whole, Files
    <3> QED
      BY <1>a, <1>6, <2>1, <2>5, <3>1 DEF CreateFile
  <2>6. CASE CreateFails(p, s, ids, HasAssistant(mem[p]) \/ k = "assistant")
    <3>1. \A f \in Partial(ids) : f \in Files
      BY <1>6, PartialType
    <3>3. Absent \in Files
      BY DEF Absent, Files
    <3>2. faults' \in 0 .. MaxFaults
      BY <2>1, <2>6, BoundsAssumption DEF CreateFails, Fault
    <3> QED
      BY <1>a, <2>1, <2>6, <3>1, <3>2, <3>3 DEF CreateFails
  <2> QED
    BY <1>p, <2>2, <2>3, <2>4, <2>5, <2>6 DEF Persist, Deferred
<1>8. count' \in 0 .. MaxEntries /\ made' \in 0 .. MaxSessions /\ session' \in [Procs -> 0 .. made']
  BY <1>a, <1>2, BoundsAssumption DEF TypeOK, Ids
<1> QED
  BY <1>3, <1>4, <1>5, <1>7, <1>8 DEF TypeOK

\* What _persist() does to the file and to the history.
Effect(p, s, ids, answered, e) ==
  /\ \A t \in Sessions \ {s} :
       file'[t] = file[t] /\ stored'[t] = stored[t] /\ lost'[t] = lost[t]
  /\ \A q \in Procs \ {p} : flushed'[q] = flushed[q]
  /\ file[s].ids \subseteq file'[s].ids /\ file'[s].ids \subseteq file[s].ids \cup ids
  /\ lost[s] \subseteq lost'[s] /\ unwritten \subseteq unwritten'
  /\ stored'[s] \subseteq file'[s].ids
  /\ file'[s].state # "valid" => file'[s].ids = {}
  /\ file[s].state = "valid" \/ flushed'[p] => file'[s].state = "valid"
  /\ flushed[p] => /\ flushed'[p]
                   /\ e \in file'[s].ids \cup lost'[s]
                   /\ file'[s].ids \subseteq file[s].ids \cup {e}
  /\ ~ flushed[p] => \/ file'[s].ids = file[s].ids
                     \/ file[s].ids = {} /\ file'[s].ids = ids
                     \/ file[s].ids = {} /\ \E f \in Partial(ids) : file'[s].ids = f.ids
  /\ ~ flushed[p] /\ flushed'[p] => ids \subseteq file'[s].ids
  /\ ~ flushed'[p] /\ answered => s \in unwritten'

\* Each way in which _persist() may end has this effect.
LEMMA PersistEffect ==
  ASSUME IInv, NEW p \in Procs, NEW s \in Sessions, s = session[p], s # None,
         NEW ids \in SUBSET Ids, NEW answered \in BOOLEAN, NEW e \in ids,
         Persist(p, s, ids, answered, e)
  PROVE  Effect(p, s, ids, answered, e)
<1>1. /\ file \in [Sessions -> Files] /\ flushed \in [Procs -> BOOLEAN]
      /\ stored \in [Sessions -> SUBSET Ids] /\ lost \in [Sessions -> SUBSET Ids]
  BY DEF IInv, TypeOK
<1>2. /\ stored[s] \subseteq file[s].ids
      /\ file[s].state # "valid" => file[s].ids = {}
      /\ flushed[p] => file[s].state = "valid"
  BY DEF IInv, BookInv, Saved
<1>3. CASE AppendLine(p, s, e)
  <2>1. WithLine(file[s], e).ids = IF file[s].torn THEN file[s].ids ELSE file[s].ids \cup {e}
    BY <1>1 DEF WithLine, Files
  <2>2. WithLine(file[s], e).state = file[s].state
    BY <1>1 DEF WithLine, Files
  <2>3. file'[s] = WithLine(file[s], e) /\ \A t \in Sessions \ {s} : file'[t] = file[t]
    BY <1>1, <1>3 DEF AppendLine
  <2>4. IF file[s].torn THEN lost'[s] = lost[s] \cup {e} /\ stored' = stored
        ELSE stored'[s] = stored[s] \cup {e} /\ lost' = lost
    BY <1>1, <1>3 DEF AppendLine
  <2>5. \A t \in Sessions \ {s} : stored'[t] = stored[t] /\ lost'[t] = lost[t]
    BY <1>1, <1>3 DEF AppendLine
  <2>6. flushed[p] /\ flushed' = flushed /\ unwritten' = unwritten
    BY <1>3 DEF AppendLine
  <2> QED
    BY <1>2, <2>1, <2>2, <2>3, <2>4, <2>5, <2>6 DEF Effect
<1>4. CASE AppendFails(p, s, e)
  <2>1. PICK t \in BOOLEAN : file' = [file EXCEPT ![s].torn = @ \/ t]
    BY <1>4 DEF AppendFails
  <2>2. /\ file'[s].ids = file[s].ids /\ file'[s].state = file[s].state
        /\ \A q \in Sessions \ {s} : file'[q] = file[q]
    BY <1>1, <2>1 DEF Files
  <2>3. /\ lost'[s] = lost[s] \cup {e} /\ \A q \in Sessions \ {s} : lost'[q] = lost[q]
        /\ flushed[p] /\ flushed' = flushed /\ stored' = stored /\ unwritten' = unwritten
    BY <1>1, <1>4 DEF AppendFails
  <2> QED
    BY <1>2, <2>2, <2>3 DEF Effect
<1>5. CASE Deferred(p, answered)
  BY <1>2, <1>5 DEF Deferred, historyVars, Effect
<1>6. CASE CreateFile(p, s, ids, answered)
  <2>1. /\ ~ flushed[p] /\ file[s].ids = {} /\ lost' = lost /\ unwritten' = unwritten
        /\ file[s].state # "valid"
    BY <1>2, <1>6 DEF CreateFile
  <2>2. file'[s] = Whole(ids) /\ \A t \in Sessions \ {s} : file'[t] = file[t]
    BY <1>1, <1>6 DEF CreateFile, FirstContent
  <2>3. /\ stored'[s] = stored[s] \cup ids
        /\ \A t \in Sessions \ {s} : stored'[t] = stored[t]
    BY <1>1, <1>6 DEF CreateFile
  <2>4. flushed'[p] /\ \A q \in Procs \ {p} : flushed'[q] = flushed[q]
    BY <1>1, <1>6 DEF CreateFile
  <2>5. Whole(ids).ids = ids /\ Whole(ids).state = "valid"
    BY DEF Whole
  <2> QED
    BY <1>2, <2>1, <2>2, <2>3, <2>4, <2>5 DEF Effect
<1>7. CASE CreateFails(p, s, ids, answered)
  <2>1. /\ ~ flushed[p] /\ flushed' = flushed /\ stored' = stored /\ lost' = lost
        /\ unwritten' = unwritten \cup {s}
    BY <1>7 DEF CreateFails
  <2>2. CASE UNCHANGED file
    BY <1>2, <2>1, <2>2 DEF Effect
  <2>3. ASSUME NEW f \in Partial(ids) \cup {Absent}, file[s].state = "absent",
               file' = [file EXCEPT ![s] = f]
        PROVE  Effect(p, s, ids, answered, e)
    <3>1. file[s].ids = {} /\ file'[s] = f /\ \A t \in Sessions \ {s} : file'[t] = file[t]
      BY <1>1, <1>2, <2>3
    <3>2. CASE f = Absent
      BY <1>2, <2>1, <2>3, <3>1, <3>2 DEF Effect, Absent
    <3>3. CASE f \in Partial(ids)
      <4>1. f.ids \subseteq ids /\ (f.state # "valid" => f.ids = {})
        BY <3>3, PartialType
      <4> QED
        BY <1>2, <2>1, <2>3, <3>1, <3>3, <4>1 DEF Effect
    <3> QED
      BY <2>3, <3>2, <3>3
  <2> QED
    BY <1>7, <2>2, <2>3 DEF CreateFails
<1> QED
  BY <1>3, <1>4, <1>5, <1>6, <1>7 DEF Persist

\* A sound set of entries stays sound when the parents of its entries do not
\* change, no more entries are excused, and an entry joins it with its parent.
LEMMA ParentedGrows ==
  ASSUME NEW par, NEW missing, NEW ids, NEW par2, NEW missing2, NEW ids2,
         Parented(par, missing, ids),
         \A i \in ids : par2[i] = par[i],
         ids \subseteq ids2, missing \subseteq missing2,
         \A i \in ids2 \ ids : par2[i] = None \/ (par2[i] < i /\ par2[i] \in ids2 \cup missing2)
  PROVE  Parented(par2, missing2, ids2)
BY DEF Parented

\* An append keeps everything sound.
LEMMA AppendSound ==
  ASSUME IInv, NEW p \in Procs, NEW k \in AllKinds, NEW r \in Ids \cup {None},
         NEW l \in mem[p] \cup {None}, AppendEntry(p, k, r, l), moves' \in 0 .. MaxMoves
  PROVE  IInv'
<1> DEFINE s == session[p]
           e == count + 1
           ids == mem[p] \cup {e}
           answered == HasAssistant(mem[p]) \/ k = "assistant"
<1>a. /\ s \in Sessions /\ s # None /\ s <= made /\ e \in Ids
      /\ count' = e /\ made' = made /\ session' = session
      /\ ids \in SUBSET (1 .. count') /\ 1 .. count' \subseteq Ids /\ count \in Nat
      /\ l \in Ids \cup {None} /\ (l # None => l < e)
  BY AppendMemory
<1>b. /\ mem' = [mem EXCEPT ![p] = ids] /\ leaf' = [leaf EXCEPT ![p] = e]
      /\ kind' = [kind EXCEPT ![e] = k]
      /\ parent' = [parent EXCEPT ![s][e] = l]
  BY DEF AppendEntry
<1>c. Persist(p, s, ids, answered, e)
  BY AppendMemory
<1>d. Effect(p, s, ids, answered, e)
  <2>1. ids \in SUBSET Ids /\ e \in ids /\ answered \in BOOLEAN
    BY <1>a DEF HasAssistant
  <2> HIDE DEF s, e, ids, answered
  <2>2. s = session[p]
    BY DEF s
  <2> QED
    BY <1>a, <1>c, <2>1, <2>2, PersistEffect
<1> HIDE DEF s, e, ids, answered
<1>0. TypeOK /\ BookInv /\ TreeSound /\ Saved
  BY DEF IInv
<1>1. /\ mem'[p] = ids /\ leaf'[p] = e
      /\ \A q \in Procs \ {p} : mem'[q] = mem[q] /\ leaf'[q] = leaf[q]
      /\ parent'[s][e] = l
      /\ \A t \in Sessions, i \in Ids : t # s \/ i # e => parent'[t][i] = parent[t][i]
      /\ \A i \in Ids : i # e => kind'[i] = kind[i]
      /\ kind'[e] = k
  BY <1>0, <1>a, <1>b DEF TypeOK
<1>2. /\ \A t \in Sessions : e \notin file[t].ids /\ file[t].ids \subseteq Ids
      /\ \A q \in Procs : e \notin mem[q] /\ mem[q] \subseteq Ids
      /\ \A q \in Procs : session[q] \in 0 .. made
      /\ file[s].ids \subseteq Ids /\ ids \subseteq Ids
  <2>1. e \notin 1 .. count /\ 1 .. count \subseteq Ids
    BY <1>a DEF e
  <2>2. \A t \in Sessions : file[t].ids \subseteq 1 .. count
    BY <1>0 DEF BookInv
  <2>3. \A q \in Procs : mem[q] \subseteq 1 .. count /\ session[q] \in 0 .. made
    BY <1>0 DEF TypeOK
  <2> QED
    BY <2>1, <2>2, <2>3, <1>a
<1>3. TypeOK'
  BY AppendTypes
<1>4. BookInv'
  <2>1. \A t \in Sessions : file'[t].ids \subseteq 1 .. count'
    <3>1. \A t \in Sessions : file[t].ids \subseteq 1 .. count'
      BY <1>0, <1>a DEF BookInv, e
    <3> QED
      BY <3>1, <1>a, <1>d DEF Effect
  <2>2. \A t \in Sessions : file'[t].state # "valid" => file'[t].ids = {}
    BY <1>0, <1>d DEF BookInv, Effect
  <2>3. \A t \in Sessions : t > made' => file'[t] = Absent /\ stored'[t] = {}
    <3>1. \A t \in Sessions : t > made => t # s
      BY <1>a, <1>0 DEF TypeOK, Sessions
    <3> QED
      BY <1>0, <1>a, <1>d, <3>1 DEF BookInv, Effect
  <2>4. \A q \in Procs : session'[q] # None /\ flushed'[q] => file'[session'[q]].state = "valid"
    <3>1. \A q \in Procs : session[q] # None => session[q] \in Sessions
      BY <1>0, BoundsAssumption DEF TypeOK, Sessions, None
    <3> QED
      BY <1>0, <1>a, <1>d, <3>1 DEF BookInv, Effect, s
  <2> QED
    BY <2>1, <2>2, <2>3, <2>4 DEF BookInv
<1>5. \A t \in Sessions : Parented(parent[t], lost[t], file[t].ids)
  BY <1>0 DEF TreeSound
<1>6. l = None \/ (l < e /\ l \in mem[p])
  BY <1>a
<1>7. Parented(parent[s], lost[s], mem[p]) /\ mem[p] \subseteq ids /\ ids \ mem[p] \subseteq {e}
  BY <1>0, <1>a DEF TreeSound, s, ids
<1>8. lost[s] \subseteq lost'[s]
  BY <1>d DEF Effect
<1>9. Parented(parent'[s], lost'[s], ids)
  <2>1. \A i \in mem[p] : parent'[s][i] = parent[s][i]
    BY <1>1, <1>2, <1>a
  <2>2. \A i \in ids \ mem[p] : parent'[s][i] = None
           \/ (parent'[s][i] < i /\ parent'[s][i] \in ids \cup lost'[s])
    BY <1>1, <1>6, <1>7
  <2> QED
    BY <2>1, <2>2, <1>7, <1>8, ParentedGrows
<1>10. Parented(parent'[s], lost'[s], file'[s].ids)
  <2>1. \A i \in file[s].ids : parent'[s][i] = parent[s][i]
    BY <1>1, <1>2, <1>a
  <2>2. Parented(parent'[s], lost'[s], file[s].ids)
    BY <1>5, <1>8, <1>a, <2>1, ParentedGrows
  <2>3. CASE flushed[p]
    <3>1. mem[p] \subseteq file[s].ids \cup lost[s]
      BY <1>0, <1>a, <2>3 DEF Saved, s
    <3>2. file[s].ids \subseteq file'[s].ids /\ file'[s].ids \ file[s].ids \subseteq {e}
      BY <1>d, <2>3 DEF Effect
    <3>3. l = None \/ (l < e /\ l \in file'[s].ids \cup lost'[s])
      BY <1>6, <1>8, <3>1, <3>2
    <3>4. \A i \in file'[s].ids \ file[s].ids : parent'[s][i] = None
           \/ (parent'[s][i] < i /\ parent'[s][i] \in file'[s].ids \cup lost'[s])
      BY <1>1, <3>2, <3>3
    <3> QED
      BY <1>5, <1>8, <1>a, <2>1, <3>2, <3>4, ParentedGrows
  <2>4. CASE ~ flushed[p]
    <3>1. CASE file'[s].ids = file[s].ids
      BY <2>2, <3>1
    <3>2. CASE file'[s].ids = ids
      BY <1>9, <3>2
    <3>3. ASSUME NEW f \in Partial(ids), file'[s].ids = f.ids
          PROVE  Parented(parent'[s], lost'[s], file'[s].ids)
      <4>1. ids \in SUBSET Ids
        BY <1>2
      <4> QED
        BY <1>9, <3>3, <4>1, PartialSound
    <3> QED
      BY <1>d, <2>4, <3>1, <3>2, <3>3 DEF Effect
  <2> QED
    BY <2>3, <2>4
<1>11. TreeSound'
  <2>1. ASSUME NEW t \in Sessions PROVE Parented(parent'[t], lost'[t], file'[t].ids)
    <3>1. CASE t = s
      BY <1>10, <3>1
    <3>2. CASE t # s
      <4>1. file'[t] = file[t] /\ lost'[t] = lost[t]
        BY <1>d, <3>2 DEF Effect
      <4>2. \A i \in file[t].ids : parent'[t][i] = parent[t][i]
        BY <1>1, <1>2, <3>2
      <4> QED
        BY <1>5, <4>1, <4>2, ParentedGrows
    <3> QED
      BY <3>1, <3>2
  <2>2. ASSUME NEW q \in Procs, session'[q] # None
        PROVE  /\ Parented(parent'[session'[q]], lost'[session'[q]], mem'[q])
               /\ leaf'[q] \in mem'[q] \cup {None}
    <3>1. CASE q = p
      BY <1>1, <1>9, <1>a, <3>1 DEF s, ids
    <3>2. CASE q # p
      <4>1. mem'[q] = mem[q] /\ leaf'[q] = leaf[q] /\ session'[q] = session[q]
        BY <1>1, <1>a, <3>2
      <4>2. /\ Parented(parent[session[q]], lost[session[q]], mem[q])
            /\ leaf[q] \in mem[q] \cup {None}
        BY <1>0, <2>2, <4>1 DEF TreeSound
      <4>3. session[q] \in Sessions
        BY <1>0, <1>2, <2>2, <4>1, BoundsAssumption DEF TypeOK, Sessions, None
      <4>4. \A i \in mem[q] : parent'[session[q]][i] = parent[session[q]][i]
        BY <1>1, <1>2, <4>3
      <4>5. lost[session[q]] \subseteq lost'[session[q]]
        BY <1>d, <4>3 DEF Effect
      <4> QED
        BY <4>1, <4>2, <4>4, <4>5, ParentedGrows
    <3> QED
      BY <3>1, <3>2
  <2> QED
    BY <2>1, <2>2 DEF TreeSound
<1>12. Saved'
  <2>1. \A t \in Sessions : stored'[t] \subseteq file'[t].ids
    BY <1>0, <1>d DEF Saved, Effect
  <2>2. ASSUME NEW q \in Procs, session'[q] # None
        PROVE  IF flushed'[q] THEN mem'[q] \subseteq file'[session'[q]].ids \cup lost'[session'[q]]
               ELSE (\E i \in mem'[q] : kind'[i] = "assistant") => session'[q] \in unwritten'
    <3>0. session[q] \in Sessions /\ session'[q] = session[q]
      BY <1>0, <1>2, <1>a, <2>2, BoundsAssumption DEF TypeOK, Sessions, None
    <3>1. /\ file[session[q]].ids \subseteq file'[session[q]].ids
          /\ lost[session[q]] \subseteq lost'[session[q]] /\ unwritten \subseteq unwritten'
      BY <1>d, <3>0 DEF Effect
    <3>2. IF flushed[q] THEN mem[q] \subseteq file[session[q]].ids \cup lost[session[q]]
          ELSE (\E i \in mem[q] : kind[i] = "assistant") => session[q] \in unwritten
      BY <1>0, <2>2, <3>0 DEF Saved, HasAssistant
    <3>3. \A i \in mem[q] : kind'[i] = kind[i]
      BY <1>1, <1>2
    <3>4. CASE q # p
      <4>1. mem'[q] = mem[q] /\ flushed'[q] = flushed[q]
        BY <1>1, <1>d, <3>4 DEF Effect
      <4> QED
        BY <3>0, <3>1, <3>2, <3>3, <4>1
    <3>5. CASE q = p
      <4>1. mem'[q] = ids /\ session[q] = s
        BY <1>1, <3>5 DEF s
      <4>2. CASE flushed[p]
        <5>1. flushed'[p] /\ e \in file'[s].ids \cup lost'[s]
          BY <1>d, <4>2 DEF Effect
        <5> QED
          BY <1>7, <3>0, <3>1, <3>2, <3>5, <4>1, <4>2, <5>1
      <4>3. CASE ~ flushed[p] /\ flushed'[p]
        <5>1. ids \subseteq file'[s].ids
          BY <1>d, <4>3 DEF Effect
        <5> QED
          BY <3>0, <3>5, <4>1, <4>3, <5>1
      <4>4. CASE ~ flushed[p] /\ ~ flushed'[p]
        <5>1. answered => s \in unwritten'
          BY <1>d, <4>4 DEF Effect
        <5>2. (\E i \in ids : kind'[i] = "assistant") => answered
          <6>1. ASSUME NEW i \in ids, kind'[i] = "assistant" PROVE answered
            <7>1. CASE i = e
              BY <1>1, <6>1, <7>1 DEF answered
            <7>2. CASE i \in mem[p]
              BY <3>3, <3>5, <6>1, <7>2 DEF answered, HasAssistant
            <7> QED
              BY <1>7, <7>1, <7>2
          <6> QED
            BY <6>1
        <5> QED
          BY <3>0, <3>5, <4>1, <4>4, <5>1, <5>2
      <4> QED
        BY <4>2, <4>3, <4>4
    <3> QED
      BY <3>4, <3>5
  <2> QED
    BY <2>1, <2>2 DEF Saved, HasAssistant
<1> QED
  BY <1>3, <1>4, <1>11, <1>12 DEF IInv

-----------------------------------------------------------------------------
(* Opening, forking, closing.                                              *)

\* Every way in which a session is made: its number is new, its entries have the
\* parents par, its file has f, and either p opens it or the copy has failed.
MadeBy(p, ids, par, missing, f, st, onDisk) ==
  /\ made < MaxSessions /\ made' = made + 1
  /\ parent' = [parent EXCEPT ![made + 1] = par]
  /\ lost' = [lost EXCEPT ![made + 1] = missing]
  /\ file' = [file EXCEPT ![made + 1] = f]
  /\ stored' = [stored EXCEPT ![made + 1] = st]
  /\ UNCHANGED unwritten
  /\ \/ UNCHANGED procVars
     \/ Holds(p, made + 1, ids, onDisk)

\* A session that is made this way is sound, and disturbs no other.
LEMMA MadeSound ==
  ASSUME IInv, NEW p \in Procs, NEW ids \in SUBSET (1 .. count'),
         NEW par \in [Ids -> Ids \cup {None}], NEW missing \in SUBSET Ids,
         NEW f \in Files, NEW st \in SUBSET Ids, NEW onDisk \in BOOLEAN,
         MadeBy(p, ids, par, missing, f, st, onDisk),
         count' \in count .. MaxEntries, moves' \in 0 .. MaxMoves, faults' \in 0 .. MaxFaults,
         kind' \in [Ids -> AllKinds], ref' \in [Ids -> Ids \cup {None}],
         \A i \in 1 .. count : kind'[i] = kind[i],
         Parented(par, missing, ids), Parented(par, missing, f.ids),
         f.ids \subseteq ids, f.state # "valid" => f.ids = {}, st \subseteq f.ids,
         Holds(p, made + 1, ids, onDisk) =>
           IF onDisk THEN f = Whole(ids) ELSE \A i \in ids : kind'[i] # "assistant"
  PROVE  IInv'
<1> DEFINE new == made + 1
<1>0. TypeOK /\ BookInv /\ TreeSound /\ Saved
  BY DEF IInv
<1>1. /\ count \in 0 .. MaxEntries /\ made \in 0 .. MaxSessions /\ new \in Sessions
      /\ new # None /\ new > made /\ made' = new /\ made' \in 0 .. MaxSessions
      /\ count' \in 0 .. MaxEntries /\ 1 .. count' \subseteq Ids
      /\ 1 .. count \subseteq 1 .. count' /\ 1 .. count \subseteq Ids
      /\ \A q \in Procs : session[q] \in 0 .. made /\ mem[q] \subseteq 1 .. count
  BY <1>0, BoundsAssumption DEF TypeOK, MadeBy, Sessions, None, Ids
<1>2. /\ \A q \in Procs : session[q] # new
      /\ \A q \in Procs : session[q] # None => session[q] \in Sessions
  BY <1>1, BoundsAssumption DEF Sessions, None
<1>3. /\ parent'[new] = par /\ lost'[new] = missing /\ file'[new] = f /\ stored'[new] = st
      /\ \A t \in Sessions \ {new} : /\ parent'[t] = parent[t] /\ lost'[t] = lost[t]
                                     /\ file'[t] = file[t] /\ stored'[t] = stored[t]
      /\ unwritten' = unwritten
  BY <1>0, <1>1 DEF TypeOK, MadeBy
<1> HIDE DEF new
<1>4. TypeOK'
  <2>1. /\ parent' \in [Sessions -> [Ids -> Ids \cup {None}]]
        /\ file' \in [Sessions -> Files]
        /\ stored' \in [Sessions -> SUBSET Ids] /\ lost' \in [Sessions -> SUBSET Ids]
        /\ unwritten' \subseteq Sessions
    BY <1>0, <1>1 DEF TypeOK, MadeBy, new
  <2>2. /\ session \in [Procs -> 0 .. made'] /\ mem \in [Procs -> SUBSET (1 .. count')]
        /\ leaf \in [Procs -> Ids \cup {None}] /\ flushed \in [Procs -> BOOLEAN]
    <3>1. 0 .. made \subseteq 0 .. made'
      BY <1>1 DEF new
    <3> QED
      BY <1>0, <1>1, <3>1 DEF TypeOK
  <2>3. Latest(ids) \in Ids \cup {None}
    BY <1>1, LatestWithin
  <2>4. /\ session' \in [Procs -> 0 .. made'] /\ mem' \in [Procs -> SUBSET (1 .. count')]
        /\ leaf' \in [Procs -> Ids \cup {None}] /\ flushed' \in [Procs -> BOOLEAN]
    <3>1. CASE UNCHANGED procVars
      BY <2>2, <3>1 DEF procVars
    <3>2. CASE Holds(p, new, ids, onDisk)
      <4>1. new \in 0 .. made'
        BY <1>1 DEF new
      <4> QED
        BY <2>2, <2>3, <3>2, <4>1 DEF Holds
    <3> QED
      BY <3>1, <3>2 DEF MadeBy, new
  <2> QED
    BY <1>1, <2>1, <2>4 DEF TypeOK
<1>5. \A q \in Procs :
        \/ /\ session'[q] = session[q] /\ mem'[q] = mem[q]
           /\ leaf'[q] = leaf[q] /\ flushed'[q] = flushed[q]
        \/ /\ session'[q] = new /\ mem'[q] = ids /\ leaf'[q] = Latest(ids)
           /\ flushed'[q] = onDisk
           /\ IF onDisk THEN f = Whole(ids) ELSE \A i \in ids : kind'[i] # "assistant"
  <2>1. CASE UNCHANGED procVars
    BY <2>1 DEF procVars
  <2>2. CASE Holds(p, new, ids, onDisk)
    <3>1. IF onDisk THEN f = Whole(ids) ELSE \A i \in ids : kind'[i] # "assistant"
      BY <2>2 DEF new
    <3> QED
      BY <1>0, <2>2, <3>1 DEF Holds, TypeOK
  <2> QED
    BY <2>1, <2>2 DEF MadeBy, new
<1>6. BookInv'
  <2>1. \A t \in Sessions : file'[t].ids \subseteq 1 .. count'
    BY <1>0, <1>1, <1>3 DEF BookInv
  <2>2. \A t \in Sessions : file'[t].state # "valid" => file'[t].ids = {}
    BY <1>0, <1>3 DEF BookInv
  <2>3. \A t \in Sessions : t > made' => file'[t] = Absent /\ stored'[t] = {}
    <3>1. \A t \in Sessions : t > made' => t # new /\ t > made
      BY <1>1 DEF Sessions, new
    <3> QED
      BY <1>0, <1>3, <3>1 DEF BookInv
  <2>4. \A q \in Procs : session'[q] # None /\ flushed'[q] => file'[session'[q]].state = "valid"
    <3>1. \A q \in Procs : session[q] # None /\ flushed[q] =>
            file[session[q]].state = "valid" /\ session[q] \in Sessions \ {new}
      BY <1>0, <1>2 DEF BookInv
    <3> QED
      BY <1>3, <1>5, <3>1 DEF Whole
  <2> QED
    BY <2>1, <2>2, <2>3, <2>4 DEF BookInv
<1>7. TreeSound'
  <2>1. \A t \in Sessions : Parented(parent'[t], lost'[t], file'[t].ids)
    BY <1>0, <1>3 DEF TreeSound
  <2>2. ASSUME NEW q \in Procs, session'[q] # None
        PROVE  /\ Parented(parent'[session'[q]], lost'[session'[q]], mem'[q])
               /\ leaf'[q] \in mem'[q] \cup {None}
    <3>1. CASE session'[q] = session[q] /\ mem'[q] = mem[q] /\ leaf'[q] = leaf[q]
      <4>1. session[q] \in Sessions \ {new}
        BY <1>2, <2>2, <3>1
      <4> QED
        BY <1>0, <1>3, <2>2, <3>1, <4>1 DEF TreeSound
    <3>2. CASE session'[q] = new /\ mem'[q] = ids /\ leaf'[q] = Latest(ids)
      BY <1>3, <3>2, LatestWithin
    <3> QED
      BY <1>5, <3>1, <3>2
  <2> QED
    BY <2>1, <2>2 DEF TreeSound
<1>8. Saved'
  <2>1. \A t \in Sessions : stored'[t] \subseteq file'[t].ids
    BY <1>0, <1>3 DEF Saved
  <2>2. ASSUME NEW q \in Procs, session'[q] # None
        PROVE  IF flushed'[q] THEN mem'[q] \subseteq file'[session'[q]].ids \cup lost'[session'[q]]
               ELSE (\E i \in mem'[q] : kind'[i] = "assistant") => session'[q] \in unwritten'
    <3>1. CASE session'[q] = session[q] /\ mem'[q] = mem[q] /\ flushed'[q] = flushed[q]
      <4>1. session[q] \in Sessions \ {new} /\ \A i \in mem[q] : kind'[i] = kind[i]
        BY <1>1, <1>2, <2>2, <3>1
      <4>2. IF flushed[q] THEN mem[q] \subseteq file[session[q]].ids \cup lost[session[q]]
            ELSE (\E i \in mem[q] : kind[i] = "assistant") => session[q] \in unwritten
        BY <1>0, <2>2, <3>1 DEF Saved, HasAssistant
      <4> QED
        BY <1>3, <3>1, <4>1, <4>2
    <3>2. CASE /\ session'[q] = new /\ mem'[q] = ids /\ flushed'[q] = onDisk
               /\ IF onDisk THEN f = Whole(ids) ELSE \A i \in ids : kind'[i] # "assistant"
      <4>1. CASE onDisk
        <5>1. f.ids = ids
          BY <3>2, <4>1 DEF Whole
        <5> QED
          BY <1>3, <3>2, <4>1, <5>1
      <4>2. CASE ~ onDisk
        BY <3>2, <4>2
      <4> QED
        BY <4>1, <4>2
    <3> QED
      BY <1>5, <3>1, <3>2
  <2> QED
    BY <2>1, <2>2 DEF Saved, HasAssistant
<1> QED
  BY <1>4, <1>6, <1>7, <1>8 DEF IInv

\* A new session is empty.
LEMMA NewSessionSound ==
  ASSUME IInv, NEW p \in Procs, NewSession(p)
  PROVE  IInv'
<1> DEFINE new == made + 1
<1>0. TypeOK /\ BookInv
  BY DEF IInv
<1>1. made < MaxSessions /\ made' = new /\ Holds(p, new, {}, FALSE)
      /\ UNCHANGED <<entryVars, file, historyVars, faults>>
  BY DEF NewSession
<1>2. new \in Sessions /\ new > made
  BY <1>0, <1>1, BoundsAssumption DEF TypeOK, Sessions
<1>3. /\ file[new] = Absent /\ stored[new] = {}
      /\ parent[new] \in [Ids -> Ids \cup {None}] /\ lost[new] \in SUBSET Ids
  BY <1>0, <1>2 DEF TypeOK, BookInv
<1>4. MadeBy(p, {}, parent[new], lost[new], Absent, {}, FALSE)
  BY <1>0, <1>1, <1>3 DEF MadeBy, TypeOK, entryVars, historyVars
<1>5. /\ count' \in count .. MaxEntries /\ moves' \in 0 .. MaxMoves /\ faults' \in 0 .. MaxFaults
      /\ kind' \in [Ids -> AllKinds] /\ ref' \in [Ids -> Ids \cup {None}] /\ kind' = kind
  BY <1>0, <1>1, BoundsAssumption DEF TypeOK, entryVars, NewSession, Move
<1>6. Parented(parent[new], lost[new], {})
  BY DEF Parented
<1>7. Absent \in Files /\ Absent.ids = {}
  BY DEF Absent, Files
<1>8. {} \in SUBSET (1 .. count') /\ {} \in SUBSET Ids /\ FALSE \in BOOLEAN
  OBVIOUS
<1> HIDE DEF new
<1> QED
  BY <1>3, <1>4, <1>5, <1>6, <1>7, <1>8, MadeSound

\* A fork is a chain of the retained entries and their labels.
LEMMA ForkSound ==
  ASSUME IInv, NEW p \in Procs, NEW l \in Ids, Fork(p, l)
  PROVE  IInv'
<1> DEFINE s == session[p]
           ids == file[s].ids
           kept == {i \in Path(s, ids, l) : kind[i] \notin {"label", "unlabel"}}
           labelled == LabelsToWrite(ids, kept)
           n == Cardinality(labelled)
           fresh == (count + 1) .. (count + n)
           new == made + 1
           answered == HasAssistant(kept)
           all == kept \cup fresh
           par == Rechained(s, all)
<1>0. TypeOK /\ BookInv
  BY DEF IInv
<1>1. s # None /\ made < MaxSessions /\ count + n <= MaxEntries
      /\ made' = new /\ count' = count + n
      /\ kind' = [i \in Ids |-> IF i \in fresh THEN "label" ELSE kind[i]]
      /\ parent' = [parent EXCEPT ![new] = par]
      /\ UNCHANGED <<lost, unwritten>>
  BY DEF Fork
<1>2. PICK target \in [fresh -> labelled] :
         ref' = [i \in Ids |-> IF i \in fresh THEN target[i] ELSE ref[i]]
  BY DEF Fork
<1>3. \/ /\ Holds(p, new, all, answered)
         /\ file' = IF answered THEN [file EXCEPT ![new] = Whole(all)] ELSE file
         /\ stored' = IF answered THEN [stored EXCEPT ![new] = all] ELSE stored
         /\ UNCHANGED faults
      \/ /\ answered
         /\ Fault
         /\ \E f \in Partial(all) : file' = [file EXCEPT ![new] = f]
         /\ UNCHANGED <<procVars, stored>>
  BY DEF Fork
<1>4. s \in Sessions
  BY <1>0, <1>1, BoundsAssumption DEF TypeOK, Sessions, None
<1>5. ids \subseteq 1 .. count /\ count \in 0 .. MaxEntries /\ made \in 0 .. MaxSessions
  BY <1>0, <1>4 DEF TypeOK, BookInv
<1>6. kept \subseteq ids
  BY PathWithin
<1>7. labelled \subseteq kept
  BY DEF LabelsToWrite
<1>8. n \in Nat
  <2>1. ids \in SUBSET Ids
    BY <1>5, BoundsAssumption DEF Ids
  <2> HIDE DEF kept, ids
  <2> QED
    BY <2>1, LabelsFinite, BoundsAssumption
<1>x. answered \in BOOLEAN
  BY DEF HasAssistant
<1> HIDE DEF s, ids, kept, labelled, n, answered
<1>9. /\ all \in SUBSET (1 .. count') /\ 1 .. count' \subseteq Ids /\ all \in SUBSET Ids
      /\ fresh \cap 1 .. count = {} /\ fresh \subseteq Ids
      /\ count' \in count .. MaxEntries /\ kept \subseteq Ids /\ labelled \subseteq Ids
      /\ new \in Sessions /\ new > made /\ new # s /\ s <= made
  <2>1. s <= made
    BY <1>0 DEF TypeOK, s
  <2> QED
    BY <1>1, <1>4, <1>5, <1>6, <1>7, <1>8, <2>1, BoundsAssumption DEF Ids, Sessions
<1> HIDE DEF fresh
<1>10. /\ file[new] = Absent /\ stored[new] = {} /\ lost[new] \in SUBSET Ids
       /\ file \in [Sessions -> Files] /\ stored \in [Sessions -> SUBSET Ids]
       /\ lost \in [Sessions -> SUBSET Ids] /\ faults \in 0 .. MaxFaults
       /\ kind \in [Ids -> AllKinds] /\ ref \in [Ids -> Ids \cup {None}]
  BY <1>0, <1>9 DEF TypeOK, BookInv
<1>11. /\ kind' \in [Ids -> AllKinds] /\ ref' \in [Ids -> Ids \cup {None}]
       /\ \A i \in 1 .. count : kind'[i] = kind[i]
       /\ \A i \in fresh : kind'[i] = "label"
       /\ \A i \in kept : kind'[i] = kind[i]
  <2>1. "label" \in AllKinds
    BY DEF AllKinds
  <2>2. 1 .. count \subseteq Ids /\ kept \subseteq 1 .. count
    BY <1>5, <1>6, BoundsAssumption DEF Ids
  <2> QED
    BY <1>1, <1>2, <1>9, <1>10, <2>1, <2>2
<1>12. par \in [Ids -> Ids \cup {None}]
  <2>1. \A i \in Ids : par[i] \in Ids \cup {None}
    <3>1. \A i \in all : par[i] \in Ids \cup {None}
      BY <1>9, RechainedSound
    <3>2. \A i \in Ids \ all : par[i] = None
      BY DEF Rechained
    <3> QED
      BY <3>1, <3>2
  <2>2. par = [i \in Ids |-> par[i]]
    BY DEF Rechained
  <2> QED
    BY <2>1, <2>2
<1>13. Parented(par, lost[new], all)
  <2>1. \A i \in all : par[i] = None \/ (par[i] < i /\ par[i] \in all)
    BY <1>9, RechainedSound
  <2> QED
    BY <2>1 DEF Parented
<1>14. lost' = [lost EXCEPT ![new] = lost[new]] /\ unwritten' = unwritten
  BY <1>1, <1>10
<1>15. moves' \in 0 .. MaxMoves
  BY <1>0, BoundsAssumption DEF TypeOK, Fork, Move
<1>16. Whole(all) \in Files /\ Whole(all).ids = all /\ Whole(all).state = "valid"
  BY <1>9 DEF Whole, Files
<1>17. Absent \in Files /\ Absent.ids = {}
  BY DEF Absent, Files
<1> HIDE DEF all, par, new
<1>18. CASE Holds(p, new, all, answered) /\ answered /\ UNCHANGED faults
            /\ file' = [file EXCEPT ![new] = Whole(all)] /\ stored' = [stored EXCEPT ![new] = all]
  <2>1. MadeBy(p, all, par, lost[new], Whole(all), all, TRUE)
    BY <1>1, <1>14, <1>18 DEF MadeBy, new
  <2>2. faults' \in 0 .. MaxFaults
    BY <1>10, <1>18
  <2> QED
    BY <1>9, <1>10, <1>11, <1>12, <1>13, <1>15, <1>16, <2>1, <2>2, MadeSound
<1>19. CASE Holds(p, new, all, answered) /\ ~ answered /\ UNCHANGED <<faults, file, stored>>
  <2>1. file' = [file EXCEPT ![new] = Absent] /\ stored' = [stored EXCEPT ![new] = {}]
    BY <1>10, <1>19
  <2>2. MadeBy(p, all, par, lost[new], Absent, {}, FALSE)
    BY <1>1, <1>14, <1>19, <1>x, <2>1 DEF MadeBy, new
  <2>3. \A i \in all : kind'[i] # "assistant"
    BY <1>11, <1>19 DEF all, HasAssistant, answered
  <2>4. Parented(par, lost[new], {})
    BY DEF Parented
  <2>5. faults' \in 0 .. MaxFaults /\ {} \in SUBSET Ids
    BY <1>10, <1>19
  <2> DEFINE none == {}
  <2>6. /\ MadeBy(p, all, par, lost[new], Absent, none, FALSE)
        /\ none \in SUBSET Ids /\ none \subseteq Absent.ids /\ Absent.ids \subseteq all
        /\ Parented(par, lost[new], Absent.ids)
    BY <1>17, <2>2, <2>4, <2>5
  <2> HIDE DEF none
  <2> QED
    BY <1>9, <1>10, <1>11, <1>12, <1>13, <1>15, <1>17, <2>3, <2>5, <2>6, MadeSound
<1>20. ASSUME NEW f \in Partial(all), file' = [file EXCEPT ![new] = f], Fault,
              UNCHANGED <<procVars, stored>>
       PROVE  IInv'
  <2>1. stored' = [stored EXCEPT ![new] = {}]
    BY <1>10, <1>20
  <2>2. MadeBy(p, all, par, lost[new], f, {}, TRUE)
    BY <1>1, <1>14, <1>20, <2>1 DEF MadeBy, new
  <2>3. faults' \in 0 .. MaxFaults
    BY <1>10, <1>20, BoundsAssumption DEF Fault
  <2>4. f \in Files /\ f.ids \subseteq all /\ (f.state # "valid" => f.ids = {})
        /\ Parented(par, lost[new], f.ids)
    BY <1>9, <1>13, PartialType, PartialSound
  <2>5. ~ Holds(p, new, all, TRUE)
    <3>1. session'[p] = session[p]
      BY <1>20 DEF procVars
    <3>2. session \in [Procs -> 0 .. made]
      BY <1>0 DEF TypeOK
    <3> QED
      BY <1>9, <3>1, <3>2 DEF Holds, s
  <2> DEFINE none == {}
  <2>6. /\ MadeBy(p, all, par, lost[new], f, none, TRUE)
        /\ none \in SUBSET Ids /\ none \subseteq f.ids
    BY <2>2
  <2> HIDE DEF none
  <2> QED
    BY <1>9, <1>10, <1>11, <1>12, <1>13, <1>15, <2>3, <2>4, <2>5, <2>6, MadeSound DEF new
<1> QED
  BY <1>3, <1>x, <1>18, <1>19, <1>20

\* A copy of a whole session has its parents, and what it lost.
LEMMA ForkFromSound ==
  ASSUME IInv, NEW p \in Procs, NEW s \in Sessions, ForkFrom(p, s)
  PROVE  IInv'
<1> DEFINE new == made + 1
           ids == file[s].ids
<1>0. TypeOK /\ BookInv /\ TreeSound
  BY DEF IInv
<1>1. /\ s <= made /\ made < MaxSessions /\ made' = new /\ file[s].state = "valid"
      /\ parent' = [parent EXCEPT ![new] = parent[s]]
      /\ lost' = [lost EXCEPT ![new] = lost[s]]
      /\ UNCHANGED <<kind, ref, count, unwritten>>
  BY DEF ForkFrom
<1>2. \/ /\ Holds(p, new, ids, TRUE) /\ UNCHANGED faults
         /\ file' = [file EXCEPT ![new] = Whole(ids)] /\ stored' = [stored EXCEPT ![new] = ids]
      \/ /\ Fault /\ UNCHANGED <<procVars, stored>>
         /\ \E f \in Partial(ids) : file' = [file EXCEPT ![new] = f]
  BY DEF ForkFrom
<1>3. /\ new \in Sessions /\ new > made /\ ids \in SUBSET (1 .. count') /\ 1 .. count' \subseteq Ids
      /\ ids \in SUBSET Ids /\ new \notin 0 .. made
  BY <1>0, <1>1, BoundsAssumption DEF TypeOK, BookInv, Sessions, Ids
<1>4. /\ count' \in count .. MaxEntries /\ moves' \in 0 .. MaxMoves /\ faults \in 0 .. MaxFaults
      /\ kind' \in [Ids -> AllKinds] /\ ref' \in [Ids -> Ids \cup {None}] /\ kind' = kind
      /\ parent[s] \in [Ids -> Ids \cup {None}] /\ lost[s] \in SUBSET Ids
      /\ stored \in [Sessions -> SUBSET Ids] /\ session \in [Procs -> 0 .. made]
  BY <1>0, <1>1, BoundsAssumption DEF TypeOK, ForkFrom, Move
<1>5. stored[new] = {} /\ Parented(parent[s], lost[s], ids)
  BY <1>0, <1>3 DEF BookInv, TreeSound
<1>6. Whole(ids) \in Files /\ Whole(ids).ids = ids /\ Whole(ids).state = "valid"
  BY <1>3 DEF Whole, Files
<1> HIDE DEF ids, new
<1>7. CASE Holds(p, new, ids, TRUE) /\ UNCHANGED faults
           /\ file' = [file EXCEPT ![new] = Whole(ids)] /\ stored' = [stored EXCEPT ![new] = ids]
  <2>1. MadeBy(p, ids, parent[s], lost[s], Whole(ids), ids, TRUE)
    BY <1>1, <1>7 DEF MadeBy, new
  <2>2. faults' \in 0 .. MaxFaults
    BY <1>4, <1>7
  <2> QED
    BY <1>3, <1>4, <1>5, <1>6, <2>1, <2>2, MadeSound
<1>8. ASSUME NEW f \in Partial(ids), file' = [file EXCEPT ![new] = f], Fault,
             UNCHANGED <<procVars, stored>>
      PROVE  IInv'
  <2> DEFINE none == {}
  <2>1. stored' = [stored EXCEPT ![new] = none]
    BY <1>3, <1>4, <1>5, <1>8
  <2>2. /\ MadeBy(p, ids, parent[s], lost[s], f, none, TRUE)
        /\ none \in SUBSET Ids /\ none \subseteq f.ids
    BY <1>1, <1>8, <2>1 DEF MadeBy, new
  <2>3. faults' \in 0 .. MaxFaults
    BY <1>4, <1>8, BoundsAssumption DEF Fault
  <2>4. f \in Files /\ f.ids \subseteq ids /\ (f.state # "valid" => f.ids = {})
        /\ Parented(parent[s], lost[s], f.ids)
    BY <1>3, <1>5, PartialType, PartialSound
  <2>5. ~ Holds(p, new, ids, TRUE)
    <3>1. session'[p] = session[p] /\ session[p] \in 0 .. made
      BY <1>4, <1>8 DEF procVars
    <3>2. Holds(p, new, ids, TRUE) => session'[p] = new
      BY <1>4 DEF Holds
    <3> QED
      BY <1>3, <3>1, <3>2
  <2> HIDE DEF none
  <2> QED
    BY <1>3, <1>4, <1>5, <2>2, <2>3, <2>4, <2>5, MadeSound DEF new
<1> QED
  BY <1>2, <1>7, <1>8

\* Opening a session, or closing one, changes no entry.
LEMMA HoldsSound ==
  ASSUME IInv, NEW p \in Procs, NEW s \in 0 .. made, NEW onDisk \in BOOLEAN,
         NEW ids, ids = IF s = None THEN {} ELSE file[s].ids,
         Holds(p, s, ids, onDisk),
         s # None => onDisk = (file'[s].state # "absent"),
         s = None => UNCHANGED file,
         s # None => file' = IF file[s].state = "invalid"
                             THEN [file EXCEPT ![s] = Whole({})] ELSE file,
         UNCHANGED <<entryVars, made, historyVars, faults>>, moves' \in 0 .. MaxMoves
  PROVE  IInv'
<1>0. TypeOK /\ BookInv /\ TreeSound /\ Saved
  BY DEF IInv
<1>1. UNCHANGED <<kind, ref, parent, count, made, stored, lost, unwritten, faults>>
  BY DEF entryVars, historyVars
<1>2. /\ s # None => s \in Sessions
      /\ \A q \in Procs : session[q] # None => session[q] \in Sessions
      /\ 1 .. count \subseteq Ids /\ ids \subseteq 1 .. count
  BY <1>0, BoundsAssumption DEF TypeOK, Sessions, None, Ids, BookInv
<1>3. /\ Whole({}) \in Files /\ Whole({}).ids = {} /\ Whole({}).state = "valid"
      /\ Whole({}) # Absent
  BY DEF Whole, Files, Absent
<1>4. /\ file' \in [Sessions -> Files]
      /\ \A t \in Sessions : /\ file'[t].ids = file[t].ids
                             /\ file'[t] = file[t] \/ (file[t].state = "invalid" /\ file'[t].state = "valid")
                             /\ t = s => file'[t].state # "invalid"
  <2>1. file \in [Sessions -> Files] /\ None \notin Sessions
    BY <1>0 DEF TypeOK, Sessions, None
  <2>2. CASE UNCHANGED file /\ (s # None => file[s].state # "invalid")
    BY <2>1, <2>2
  <2>3. CASE /\ s # None /\ file[s].state = "invalid"
             /\ file' = [file EXCEPT ![s] = Whole({})]
    <3>1. file[s].ids = {}
      BY <1>0, <1>2, <2>3 DEF BookInv
    <3> QED
      BY <1>2, <1>3, <2>1, <2>3, <3>1
  <2> QED
    BY <2>2, <2>3
<1>5. /\ session' \in [Procs -> 0 .. made] /\ mem' \in [Procs -> SUBSET (1 .. count)]
      /\ leaf' \in [Procs -> Ids \cup {None}] /\ flushed' \in [Procs -> BOOLEAN]
  <2>1. Latest(ids) \in Ids \cup {None}
    BY <1>2, LatestWithin
  <2> QED
    BY <1>0, <1>2, <2>1 DEF Holds, TypeOK
<1>6. \A q \in Procs :
        IF q = p THEN session'[q] = s /\ mem'[q] = ids /\ leaf'[q] = Latest(ids) /\ flushed'[q] = onDisk
        ELSE session'[q] = session[q] /\ mem'[q] = mem[q] /\ leaf'[q] = leaf[q] /\ flushed'[q] = flushed[q]
  BY <1>0 DEF Holds, TypeOK
<1>7. TypeOK'
  BY <1>0, <1>1, <1>4, <1>5 DEF TypeOK
<1>8. BookInv'
  <2>1. ASSUME NEW q \in Procs, session'[q] # None, flushed'[q]
        PROVE  file'[session'[q]].state = "valid"
    <3>1. CASE q = p
      <4>1. s \in Sessions /\ session'[q] = s /\ onDisk /\ file'[s].state # "absent"
        BY <1>2, <1>6, <2>1, <3>1
      <4> QED
        BY <1>4, <4>1 DEF Files
    <3>2. CASE q # p
      BY <1>0, <1>2, <1>4, <1>6, <2>1, <3>2 DEF BookInv
    <3> QED
      BY <3>1, <3>2
  <2>2. \A t \in Sessions : t > made' => file'[t] = Absent /\ stored'[t] = {}
    BY <1>0, <1>1, <1>4 DEF BookInv, Absent
  <2>3. \A t \in Sessions : file'[t].ids \subseteq 1 .. count'
    BY <1>0, <1>1, <1>4 DEF BookInv
  <2>4. \A t \in Sessions : file'[t].state # "valid" => file'[t].ids = {}
    BY <1>0, <1>1, <1>4 DEF BookInv
  <2> QED
    BY <2>1, <2>2, <2>3, <2>4 DEF BookInv
<1>9. TreeSound'
  <2>1. \A t \in Sessions : Parented(parent'[t], lost'[t], file'[t].ids)
    BY <1>0, <1>1, <1>4 DEF TreeSound
  <2>2. ASSUME NEW q \in Procs, session'[q] # None
        PROVE  /\ Parented(parent'[session'[q]], lost'[session'[q]], mem'[q])
               /\ leaf'[q] \in mem'[q] \cup {None}
    <3>1. CASE q = p
      BY <1>0, <1>1, <1>2, <1>6, <2>2, <3>1, LatestWithin DEF TreeSound
    <3>2. CASE q # p
      BY <1>0, <1>1, <1>6, <2>2, <3>2 DEF TreeSound
    <3> QED
      BY <3>1, <3>2
  <2> QED
    BY <2>1, <2>2 DEF TreeSound
<1>10. Saved'
  <2>1. \A t \in Sessions : stored'[t] \subseteq file'[t].ids
    BY <1>0, <1>1, <1>4 DEF Saved
  <2>2. ASSUME NEW q \in Procs, session'[q] # None
        PROVE  IF flushed'[q] THEN mem'[q] \subseteq file'[session'[q]].ids \cup lost'[session'[q]]
               ELSE (\E i \in mem'[q] : kind'[i] = "assistant") => session'[q] \in unwritten'
    <3>1. CASE q = p
      <4>1. s \in Sessions /\ session'[q] = s /\ mem'[q] = file[s].ids /\ flushed'[q] = onDisk
        BY <1>2, <1>6, <2>2, <3>1
      <4>2. ~ onDisk => file[s].ids = {}
        BY <1>0, <1>4, <4>1, <2>2 DEF BookInv
      <4> QED
        BY <1>4, <4>1, <4>2
    <3>2. CASE q # p
      <4>1. IF flushed[q] THEN mem[q] \subseteq file[session[q]].ids \cup lost[session[q]]
            ELSE (\E i \in mem[q] : kind[i] = "assistant") => session[q] \in unwritten
        BY <1>0, <1>6, <2>2, <3>2 DEF Saved, HasAssistant
      <4>2. session[q] \in Sessions
        BY <1>2, <1>6, <2>2, <3>2
      <4> QED
        BY <1>1, <1>4, <1>6, <3>2, <4>1, <4>2
    <3> QED
      BY <3>1, <3>2
  <2> QED
    BY <2>1, <2>2 DEF Saved, HasAssistant
<1> QED
  BY <1>7, <1>8, <1>9, <1>10 DEF IInv

-----------------------------------------------------------------------------
(* The theorems.                                                           *)

\* The leaf moves within the entries of the process.
LEMMA BranchSound ==
  ASSUME IInv, NEW p \in Procs, NEW to \in Ids \cup {None}, Branch(p, to)
  PROVE  IInv'
<1>0. TypeOK /\ BookInv /\ TreeSound /\ Saved
  BY DEF IInv
<1>1. /\ UNCHANGED <<kind, ref, parent, count, made, file, session, mem, flushed,
                      stored, lost, unwritten, faults>>
      /\ moves' \in 0 .. MaxMoves /\ to \in mem[p] \cup {None}
      /\ leaf' = [leaf EXCEPT ![p] = to]
  BY <1>0, BoundsAssumption DEF Branch, Move, entryVars, historyVars, TypeOK
<1>2. TypeOK'
  BY <1>0, <1>1 DEF TypeOK
<1>3. BookInv'
  BY <1>0, <1>1 DEF BookInv
<1>4. TreeSound'
  BY <1>0, <1>1 DEF TreeSound, TypeOK
<1>5. Saved'
  BY <1>0, <1>1 DEF Saved, HasAssistant
<1> QED
  BY <1>2, <1>3, <1>4, <1>5 DEF IInv

\* Every step keeps the invariant.
LEMMA StepKeepsIInv == IInv /\ [Next]_vars => IInv'
<1> SUFFICES ASSUME IInv, [Next]_vars PROVE IInv'
  OBVIOUS
<1>0. TypeOK /\ BookInv /\ TreeSound /\ Saved
  BY DEF IInv
<1>1. moves \in 0 .. MaxMoves /\ (Move => moves' \in 0 .. MaxMoves)
  BY <1>0, BoundsAssumption DEF TypeOK, Move
<1>2. \A p \in Procs : /\ session[p] # None => leaf[p] \in mem[p] \cup {None}
                       /\ mem[p] \subseteq Ids
                       /\ session[p] \in 0 .. made
  BY <1>0, BoundsAssumption DEF TreeSound, TypeOK, Ids
<1>3. ASSUME NEW p \in Procs, Append(p) PROVE IInv'
  <2>1. PICK k \in Kinds : AppendEntry(p, k, None, leaf[p])
    BY <1>3 DEF Append
  <2>2. k \in AllKinds /\ None \in Ids \cup {None}
    BY KindsAssumption DEF AllKinds, Content, Messages
  <2>3. leaf[p] \in mem[p] \cup {None}
    BY <1>2, <2>1 DEF AppendEntry
  <2>4. moves' \in 0 .. MaxMoves
    BY <1>1, <1>3 DEF Append
  <2> QED
    BY <2>1, <2>2, <2>3, <2>4, AppendSound
<1>4. ASSUME NEW p \in Procs, AppendCompaction(p) PROVE IInv'
  <2> DEFINE path == Path(session[p], mem[p], leaf[p])
  <2>1. PICK k \in FirstKept(path) : AppendEntry(p, "compaction", k, leaf[p])
    BY <1>4 DEF AppendCompaction
  <2>2. path \subseteq mem[p]
    BY PathWithin
  <2> HIDE DEF path
  <2>3. FirstKept(path) \subseteq path
    BY DEF FirstKept
  <2>4. k \in Ids \cup {None} /\ "compaction" \in AllKinds
    BY <1>2, <2>2, <2>3 DEF AllKinds
  <2>5. leaf[p] \in mem[p] \cup {None}
    BY <1>2, <2>1 DEF AppendEntry
  <2>6. moves' \in 0 .. MaxMoves
    BY <1>1, <1>4 DEF AppendCompaction
  <2> QED
    BY <2>1, <2>4, <2>5, <2>6, AppendSound
<1>5. ASSUME NEW p \in Procs, NEW i \in Ids, AppendLabelChange(p, i) PROVE IInv'
  <2>1. PICK k \in {"label", "unlabel"} : AppendEntry(p, k, i, leaf[p])
    BY <1>5 DEF AppendLabelChange
  <2>2. k \in AllKinds /\ i \in Ids \cup {None}
    BY DEF AllKinds
  <2>3. leaf[p] \in mem[p] \cup {None}
    BY <1>2, <2>1 DEF AppendEntry
  <2>4. moves' \in 0 .. MaxMoves
    BY <1>1, <1>5 DEF AppendLabelChange
  <2> QED
    BY <2>1, <2>2, <2>3, <2>4, AppendSound
<1>6. ASSUME NEW p \in Procs, NEW i \in Ids \cup {None}, BranchWithSummary(p, i) PROVE IInv'
  <2>1. /\ AppendEntry(p, "summary", None, i) /\ i \in mem[p] \cup {None}
        /\ moves' \in 0 .. MaxMoves
    BY <1>1, <1>6 DEF BranchWithSummary
  <2>2. "summary" \in AllKinds /\ None \in Ids \cup {None}
    BY DEF AllKinds, Content
  <2> QED
    BY <2>1, <2>2, AppendSound
<1>7. ASSUME NEW p \in Procs, NEW s \in Sessions, Open(p, s) PROVE IInv'
  <2>1. /\ s \in 0 .. made /\ s # None /\ moves' \in 0 .. MaxMoves
        /\ Holds(p, s, file[s].ids, file[s].state # "absent")
        /\ file' = IF file[s].state = "invalid" THEN [file EXCEPT ![s] = Whole({})] ELSE file
        /\ UNCHANGED <<entryVars, made, historyVars, faults>>
    BY <1>0, <1>1, <1>7, BoundsAssumption DEF Open, Sessions, None, TypeOK
  <2>2. (file[s].state # "absent") = (file'[s].state # "absent")
    BY <1>0, <2>1 DEF TypeOK, Whole
  <2>3. Holds(p, s, file[s].ids, file'[s].state # "absent")
    BY <2>1, <2>2
  <2> DEFINE onDisk == file'[s].state # "absent"
             ids == file[s].ids
  <2>4. /\ onDisk \in BOOLEAN /\ ids = (IF s = None THEN {} ELSE file[s].ids)
        /\ Holds(p, s, ids, onDisk) /\ onDisk = (file'[s].state # "absent")
    BY <2>1, <2>3
  <2> HIDE DEF onDisk, ids
  <2> QED
    BY <2>1, <2>4, HoldsSound
<1>8. ASSUME NEW p \in Procs, Close(p) PROVE IInv'
  <2> DEFINE ids == {}
             s == None
             onDisk == FALSE
  <2>1. Holds(p, s, ids, onDisk) /\ UNCHANGED <<entryVars, made, file, historyVars, faults>>
    BY <1>8 DEF Close
  <2>2. s \in 0 .. made /\ moves' \in 0 .. MaxMoves
    BY <1>0, <1>1, <1>8, BoundsAssumption DEF Close, None, TypeOK
  <2>3. /\ s = None /\ onDisk \in BOOLEAN /\ UNCHANGED file
        /\ ids = IF s = None THEN {} ELSE file[s].ids
        /\ s # None => onDisk = (file'[s].state # "absent")
        /\ s # None => file' = IF file[s].state = "invalid"
                               THEN [file EXCEPT ![s] = Whole({})] ELSE file
    BY <2>1
  <2>4. UNCHANGED <<entryVars, made, historyVars, faults>>
    BY <2>1
  <2> HIDE DEF ids, s, onDisk
  <2> QED
    BY <2>1, <2>2, <2>3, <2>4, HoldsSound
<1>9. CASE UNCHANGED vars
  <2>1. UNCHANGED <<kind, ref, parent, count, made, file, session, mem, leaf, flushed,
                     stored, lost, unwritten, moves, faults>>
    BY <1>9 DEF vars, entryVars, procVars, historyVars
  <2> QED
    <3>1. TypeOK'
      BY <1>0, <2>1 DEF TypeOK
    <3>2. BookInv'
      BY <1>0, <2>1 DEF BookInv
    <3>3. TreeSound'
      BY <1>0, <2>1 DEF TreeSound
    <3>4. Saved'
      BY <1>0, <2>1 DEF Saved, HasAssistant
    <3> QED
      BY <3>1, <3>2, <3>3, <3>4 DEF IInv
<1> QED
  BY <1>3, <1>4, <1>5, <1>6, <1>7, <1>8, <1>9, BranchSound, NewSessionSound, ForkSound,
     ForkFromSound DEF Next

\* Whatever processes, faults and forks there are, every file and every memory is
\* a sound tree, and what was written can be loaded.
LEMMA IInvHolds == Spec => []IInv
<1> QED
  BY InitEstablishesIInv, StepKeepsIInv, PTL DEF Spec

\* The variables keep their types.
THEOREM TypeCorrect == Spec => []TypeOK
<1>1. IInv => TypeOK
  BY DEF IInv
<1> QED
  BY <1>1, IInvHolds, PTL

\* No branch is ever cut short but at an entry whose write failed.
THEOREM TreesAreSound == Spec => []TreeSound
<1>1. IInv => TreeSound
  BY DEF IInv
<1> QED
  BY <1>1, IInvHolds, PTL

\* What was written can be loaded for ever after.
THEOREM EntriesAreSaved == Spec => []Saved
<1>1. IInv => Saved
  BY DEF IInv
<1> QED
  BY <1>1, IInvHolds, PTL


-----------------------------------------------------------------------------
(* Paths.                                                                  *)

\* Every set of numbers that is not empty has a least one.
LEMMA Least ==
  ASSUME NEW T \in SUBSET Nat, T # {}
  PROVE  \E n \in T : \A m \in T : n <= m
<1>1. PICK n \in T : \A m \in T : ~ (<<m, n>> \in OpToRel(<, Nat))
  BY WFMin, NatLessThanWellFounded
<1>2. \A m \in T : ~ (m < n)
  BY <1>1 DEF OpToRel
<1> QED BY <1>2

\* Entries are numbers from one on.
LEMMA IdsNumbers ==
  /\ MaxEntries \in Nat /\ 0 \notin Ids /\ Ids \subseteq Nat /\ Ids \subseteq 0 .. MaxEntries
  /\ \A i \in Ids : MaxEntries - i \in Nat
BY BoundsAssumption DEF Ids

\* Every set of entries that is not empty has a latest one.
LEMMA LatestIsMax ==
  ASSUME NEW S \in SUBSET Ids
  PROVE  \/ S = {} /\ Latest(S) = None
         \/ Latest(S) \in S /\ \A j \in S : j <= Latest(S)
<1>1. CASE S = {}
  BY <1>1 DEF Latest
<1>2. CASE S # {}
  <2> DEFINE T == {MaxEntries - i : i \in S}
  <2>1. T \in SUBSET Nat /\ T # {}
    <3>1. \A i \in S : MaxEntries - i \in Nat
      BY IdsNumbers
    <3> QED BY <1>2, <3>1
  <2>2. PICK n \in T : \A m \in T : n <= m
    BY <2>1, Least
  <2>3. PICK i \in S : n = MaxEntries - i
    BY <2>2
  <2>4. \A j \in S : j <= i
    <3> SUFFICES ASSUME NEW j \in S PROVE j <= i
      OBVIOUS
    <3>1. MaxEntries - i <= MaxEntries - j
      BY <2>2, <2>3
    <3> QED BY <3>1, IdsNumbers
  <2> QED BY <2>4 DEF Latest
<1> QED BY <1>1, <1>2

\* The entries above an entry, as getBranch() walks them.
Above(par, ids) ==
  CHOOSE up : up = [i \in 0 .. MaxEntries |-> IF i \in ids THEN {i} \cup up[par[i]] ELSE {}]

\* The walk ends, where parents come before their children.
LEMMA WalkEnds ==
  ASSUME NEW ids \in SUBSET Ids, NEW par, \A i \in ids : par[i] \in 0 .. i - 1
  PROVE  Above(par, ids) =
           [i \in 0 .. MaxEntries |-> IF i \in ids THEN {i} \cup Above(par, ids)[par[i]] ELSE {}]
<1> DEFINE Walk(f, n) == f = [i \in 0 .. n |-> IF i \in ids THEN {i} \cup f[par[i]] ELSE {}]
           T == {n \in 0 .. MaxEntries : ~ \E f : Walk(f, n)}
<1>1. T = {}
  <2> SUFFICES ASSUME T # {} PROVE FALSE
    OBVIOUS
  <2>0. T \in SUBSET Nat
    OBVIOUS
  <2> HIDE DEF T
  <2>1. PICK n \in T : \A m \in T : n <= m
    BY <2>0, Least
  <2> USE DEF T
  <2>2. n \in 0 .. MaxEntries /\ ~ \E f : Walk(f, n)
    BY <2>1
  <2>3. CASE n = 0
    <3> DEFINE f == [i \in 0 .. 0 |-> {}]
    <3>1. Walk(f, 0)
      BY DEF Ids
    <3> QED BY <2>2, <2>3, <3>1
  <2>4. CASE n > 0
    <3>1. n - 1 \in 0 .. MaxEntries /\ ~ (n <= n - 1)
      BY <2>2, <2>4, IdsNumbers
    <3> HIDE DEF T
    <3>2. n - 1 \notin T
      BY <2>1, <3>1
    <3> USE DEF T
    <3>w. PICK f : Walk(f, n - 1)
      BY <3>1, <3>2, Zenon
    <3> DEFINE e == IF n \in ids THEN {n} \cup f[par[n]] ELSE {}
               g == [i \in 0 .. n |-> IF i = n THEN e ELSE f[i]]
    <3>3. \A i \in 0 .. n - 1 : g[i] = f[i]
      BY <2>2
    <3>4. \A i \in 0 .. n : g[i] = IF i \in ids THEN {i} \cup g[par[i]] ELSE {}
      <4> SUFFICES ASSUME NEW i \in 0 .. n PROVE g[i] = IF i \in ids THEN {i} \cup g[par[i]] ELSE {}
        OBVIOUS
      <4>1. i \in ids => par[i] \in 0 .. n - 1
        BY <2>2, <2>4
      <4>2. CASE i = n
        BY <3>3, <4>1, <4>2
      <4>3. CASE i \in 0 .. n - 1
        <5>1. f[i] = IF i \in ids THEN {i} \cup f[par[i]] ELSE {}
          BY <3>w, <4>3
        <5> QED BY <3>3, <4>1, <4>3, <5>1
      <4> QED BY <2>2, <4>2, <4>3
    <3>5. Walk(g, n)
      BY <3>4
    <3> QED BY <2>2, <3>5
  <2> QED BY <2>2, <2>3, <2>4
<1>2. \E f : Walk(f, MaxEntries)
  <2> HIDE DEF T
  <2>1. MaxEntries \in 0 .. MaxEntries /\ MaxEntries \notin T
    BY <1>1, IdsNumbers
  <2> USE DEF T
  <2> QED BY <2>1, Zenon
<1> QED BY <1>2 DEF Above

\* In a chain, above an entry are all that come before it.
LEMMA ChainAbove ==
  ASSUME NEW ids \in SUBSET Ids, NEW par,
         \A i \in ids : par[i] = Latest({j \in ids : j < i})
  PROVE  \A l \in ids : Above(par, ids)[l] = {i \in ids : i <= l}
<1> DEFINE up == Above(par, ids)
           T == {l \in ids : up[l] # {i \in ids : i <= l}}
<1>1. ASSUME NEW i \in ids
      PROVE  \/ par[i] = 0 /\ {j \in ids : j < i} = {}
             \/ par[i] \in ids /\ par[i] < i /\ \A j \in ids : j < i => j <= par[i]
  <2>1. {j \in ids : j < i} \in SUBSET Ids
    OBVIOUS
  <2> QED BY <2>1, LatestIsMax DEF None
<1>2. ids \subseteq Nat /\ 0 \notin ids /\ ids \subseteq 0 .. MaxEntries /\ 0 \in 0 .. MaxEntries
  BY IdsNumbers
<1>3. \A i \in ids : par[i] \in 0 .. i - 1
  <2> SUFFICES ASSUME NEW i \in ids PROVE par[i] \in 0 .. i - 1
    OBVIOUS
  <2>1. i \in Nat /\ i # 0
    BY <1>2
  <2>2. par[i] = 0 \/ (par[i] \in Nat /\ par[i] < i)
    BY <1>1, <1>2
  <2> QED BY <2>1, <2>2
<1>4. up = [i \in 0 .. MaxEntries |-> IF i \in ids THEN {i} \cup up[par[i]] ELSE {}]
  BY <1>3, WalkEnds
<1> HIDE DEF up
<1>5. \A i \in 0 .. MaxEntries : up[i] = IF i \in ids THEN {i} \cup up[par[i]] ELSE {}
  BY <1>4
<1>6. up[0] = {}
  BY <1>2, <1>5
<1>7. ASSUME T # {} PROVE FALSE
  <2>0. T \in SUBSET Nat
    BY <1>2
  <2> HIDE DEF T
  <2>1. PICK l \in T : \A m \in T : l <= m
    BY <1>7, <2>0, Least
  <2>2. \A m \in Nat : m < l => m \notin T
    BY <2>0, <2>1
  <2> USE DEF T
  <2>3. l \in ids /\ up[l] # {i \in ids : i <= l}
    BY <2>1
  <2>4. up[l] = {l} \cup up[par[l]]
    BY <1>2, <1>5, <2>3
  <2>5. CASE par[l] = 0 /\ {j \in ids : j < l} = {}
    <3>1. \A i \in ids : i <= l => i = l
      BY <1>2, <2>3, <2>5
    <3>2. up[l] = {l}
      BY <1>6, <2>4, <2>5
    <3>3. l \in Nat /\ l <= l
      BY <1>2, <2>3
    <3>4. {i \in ids : i <= l} = {l}
      BY <2>3, <3>1, <3>3
    <3> QED BY <2>3, <3>2, <3>4
  <2>6. CASE par[l] \in ids /\ par[l] < l /\ \A j \in ids : j < l => j <= par[l]
    <3>1. up[par[l]] = {i \in ids : i <= par[l]}
      BY <1>2, <2>2, <2>6
    <3>2. ASSUME NEW i \in ids PROVE i <= l <=> i = l \/ i <= par[l]
      <4>1. i \in Nat /\ l \in Nat /\ par[l] \in Nat
        BY <1>2, <2>3, <2>6
      <4>2. i < l => i <= par[l]
        BY <2>6
      <4> QED BY <2>6, <4>1, <4>2
    <3>3. {i \in ids : i <= l} = {l} \cup {i \in ids : i <= par[l]}
      BY <2>3, <3>2
    <3> QED BY <2>3, <2>4, <3>1, <3>3
  <2> QED BY <1>1, <2>3, <2>5, <2>6
<1> QED BY <1>7 DEF up

\* A chain is one branch.
LEMMA ChainPath ==
  ASSUME NEW ids \in SUBSET Ids, NEW par,
         \A i \in ids : par[i] = Latest({j \in ids : j < i})
  PROVE  {i \in ids : i \in Above(par, ids)[Latest(ids)]} = ids
<1>1. CASE ids = {}
  BY <1>1
<1>2. CASE ids # {}
  <2>1. Latest(ids) \in ids /\ \A i \in ids : i <= Latest(ids)
    BY <1>2, LatestIsMax
  <2>2. \A l \in ids : Above(par, ids)[l] = {i \in ids : i <= l}
    BY ChainAbove
  <2> QED BY <2>1, <2>2
<1> QED BY <1>1, <1>2


-----------------------------------------------------------------------------
(* Forks keep the branch.                                                  *)

\* No entry refers to one that is not made yet.
RefInv == \A i \in Ids : ref[i] \in 0 .. count

\* Every step keeps it: labels and compactions refer to entries the process or
\* the file has.
LEMMA RefInductive == IInv /\ RefInv /\ [Next]_vars => RefInv'
<1> SUFFICES ASSUME IInv, RefInv, [Next]_vars PROVE RefInv'
  OBVIOUS
<1>0. /\ count \in Nat /\ ref \in [Ids -> Ids \cup {None}] /\ made \in Nat
      /\ mem \in [Procs -> SUBSET (1 .. count)] /\ session \in [Procs -> 0 .. made]
      /\ made <= MaxSessions
      /\ \A s \in Sessions : file[s].ids \subseteq 1 .. count
  BY BoundsAssumption DEF IInv, TypeOK, BookInv
<1>1. CASE UNCHANGED <<ref, count>>
  BY <1>1 DEF RefInv
<1>2. ASSUME NEW p \in Procs, NEW k, NEW r \in 0 .. count, NEW l, AppendEntry(p, k, r, l)
      PROVE  RefInv'
  <2>1. count' = count + 1 /\ ref' = [ref EXCEPT ![count + 1] = r]
    BY <1>2 DEF AppendEntry
  <2> QED BY <1>0, <2>1 DEF RefInv
<1>3. ASSUME NEW p \in Procs, Append(p) PROVE RefInv'
  <2>1. PICK k \in Kinds : AppendEntry(p, k, None, leaf[p])
    BY <1>3 DEF Append
  <2>2. None \in 0 .. count
    BY <1>0 DEF None
  <2> QED BY <1>2, <2>1, <2>2
<1>4. ASSUME NEW p \in Procs, AppendCompaction(p) PROVE RefInv'
  <2>1. PICK k \in FirstKept(Path(session[p], mem[p], leaf[p])) :
          AppendEntry(p, "compaction", k, leaf[p])
    BY <1>4 DEF AppendCompaction
  <2>2. k \in Path(session[p], mem[p], leaf[p])
    BY DEF FirstKept
  <2>3. k \in mem[p]
    BY <2>2, PathWithin
  <2>4. k \in 0 .. count
    BY <1>0, <2>3
  <2> QED BY <1>2, <2>1, <2>4
<1>5. ASSUME NEW p \in Procs, NEW t \in Ids, AppendLabelChange(p, t) PROVE RefInv'
  <2>1. t \in mem[p] /\ \E k \in {"label", "unlabel"} : AppendEntry(p, k, t, leaf[p])
    BY <1>5 DEF AppendLabelChange
  <2>2. t \in 0 .. count
    BY <1>0, <2>1
  <2> QED BY <1>2, <2>1, <2>2
<1>6. ASSUME NEW p \in Procs, NEW from, BranchWithSummary(p, from) PROVE RefInv'
  <2>1. AppendEntry(p, "summary", None, from)
    BY <1>6 DEF BranchWithSummary
  <2>2. None \in 0 .. count
    BY <1>0 DEF None
  <2> QED BY <1>2, <2>1, <2>2
<1>7. ASSUME NEW p \in Procs, NEW l \in Ids, Fork(p, l) PROVE RefInv'
  <2> DEFINE s == session[p]
             kept == {i \in Path(s, file[s].ids, l) : kind[i] \notin {"label", "unlabel"}}
             labelled == LabelsToWrite(file[s].ids, kept)
             n == Cardinality(labelled)
             fresh == (count + 1) .. (count + n)
  <2>1. PICK target \in [fresh -> labelled] :
          ref' = [i \in Ids |-> IF i \in fresh THEN target[i] ELSE ref[i]]
    BY <1>7 DEF Fork
  <2>2. s \in Sessions /\ count' = count + n
    <3>1. s # None /\ count' = count + n
      BY <1>7 DEF Fork
    <3>2. MaxSessions \in Nat
      BY BoundsAssumption
    <3>3. s \in 0 .. made
      BY <1>0
    <3> QED BY <1>0, <3>1, <3>2, <3>3 DEF Sessions, None
  <2>3. kept \subseteq file[s].ids /\ labelled \subseteq kept
    BY PathWithin DEF LabelsToWrite
  <2>4. labelled \subseteq 1 .. count
    BY <1>0, <2>2, <2>3
  <2>5. n \in Nat
    <3>1. labelled \subseteq 1 .. count /\ IsFiniteSet(1 .. count)
      BY <1>0, <2>4, FS_Interval
    <3> QED BY <3>1, FS_Subset, FS_CardinalityType
  <2> HIDE DEF n, labelled
  <2> HIDE DEF fresh
  <2>6. ASSUME NEW i \in Ids PROVE ref'[i] \in 0 .. count
    <3>1. CASE i \in fresh
      <4>1. ref'[i] \in labelled
        BY <2>1, <3>1
      <4>2. \A j \in 1 .. count : j \in 0 .. count
        BY <1>0
      <4> QED BY <2>4, <4>1, <4>2
    <3>2. CASE i \notin fresh
      <4>1. ref'[i] = ref[i]
        BY <2>1, <3>2
      <4> QED BY <4>1 DEF RefInv
    <3> QED BY <3>1, <3>2
  <2> QED BY <1>0, <2>2, <2>5, <2>6 DEF RefInv
<1>8. ASSUME NEW p \in Procs,
             \/ NewSession(p) \/ Close(p)
             \/ \E s \in Sessions : Open(p, s) \/ ForkFrom(p, s)
             \/ \E i \in Ids \cup {None} : Branch(p, i)
      PROVE  RefInv'
  BY <1>1, <1>8 DEF NewSession, Close, Open, ForkFrom, Branch, entryVars
<1>9. CASE UNCHANGED vars
  BY <1>1, <1>9 DEF vars, entryVars
<1> QED BY <1>3, <1>4, <1>5, <1>6, <1>7, <1>8, <1>9 DEF Next

LEMMA RefHolds == Spec => [](IInv /\ RefInv)
<1>1. Init => RefInv
  BY BoundsAssumption DEF Init, RefInv, None
<1> QED BY <1>1, IInvHolds, RefInductive, PTL DEF Spec

\* What a fork makes: a chain of the entries kept and new labels behind them.
LEMMA ForkMakes ==
  ASSUME IInv, NEW p \in Procs, NEW l \in Ids, Fork(p, l), session'[p] # session[p]
  PROVE  LET kept == BranchContent(session[p], file[session[p]].ids, l) IN
         \E fresh \in SUBSET Ids :
           /\ kept \subseteq 1 .. count /\ fresh \cap 1 .. count = {} /\ fresh \subseteq Nat
           /\ mem'[p] = kept \cup fresh /\ leaf'[p] = Latest(kept \cup fresh)
           /\ session'[p] \in Sessions
           /\ parent'[session'[p]] = Rechained(session[p], kept \cup fresh)
           /\ kind' = [i \in Ids |-> IF i \in fresh THEN "label" ELSE kind[i]]
           /\ \A i \in Ids \ fresh : ref'[i] = ref[i]
           /\ {ref'[i] : i \in fresh} = Labels(file[session[p]].ids) \cap kept
<1> DEFINE s == session[p]
           ids == file[s].ids
           kept == {i \in Path(s, ids, l) : kind[i] \notin {"label", "unlabel"}}
           labelled == LabelsToWrite(ids, kept)
           n == Cardinality(labelled)
           fresh == (count + 1) .. (count + n)
           new == made + 1
           all == kept \cup fresh
<1>1. kept = BranchContent(s, ids, l)
  BY DEF BranchContent
<1>2. /\ s # None /\ made < MaxSessions /\ count + n <= MaxEntries
      /\ kind' = [i \in Ids |-> IF i \in fresh THEN "label" ELSE kind[i]]
      /\ parent' = [parent EXCEPT ![new] = Rechained(s, all)]
  BY DEF Fork
<1>3. PICK target \in [fresh -> labelled] :
        /\ labelled \subseteq {target[i] : i \in fresh}
        /\ ref' = [i \in Ids |-> IF i \in fresh THEN target[i] ELSE ref[i]]
  BY DEF Fork
<1>4. ~ UNCHANGED procVars
  BY DEF procVars
<1>5. \E answered : Holds(p, new, all, answered)
  BY <1>4 DEF Fork
<1>6. /\ count \in 0 .. MaxEntries /\ made \in Nat /\ s \in Sessions
      /\ ids \subseteq 1 .. count /\ MaxEntries \in Nat /\ new \in Sessions
      /\ session \in [Procs -> 0 .. made] /\ parent \in [Sessions -> [Ids -> Ids \cup {None}]]
      /\ DOMAIN mem = Procs /\ DOMAIN leaf = Procs
  <2>1. /\ count \in 0 .. MaxEntries /\ made \in 0 .. MaxSessions /\ session \in [Procs -> 0 .. made]
        /\ parent \in [Sessions -> [Ids -> Ids \cup {None}]]
        /\ DOMAIN mem = Procs /\ DOMAIN leaf = Procs
    BY DEF IInv, TypeOK
  <2>2. MaxEntries \in Nat /\ MaxSessions \in Nat
    BY BoundsAssumption
  <2>3. s \in Sessions /\ new \in Sessions
    BY <1>2, <2>1, <2>2 DEF Sessions, None
  <2> QED BY <2>1, <2>2, <2>3 DEF IInv, BookInv
<1>7. kept \subseteq ids /\ labelled = Labels(ids) \cap kept
  BY PathWithin DEF LabelsToWrite
<1>8. n \in Nat
  <2>0. count \in Nat
    BY <1>6
  <2> HIDE DEF labelled, kept, ids
  <2>1. labelled \subseteq 1 .. count
    BY <1>6, <1>7
  <2>2. IsFiniteSet(1 .. count)
    BY <2>0, FS_Interval
  <2> QED BY <2>1, <2>2, FS_Subset, FS_CardinalityType
<1> HIDE DEF n, labelled
<1>9. fresh \in SUBSET Ids /\ fresh \subseteq Nat /\ fresh \cap 1 .. count = {}
  BY <1>2, <1>6, <1>8 DEF Ids
<1>10. /\ mem'[p] = all /\ leaf'[p] = Latest(all) /\ session'[p] = new
       /\ parent'[new] = Rechained(s, all)
  BY <1>2, <1>5, <1>6 DEF Holds
<1>11. \A i \in Ids \ fresh : ref'[i] = ref[i]
  BY <1>3
<1>12. {ref'[i] : i \in fresh} = labelled
  <2>1. \A i \in fresh : ref'[i] = target[i] /\ target[i] \in labelled
    BY <1>3, <1>9
  <2> QED BY <1>3, <2>1
<1>13. kept \subseteq 1 .. count
  BY <1>6, <1>7
<1> HIDE DEF fresh
<1>14. /\ session'[p] \in Sessions
       /\ parent'[session'[p]] = Rechained(s, all)
       /\ {ref'[i] : i \in fresh} = Labels(ids) \cap kept
  BY <1>6, <1>7, <1>10, <1>12
<1> HIDE DEF kept
<1> QED BY <1>1, <1>2, <1>9, <1>10, <1>11, <1>13, <1>14

\* The fork is one branch.
LEMMA ForkPath ==
  ASSUME IInv, NEW p \in Procs, NEW l \in Ids, Fork(p, l), session'[p] # session[p]
  PROVE  Path(session[p], mem[p], leaf[p])' = mem'[p]
<1> DEFINE ids == file[session[p]].ids
           branch == BranchContent(session[p], ids, l)
<1>1. PICK fresh \in SUBSET Ids :
        /\ branch \subseteq 1 .. count /\ fresh \cap 1 .. count = {} /\ fresh \subseteq Nat
        /\ mem'[p] = branch \cup fresh /\ leaf'[p] = Latest(branch \cup fresh)
        /\ session'[p] \in Sessions
        /\ parent'[session'[p]] = Rechained(session[p], branch \cup fresh)
        /\ kind' = [i \in Ids |-> IF i \in fresh THEN "label" ELSE kind[i]]
        /\ \A i \in Ids \ fresh : ref'[i] = ref[i]
        /\ {ref'[i] : i \in fresh} = Labels(ids) \cap branch
  BY ForkMakes
<1> DEFINE all == branch \cup fresh
           par == Rechained(session[p], all)
<1>2. branch \subseteq Ids
  <2>1. count \in 0 .. MaxEntries
    BY DEF IInv, TypeOK
  <2> QED BY <1>1, <2>1, BoundsAssumption DEF Ids
<1> HIDE DEF branch, ids
<1>3. all \in SUBSET Ids /\ \A i \in all : par[i] = Latest({j \in all : j < i})
  BY <1>1, <1>2 DEF Rechained
<1>4. {i \in all : i \in Above(par, all)[Latest(all)]} = all
  <2> HIDE DEF all, par
  <2> QED BY <1>3, ChainPath
<1>5. Path(session[p], mem[p], leaf[p])'
        = {i \in mem'[p] : i \in Above(parent'[session'[p]], mem'[p])[leaf'[p]]}
  BY DEF Path, Above
<1> QED BY <1>1, <1>4, <1>5

\* It has the entries and the labels of the branch that was selected.
LEMMA ForkBranch ==
  ASSUME IInv, NEW p \in Procs, NEW l \in Ids, Fork(p, l), session'[p] # session[p]
  PROVE  LET branch == BranchContent(session[p], file[session[p]].ids, l) IN
         /\ BranchContent(session[p], mem[p], leaf[p])' = branch
         /\ Labels(mem[p])' = Labels(file[session[p]].ids) \cap branch
<1> DEFINE ids == file[session[p]].ids
           branch == BranchContent(session[p], ids, l)
<1>1. PICK fresh \in SUBSET Ids :
        /\ branch \subseteq 1 .. count /\ fresh \cap 1 .. count = {} /\ fresh \subseteq Nat
        /\ mem'[p] = branch \cup fresh /\ leaf'[p] = Latest(branch \cup fresh)
        /\ session'[p] \in Sessions
        /\ parent'[session'[p]] = Rechained(session[p], branch \cup fresh)
        /\ kind' = [i \in Ids |-> IF i \in fresh THEN "label" ELSE kind[i]]
        /\ \A i \in Ids \ fresh : ref'[i] = ref[i]
        /\ {ref'[i] : i \in fresh} = Labels(ids) \cap branch
  BY ForkMakes
<1> DEFINE all == branch \cup fresh
<1>2. \A i \in branch : kind[i] \notin {"label", "unlabel"}
  BY DEF BranchContent
<1>3. branch \subseteq Ids
  <2>1. count \in 0 .. MaxEntries
    BY DEF IInv, TypeOK
  <2> QED BY <1>1, <2>1, BoundsAssumption DEF Ids
<1> HIDE DEF branch, ids
<1>4. /\ \A i \in fresh : kind'[i] = "label"
      /\ \A i \in branch : i \notin fresh /\ kind'[i] = kind[i] /\ ref'[i] = ref[i]
  BY <1>1, <1>3
<1>5. Path(session[p], mem[p], leaf[p])' = all
  BY <1>1, ForkPath
<1>6. BranchContent(session[p], mem[p], leaf[p])' = branch
  <2>1. BranchContent(session[p], mem[p], leaf[p])'
          = {i \in Path(session[p], mem[p], leaf[p])' : kind'[i] \notin {"label", "unlabel"}}
    BY DEF BranchContent
  <2>2. {i \in all : kind'[i] \notin {"label", "unlabel"}} = branch
    BY <1>2, <1>4
  <2> QED BY <1>5, <2>1, <2>2
<1>7. Labels(mem[p])' = Labels(ids) \cap branch
  <2> DEFINE Last(t) == \E i \in all : /\ kind'[i] = "label" /\ ref'[i] = t
                                      /\ \A j \in all : kind'[j] \in {"label", "unlabel"} /\ ref'[j] = t => j <= i
  <2>1. Labels(mem[p])' = {t \in all : Last(t)}
    BY <1>1 DEF Labels
  <2>2. ASSUME NEW t \in all, Last(t) PROVE t \in Labels(ids) \cap branch
    <3>1. PICK i \in all : kind'[i] = "label" /\ ref'[i] = t
      BY <2>2
    <3>2. i \in fresh
      BY <1>2, <1>4, <3>1
    <3> QED BY <1>1, <3>1, <3>2
  <2>3. ASSUME NEW t \in Labels(ids) \cap branch PROVE t \in all /\ Last(t)
    <3> DEFINE S == {i \in fresh : ref'[i] = t}
    <3>1. S \in SUBSET Ids /\ S # {}
      BY <1>1, <2>3
    <3> HIDE DEF S
    <3>2. Latest(S) \in S /\ \A j \in S : j <= Latest(S)
      BY <3>1, LatestIsMax
    <3> USE DEF S
    <3>3. Latest(S) \in all /\ kind'[Latest(S)] = "label" /\ ref'[Latest(S)] = t
      BY <1>4, <3>2
    <3>4. \A j \in all : kind'[j] \in {"label", "unlabel"} => j \in fresh
      BY <1>2, <1>4
    <3> QED BY <2>3, <3>2, <3>3, <3>4
  <2> HIDE DEF Last, all
  <2>4. Labels(ids) \cap branch \subseteq all
    BY DEF all
  <2> QED BY <2>1, <2>2, <2>3, <2>4
<1> QED BY <1>6, <1>7 DEF branch, ids

\* The model is shown the same conversation after a fork, unless the last
\* compaction on the branch keeps from a label entry.
LEMMA ForkContext ==
  ASSUME IInv, RefInv, NEW p \in Procs, NEW l \in Ids, Fork(p, l), session'[p] # session[p]
  PROVE  LET ids == file[session[p]].ids
             last == LastCompaction(BranchContent(session[p], ids, l)) IN
         \/ Context(session[p], mem[p], leaf[p])' = Context(session[p], ids, l)
         \/ last # None /\ kind[ref[last]] \in {"label", "unlabel"}
<1> DEFINE ids == file[session[p]].ids
           path == Path(session[p], ids, l)
           branch == BranchContent(session[p], ids, l)
           last == LastCompaction(branch)
<1>1. PICK fresh \in SUBSET Ids :
        /\ branch \subseteq 1 .. count /\ fresh \cap 1 .. count = {} /\ fresh \subseteq Nat
        /\ mem'[p] = branch \cup fresh /\ leaf'[p] = Latest(branch \cup fresh)
        /\ session'[p] \in Sessions
        /\ parent'[session'[p]] = Rechained(session[p], branch \cup fresh)
        /\ kind' = [i \in Ids |-> IF i \in fresh THEN "label" ELSE kind[i]]
        /\ \A i \in Ids \ fresh : ref'[i] = ref[i]
        /\ {ref'[i] : i \in fresh} = Labels(ids) \cap branch
  BY ForkMakes
<1> DEFINE all == branch \cup fresh
<1>2. branch = {i \in path : kind[i] \notin {"label", "unlabel"}}
  BY DEF BranchContent
<1>3. branch \subseteq Ids /\ count \in Nat
  <2>1. count \in 0 .. MaxEntries
    BY DEF IInv, TypeOK
  <2> QED BY <1>1, <2>1, BoundsAssumption DEF Ids
<1>4. Path(session[p], mem[p], leaf[p])' = all
  BY ForkPath, <1>1
<1>5. Context(session[p], mem[p], leaf[p])'
        = LET c == Latest({i \in all : kind'[i] = "compaction"})
              Kept(i) == i > c \/ (ref'[c] \in all /\ ref'[c] <= i)
          IN  IF c = None THEN {i \in all : kind'[i] \in Content}
              ELSE {c} \cup {i \in all : kind'[i] \in Content /\ Kept(i)}
  BY <1>4 DEF Context, LastCompaction
<1>6. Context(session[p], ids, l)
        = LET c == Latest({i \in path : kind[i] = "compaction"})
              Kept(i) == i > c \/ (ref[c] \in path /\ ref[c] <= i)
          IN  IF c = None THEN {i \in path : kind[i] \in Content}
              ELSE {c} \cup {i \in path : kind[i] \in Content /\ Kept(i)}
  BY DEF Context, LastCompaction
<1> HIDE DEF branch, path, ids
<1>7. /\ \A i \in fresh : kind'[i] = "label"
      /\ \A i \in branch : i \notin fresh /\ kind'[i] = kind[i] /\ ref'[i] = ref[i]
  BY <1>1, <1>3
<1> DEFINE C == {i \in branch : kind[i] = "compaction"}
<1>8. {i \in path : kind[i] = "compaction"} = C
  BY <1>2
<1>9. {i \in all : kind'[i] = "compaction"} = C
  BY <1>7
<1>10. last = Latest(C)
  BY DEF LastCompaction, C
<1>11. {i \in all : kind'[i] \in Content} = {i \in path : kind[i] \in Content}
  BY <1>2, <1>7 DEF Content, Messages
<1>12. CASE last = None
  <2>1. Context(session[p], mem[p], leaf[p])' = {i \in all : kind'[i] \in Content}
    <3> HIDE DEF all, C, last
    <3> QED BY <1>5, <1>9, <1>10, <1>12
  <2>2. Context(session[p], ids, l) = {i \in path : kind[i] \in Content}
    <3> HIDE DEF C, last
    <3> QED BY <1>6, <1>8, <1>10, <1>12
  <2> QED BY <1>11, <2>1, <2>2 DEF ids
<1>13. CASE last # None /\ kind[ref[last]] \notin {"label", "unlabel"}
  <2>1. last \in branch /\ ref'[last] = ref[last]
    <3>1. last \in C
      BY <1>10, <1>13, LatestWithin
    <3> QED BY <1>7, <3>1
  <2>2. ref[last] \in path <=> ref[last] \in branch
    BY <1>2, <1>13
  <2>3. ref[last] \notin fresh
    <3>1. ref[last] \in 0 .. count
      BY <1>3, <2>1 DEF RefInv
    <3>2. 0 \notin fresh
      BY <1>1, IdsNumbers
    <3> QED BY <1>1, <1>3, <3>1, <3>2
  <2>4. ref'[last] \in all <=> ref[last] \in path
    BY <2>1, <2>2, <2>3
  <2> DEFINE Kept(i) == i > last \/ (ref[last] \in path /\ ref[last] <= i)
             Kept2(i) == i > last \/ (ref'[last] \in all /\ ref'[last] <= i)
  <2>5. {i \in all : kind'[i] \in Content /\ Kept2(i)} = {i \in path : kind[i] \in Content /\ Kept(i)}
    <3>1. \A i : Kept2(i) <=> Kept(i)
      BY <2>1, <2>4
    <3> HIDE DEF Kept, Kept2
    <3> QED BY <1>11, <3>1
  <2>6. Context(session[p], mem[p], leaf[p])' = {last} \cup {i \in all : kind'[i] \in Content /\ Kept2(i)}
    <3> HIDE DEF all, C
    <3> QED BY <1>5, <1>9, <1>10, <1>13
  <2>7. Context(session[p], ids, l) = {last} \cup {i \in path : kind[i] \in Content /\ Kept(i)}
    <3> HIDE DEF C
    <3> QED BY <1>6, <1>8, <1>10, <1>13
  <2> QED BY <2>5, <2>6, <2>7 DEF ids
<1> QED BY <1>12, <1>13 DEF ids, branch

\* A fork keeps the branch that was selected, with its labels and the
\* conversation the model is shown, for any number of entries and sessions.
THEOREM ForksKeepBranches == Spec => ForkKeepsBranch
<1>1. ASSUME IInv, RefInv
      PROVE  \A p \in Procs, l \in Ids :
               Fork(p, l) /\ session'[p] # session[p] =>
                 LET s == session[p]
                     ids == file[s].ids
                     branch == BranchContent(s, ids, l)
                     last == LastCompaction(branch)
                 IN  /\ BranchContent(session[p], mem[p], leaf[p])' = branch
                     /\ Labels(mem[p])' = Labels(ids) \cap branch
                     /\ \/ Context(session[p], mem[p], leaf[p])' = Context(s, ids, l)
                        \/ last # None /\ kind[ref[last]] \in {"label", "unlabel"}
  BY <1>1, ForkBranch, ForkContext
<1> QED BY <1>1, RefHolds, PTL DEF ForkKeepsBranch
=============================================================================
