------------------------------ MODULE StoreProofs ------------------------------
(***************************************************************************)
(* Proofs about the JSON store: AtomicFile, for any writers, values and    *)
(* sizes, and StatsStore, for any handlers, operations and bounds.         *)
(*                                                                         *)
(* AtomicFile implements FileRegister, and a reader finds what was saved   *)
(* last.  Its inductive invariant says what holds while no two saves have  *)
(* overlapped: the one writer at work owns the temporary name (TmpOwned),  *)
(* and that name never points to the inode that readers see.               *)
(*                                                                         *)
(* The inductive invariant of StatsStore orders the three copies of the    *)
(* counts: the file, unless the process started without it, is at most the *)
(* copy being written, and that at most the cache, with equality where the *)
(* flag is clear (CopyBetween, CleanIsSaved); and once a drained server's  *)
(* store is being closed nobody counts any more, so that the flag stays    *)
(* clear after the last flush (ClosedForCalls).                            *)
(***************************************************************************)
EXTENDS AtomicFile, StatsStore, SequenceTheorems, TLAPS

-----------------------------------------------------------------------------
(* A file. *)

TmpOwned ==
  \A w \in Writers : pc[w] # "idle" =>
    /\ tmp # 0
    /\ fd[w] = tmp
    /\ pc[w] = "opened" => inodes[tmp] = Truncated
    /\ pc[w] = "written" => inodes[tmp].val = val[w]
    /\ \A u \in Writers : pc[u] # "idle" => u = w

NamesApart == tmp # 0 => tmp # path

IInv ==
  /\ TypeOK
  /\ ~overlapped => TmpOwned /\ NamesApart /\ Readable = saved

-----------------------------------------------------------------------------
\* Writing a value over a truncated inode makes the inode read as that value,
\* and a write always leaves a content of the right type.
LEMMA WrittenContent ==
  ASSUME NEW old \in Content, NEW v \in Values, NEW n \in 0 .. Size[v]
  PROVE  /\ Written(old, v, n) \in Content
         /\ old = Truncated /\ n = Size[v] => Written(old, v, n).val = v
  BY SizeAssumption DEF Written, Content, Truncated

\* What appending and replacing do to a sequence.
LEMMA SequenceUpdates ==
  ASSUME NEW S, NEW q \in Seq(S), NEW e \in S
  PROVE  /\ Append(q, e) \in Seq(S)
         /\ Len(Append(q, e)) = Len(q) + 1
         /\ Append(q, e)[Len(q) + 1] = e
         /\ \A i \in 1 .. Len(q) : Append(q, e)[i] = q[i]
         /\ \A i \in 1 .. Len(q) :
              [q EXCEPT ![i] = e] \in Seq(S) /\ Len([q EXCEPT ![i] = e]) = Len(q)
<1>1. \A i \in 1 .. Len(q) :
        [q EXCEPT ![i] = e] \in Seq(S) /\ Len([q EXCEPT ![i] = e]) = Len(q)
  BY ExceptSeq
<1> QED
  BY <1>1

\* Creating an inode leaves the others as they are.
LEMMA AppendInode ==
  ASSUME NEW q \in Seq(Content)
  PROVE  /\ Append(q, Truncated) \in Seq(Content)
         /\ Len(Append(q, Truncated)) = Len(q) + 1
         /\ Append(q, Truncated)[Len(q) + 1] = Truncated
         /\ \A i \in 1 .. Len(q) : Append(q, Truncated)[i] = q[i]
  <1>1. Truncated \in Content
    BY DEF Truncated, Content
  <1> QED
    BY <1>1, SequenceUpdates

LEMMA TypeInit == Init => TypeOK
<1> SUFFICES ASSUME Init PROVE TypeOK
  OBVIOUS
<1>1. inodes = <<>> /\ inodes \in Seq(Content) /\ Len(inodes) = 0
  BY DEF Init
<1>2. val \in [Writers -> Values]
  BY DEF Init
<1>3. /\ pc \in [Writers -> {"idle", "opened", "written"}]
      /\ \A w \in Writers : pc[w] = "opened" => fd[w] # 0
  BY DEF Init
<1>4. fd \in [Writers -> 0 .. Len(inodes)]
  BY <1>1 DEF Init
<1>5. tmp \in 0 .. Len(inodes) /\ path \in 0 .. Len(inodes)
  BY <1>1 DEF Init
<1> QED
  BY <1>1, <1>2, <1>3, <1>4, <1>5 DEF Init, TypeOK

LEMMA TypeStep == TypeOK /\ [Next]_vars => TypeOK'
<1> SUFFICES ASSUME TypeOK, [Next]_vars PROVE TypeOK'
  OBVIOUS
<1> USE DEF TypeOK
<1>1. ASSUME NEW w \in Writers, Open(w) PROVE TypeOK'
  <2>1. Truncated \in Content
    BY DEF Truncated, Content
  <2>2. CASE tmp # 0 /\ inodes' = [inodes EXCEPT ![tmp] = Truncated] /\ tmp' = tmp
    <3>1. inodes' \in Seq(Content) /\ Len(inodes') = Len(inodes)
      BY <2>1, <2>2, SequenceUpdates
    <3> QED
      BY <1>1, <2>2, <3>1 DEF Open
  <2>3. CASE inodes' = Append(inodes, Truncated) /\ tmp' = Len(inodes) + 1
    <3>1. inodes' \in Seq(Content) /\ Len(inodes') = Len(inodes) + 1
      BY <2>3, AppendInode
    <3> QED
      BY <1>1, <2>3, <3>1 DEF Open
  <2> QED
    BY <1>1, <2>2, <2>3 DEF Open
<1>2. ASSUME NEW w \in Writers, Write(w) \/ WriteFails(w) PROVE TypeOK'
  <2>0. Size[val[w]] \in Nat \ {0}
    BY SizeAssumption
  <2>1. PICK n \in 0 .. Size[val[w]] :
          inodes' = [inodes EXCEPT ![fd[w]] = Written(inodes[fd[w]], val[w], n)]
    <3>1. CASE Write(w)
      <4>1. Size[val[w]] \in 0 .. Size[val[w]]
        BY <2>0
      <4> QED
        BY <3>1, <4>1 DEF Write
    <3>2. CASE WriteFails(w)
      <4>1. PICK n \in 0 .. Size[val[w]] - 1 :
              inodes' = [inodes EXCEPT ![fd[w]] = Written(inodes[fd[w]], val[w], n)]
        BY <3>2 DEF WriteFails
      <4>2. n \in 0 .. Size[val[w]]
        BY <2>0
      <4> QED
        BY <4>1, <4>2
    <3> QED
      BY <1>2, <3>1, <3>2
  <2>2. inodes' \in Seq(Content) /\ Len(inodes') = Len(inodes)
    <3>1. fd[w] \in 1 .. Len(inodes) /\ inodes[fd[w]] \in Content
      BY <1>2 DEF Write, WriteFails
    <3>2. Written(inodes[fd[w]], val[w], n) \in Content
      BY <3>1, WrittenContent
    <3> QED
      BY <2>1, <3>1, <3>2, SequenceUpdates
  <2> QED
    BY <1>2, <2>2 DEF Write, WriteFails
<1>3. ASSUME NEW w \in Writers, Rename(w) \/ RenameFails(w) PROVE TypeOK'
  BY <1>3 DEF Rename, RenameFails
<1>4. ASSUME RemoveFile \/ Crash \/ Terminated \/ UNCHANGED vars PROVE TypeOK'
  BY <1>4 DEF RemoveFile, Crash, Terminated, vars
<1> QED
  BY <1>1, <1>2, <1>3, <1>4 DEF Next

\* The variables keep their types in every behaviour.
THEOREM TypeCorrect == Spec => []TypeOK
<1> QED
  BY TypeInit, TypeStep, PTL DEF Spec

-----------------------------------------------------------------------------
LEMMA InductiveInit == Init => IInv
  BY TypeInit DEF Init, IInv, TmpOwned, NamesApart, Readable

LEMMA InductiveStep == IInv /\ [Next]_vars => IInv'
<1> SUFFICES ASSUME IInv, [Next]_vars, ~overlapped'
             PROVE  (TmpOwned /\ NamesApart /\ Readable = saved)'
  BY TypeStep DEF IInv
<1> USE DEF IInv, TypeOK
<1>1. ~overlapped
  BY DEF Next, Open, Write, WriteFails, Rename, RenameFails, RemoveFile, Crash,
         Terminated, vars
<1>2. TmpOwned /\ NamesApart /\ Readable = saved
  BY <1>1
<1>3. ASSUME NEW w \in Writers, Open(w)
      PROVE  (TmpOwned /\ NamesApart /\ Readable = saved)'
  <2>1. \A u \in Writers : pc[u] = "idle"
    BY <1>3 DEF Open, Busy
  <2>2. pc' = [pc EXCEPT ![w] = "opened"] /\ path' = path /\ saved' = saved
        /\ fd' = [fd EXCEPT ![w] = tmp']
    BY <1>3 DEF Open
  <2>3. /\ tmp' # 0 /\ tmp' # path
        /\ inodes'[tmp'] = Truncated
        /\ path # 0 => inodes'[path] = inodes[path]
    <3>1. CASE tmp # 0 /\ inodes' = [inodes EXCEPT ![tmp] = Truncated] /\ tmp' = tmp
      BY <1>2, <3>1 DEF NamesApart
    <3>2. CASE inodes' = Append(inodes, Truncated) /\ tmp' = Len(inodes) + 1
      BY <3>2, AppendInode
    <3> QED
      BY <1>3, <3>1, <3>2 DEF Open
  <2>4. TmpOwned'
    BY <2>1, <2>2, <2>3 DEF TmpOwned
  <2> QED
    BY <1>2, <2>2, <2>3, <2>4 DEF NamesApart, Readable
<1>4. ASSUME NEW w \in Writers, Write(w) \/ WriteFails(w)
      PROVE  (TmpOwned /\ NamesApart /\ Readable = saved)'
  <2>1. /\ pc[w] = "opened" /\ tmp # 0 /\ fd[w] = tmp /\ inodes[tmp] = Truncated
        /\ tmp # path /\ tmp \in 1 .. Len(inodes)
        /\ \A u \in Writers : pc[u] # "idle" => u = w
    BY <1>2, <1>4 DEF Write, WriteFails, TmpOwned, NamesApart
  <2>2. PICK n \in 0 .. Size[val[w]] :
          /\ inodes' = [inodes EXCEPT ![tmp] = Written(@, val[w], n)]
          /\ pc' = [pc EXCEPT ![w] = IF n = Size[val[w]] THEN "written" ELSE "idle"]
    <3>1. Size[val[w]] \in Nat \ {0}
      BY SizeAssumption
    <3>2. CASE Write(w)
      <4>1. inodes' = [inodes EXCEPT ![tmp] = Written(@, val[w], Size[val[w]])]
        BY <2>1, <3>2 DEF Write
      <4>2. pc' = [pc EXCEPT ![w] = "written"]
        BY <3>2 DEF Write
      <4>3. Size[val[w]] \in 0 .. Size[val[w]]
        BY <3>1
      <4> QED
        BY <4>1, <4>2, <4>3
    <3>3. CASE WriteFails(w)
      <4>1. PICK n \in 0 .. Size[val[w]] - 1 :
              inodes' = [inodes EXCEPT ![tmp] = Written(@, val[w], n)]
        BY <2>1, <3>3 DEF WriteFails
      <4>2. pc' = [pc EXCEPT ![w] = "idle"]
        BY <3>3 DEF WriteFails
      <4>3. n \in 0 .. Size[val[w]] /\ n # Size[val[w]]
        BY <3>1
      <4> QED
        BY <4>1, <4>2, <4>3
    <3> QED
      BY <1>4, <3>2, <3>3
  <2>3. UNCHANGED <<tmp, path, fd, val, saved>>
    BY <1>4 DEF Write, WriteFails
  <2>4. n = Size[val[w]] => inodes'[tmp].val = val[w]
    BY <2>1, <2>2, WrittenContent
  <2>5. TmpOwned'
    BY <2>1, <2>2, <2>3, <2>4 DEF TmpOwned
  <2>6. path # 0 => inodes'[path] = inodes[path]
    BY <2>1, <2>2
  <2> QED
    BY <1>2, <2>3, <2>5, <2>6 DEF NamesApart, Readable
<1>5. ASSUME NEW w \in Writers, Rename(w)
      PROVE  (TmpOwned /\ NamesApart /\ Readable = saved)'
  BY <1>2, <1>5 DEF Rename, TmpOwned, NamesApart, Readable
<1>6. ASSUME NEW w \in Writers, RenameFails(w)
      PROVE  (TmpOwned /\ NamesApart /\ Readable = saved)'
  <2>1. UNCHANGED <<inodes, tmp, path, saved>>
    BY <1>6 DEF RenameFails
  <2>2. TmpOwned'
    BY <1>2, <1>6 DEF RenameFails, TmpOwned
  <2> QED
    BY <1>2, <2>1, <2>2 DEF NamesApart, Readable
<1>7. CASE RemoveFile
  BY <1>2, <1>7 DEF RemoveFile, TmpOwned, NamesApart, Readable
<1>8. CASE Crash
  BY <1>2, <1>8 DEF Crash, TmpOwned, NamesApart, Readable
<1>9. CASE Terminated \/ UNCHANGED vars
  BY <1>2, <1>9 DEF Terminated, vars, TmpOwned, NamesApart, Readable
<1> QED
  BY <1>3, <1>4, <1>5, <1>6, <1>7, <1>8, <1>9 DEF Next

LEMMA Inductive == Spec => []IInv
<1> QED
  BY InductiveInit, InductiveStep, PTL DEF Spec

\* Unless two saves of the path have overlapped, a reader finds what the last
\* successful save or removal left, through failed writes and kills.
THEOREM LastSaveIsRead == Spec => []SavedIsRead
<1>1. IInv => SavedIsRead
  BY DEF IInv, SavedIsRead
<1> QED
  BY <1>1, Inductive, PTL

\* A file implements the abstract register: its readable value changes from one
\* whole value to another in single steps.
THEOREM FileIsRegister == Spec => IsRegister
<1>1. Init => Register!Init
  BY DEF Init, Register!Init, Readable
<1>2. ASSUME IInv, IInv', [Next]_vars
      PROVE  [Register!Next]_(IF overlapped THEN Unknown ELSE Readable)
  <2> USE <1>2 DEF IInv, TypeOK, Register!Next, Register!Replace, Register!Remove,
                   Register!Overlap
  <2>1. CASE overlapped
    <3>1. overlapped'
      BY <2>1 DEF Next, Open, Write, WriteFails, Rename, RenameFails, RemoveFile, Crash,
                  Terminated, vars
    <3> QED
      BY <2>1, <3>1
  <2>2. CASE ~overlapped
    <3>1. Readable = saved /\ Readable # Unknown
      BY <2>2, ValuesAssumption, MarkersAssumption
    <3>2. CASE overlapped'
      BY <2>2, <3>1, <3>2
    <3>3. CASE ~overlapped'
      <4>1. Readable' = saved' /\ saved' \in Values \cup {NoFile}
        BY <3>3
      <4> QED
        BY <2>2, <3>1, <3>3, <4>1
    <3> QED
      BY <3>2, <3>3
  <2> QED
    BY <2>1, <2>2
<1> QED
  BY <1>1, <1>2, Inductive, PTL DEF Spec, IsRegister, Register!Spec

-----------------------------------------------------------------------------
(* The statistics. *)

Writing == flusher \in {"writing", "last write"}

CopyBetween ==
  /\ ~unloaded => AtMost(disk, cache)
  /\ Writing /\ ~unloaded => AtMost(disk, copy)
  /\ Writing => AtMost(copy, cache)
  /\ Writing /\ ~dirty => copy = cache

ClosedForCalls ==
  /\ main = "exited" => flusher = "done"
  /\ flusher \in {"last write", "done"} => main \in {"closing", "exited"}
  /\ drained => main \in {"closing", "exited"} /\ running = {}
  /\ drained /\ flusher \in {"last write", "done"} => ~dirty

StatsIInv ==
  /\ StatsTypeOK
  /\ CopyBetween
  /\ CleanIsSaved
  /\ ClosedForCalls

-----------------------------------------------------------------------------
\* Counting a call keeps the counts well-typed and only adds to them.
LEMMA CountedGrows ==
  ASSUME NEW c \in [Ops -> Counts], NEW o \in Ops, NEW e \in BOOLEAN
  PROVE  Counted(c, o, e) \in [Ops -> Counts] /\ AtMost(c, Counted(c, o, e))
<1>1. c[o].calls \in Nat /\ c[o].errors \in Nat
  BY DEF Counts
<1> DEFINE add == IF e THEN 1 ELSE 0
<1>2. add \in Nat
  OBVIOUS
<1> DEFINE r == [calls |-> c[o].calls + 1, errors |-> c[o].errors + add]
<1>3. r \in Counts /\ c[o].calls <= r.calls /\ c[o].errors <= r.errors
  BY <1>1, <1>2 DEF Counts
<1>4. Counted(c, o, e) = [c EXCEPT ![o] = r]
  BY DEF Counted
<1> HIDE DEF r
<1>5. \A p \in Ops : [c EXCEPT ![o] = r][p] = IF p = o THEN r ELSE c[p]
  OBVIOUS
<1>6. \A p \in Ops : c[p].calls \in Nat /\ c[p].errors \in Nat
  BY DEF Counts
<1>7. [c EXCEPT ![o] = r] \in [Ops -> Counts]
  BY <1>3
<1>8. AtMost(c, [c EXCEPT ![o] = r])
  BY <1>3, <1>5, <1>6 DEF AtMost
<1> QED
  BY <1>4, <1>7, <1>8

LEMMA AtMostReflexive ==
  ASSUME NEW c \in [Ops -> Counts]
  PROVE  AtMost(c, c)
BY DEF AtMost, Counts

LEMMA AtMostTransitive ==
  ASSUME NEW c \in [Ops -> Counts], NEW d \in [Ops -> Counts], NEW e \in [Ops -> Counts],
         AtMost(c, d), AtMost(d, e)
  PROVE  AtMost(c, e)
BY DEF AtMost, Counts

LEMMA NoCountsType == NoCounts \in [Ops -> Counts]
BY DEF NoCounts, Zero, Counts

\* Steps within a bound.
LEMMA Bounded ==
  ASSUME NEW n \in Nat, NEW k \in 0 .. n
  PROVE  /\ k < n => k + 1 \in 0 .. n
         /\ k > 0 => k - 1 \in 0 .. n
         /\ 0 \in 0 .. n
OBVIOUS

-----------------------------------------------------------------------------
LEMMA StatsTypeInit == StatsInit => StatsTypeOK
<1> SUFFICES ASSUME StatsInit PROVE StatsTypeOK
  OBVIOUS
<1>1. streams \in 0 .. MaxStreams /\ calls \in 0 .. MaxCalls
      /\ failures \in 0 .. MaxFailures /\ kills \in 0 .. MaxKills
  BY BoundsAssumption DEF StatsInit
<1> QED
  BY <1>1, NoCountsType DEF StatsInit, StatsTypeOK

LEMMA StatsTypeStep == StatsTypeOK /\ [StatsNext]_statsVars => StatsTypeOK'
<1> SUFFICES ASSUME StatsTypeOK, [StatsNext]_statsVars PROVE StatsTypeOK'
  OBVIOUS
<1> USE BoundsAssumption DEF StatsTypeOK, bounded
<1>1. ASSUME NEW h \in Handlers, StartCall(h) PROVE StatsTypeOK'
  <2>1. calls' \in 0 .. MaxCalls
    BY <1>1, Bounded DEF StartCall
  <2> QED
    BY <1>1, <2>1 DEF StartCall
<1>2. ASSUME NEW h \in Handlers, IncrementStats(h) PROVE StatsTypeOK'
  <2>1. PICK o \in Ops, e \in BOOLEAN : cache' = Counted(cache, o, e)
    BY <1>2 DEF IncrementStats
  <2>2. cache' \in [Ops -> Counts]
    BY <2>1, CountedGrows
  <2> QED
    BY <1>2, <2>2 DEF IncrementStats
<1>3. CASE Connect \/ Disconnect
  <2>1. streams' \in 0 .. MaxStreams
    BY <1>3, Bounded DEF Connect, Disconnect
  <2> QED
    BY <1>3, <2>1 DEF Connect, Disconnect
<1>4. CASE Tick \/ Stop
  BY <1>4 DEF Tick, Stop, Copy
<1>5. CASE WriteFile \/ WriteFileFails
  <2>1. failures' \in 0 .. MaxFailures
    BY <1>5, Bounded DEF WriteFile, WriteFileFails
  <2> QED
    BY <1>5, <2>1, NoCountsType DEF WriteFile, WriteFileFails, AfterWrite
<1>6. CASE Terminate \/ CloseStore \/ Exit
  BY <1>6 DEF Terminate, CloseStore, Exit, Main
<1>7. CASE StartAgain \/ KillAndStart
  <2>1. kills' \in 0 .. MaxKills /\ streams' \in 0 .. MaxStreams
    BY <1>7, Bounded DEF StartAgain, KillAndStart, Start
  <2> QED
    BY <1>7, <2>1, NoCountsType DEF StartAgain, KillAndStart, Start
<1>8. CASE UNCHANGED statsVars
  BY <1>8 DEF statsVars
<1> QED
  BY <1>1, <1>2, <1>3, <1>4, <1>5, <1>6, <1>7, <1>8 DEF StatsNext, FlusherStep, MainStep

\* The variables keep their types in every behaviour.
THEOREM StatsTypeCorrect == StatsSpec => []StatsTypeOK
<1> QED
  BY StatsTypeInit, StatsTypeStep, PTL DEF StatsSpec

-----------------------------------------------------------------------------
LEMMA StatsInductiveInit == StatsInit => StatsIInv
<1> SUFFICES ASSUME StatsInit PROVE StatsIInv
  OBVIOUS
<1>1. AtMost(disk, cache)
  BY NoCountsType, AtMostReflexive DEF StatsInit
<1> QED
  BY <1>1, StatsTypeInit
     DEF StatsInit, StatsIInv, CopyBetween, CleanIsSaved, Saved, ClosedForCalls, Writing

LEMMA StatsInductiveStep == StatsIInv /\ [StatsNext]_statsVars => StatsIInv'
<1> SUFFICES ASSUME StatsIInv, [StatsNext]_statsVars
             PROVE  CopyBetween' /\ CleanIsSaved' /\ ClosedForCalls'
  BY StatsTypeStep DEF StatsIInv
<1> USE DEF StatsIInv
<1>0. /\ cache \in [Ops -> Counts] /\ disk \in [Ops -> Counts] /\ copy \in [Ops -> Counts]
      /\ cache' \in [Ops -> Counts] /\ disk' \in [Ops -> Counts]
      /\ copy' \in [Ops -> Counts]
      /\ flusher \in {"waiting", "writing", "last write", "done"}
      /\ main \in {"serving", "draining", "closing", "exited"}
      /\ lost \in BOOLEAN /\ unloaded \in BOOLEAN
      /\ dirty \in BOOLEAN /\ drained \in BOOLEAN
  BY StatsTypeStep DEF StatsTypeOK
<1>1. ASSUME NEW h \in Handlers, StartCall(h)
      PROVE  CopyBetween' /\ CleanIsSaved' /\ ClosedForCalls'
  <2>1. /\ UNCHANGED <<cache, dirty, disk, copy, flusher, main, lost, unloaded, drained>>
        /\ main = "serving"
    BY <1>1 DEF StartCall
  <2>2. CopyBetween' /\ CleanIsSaved'
    BY <2>1 DEF CopyBetween, CleanIsSaved, Saved, Writing, AtMost
  <2> QED
    BY <2>1, <2>2 DEF ClosedForCalls
<1>2. ASSUME NEW h \in Handlers, IncrementStats(h)
      PROVE  CopyBetween' /\ CleanIsSaved' /\ ClosedForCalls'
  <2>0. PICK o \in Ops, e \in BOOLEAN : cache' = Counted(cache, o, e)
    BY <1>2 DEF IncrementStats
  <2>1. AtMost(cache, cache')
    BY <1>0, <2>0, CountedGrows
  <2>2. UNCHANGED <<disk, copy, flusher, main, unloaded, drained>> /\ dirty' = TRUE /\ running # {}
        /\ running' = running \ {h}
    BY <1>2 DEF IncrementStats
  <2>3. ~unloaded => AtMost(disk, cache')
    BY <1>0, <2>1, AtMostTransitive DEF CopyBetween
  <2>4. Writing => AtMost(copy, cache')
    BY <1>0, <2>1, AtMostTransitive DEF CopyBetween
  <2>5. CopyBetween'
    BY <2>2, <2>3, <2>4 DEF CopyBetween, Writing, AtMost
  <2> QED
    BY <2>2, <2>5 DEF CleanIsSaved, Saved, ClosedForCalls
<1>3. CASE Connect \/ Disconnect
  <2>1. UNCHANGED <<cache, dirty, disk, copy, flusher, main, running, lost, unloaded, drained>>
    BY <1>3 DEF Connect, Disconnect
  <2>2. CopyBetween' /\ CleanIsSaved'
    BY <2>1 DEF CopyBetween, CleanIsSaved, Saved, Writing, AtMost
  <2> QED
    BY <2>1, <2>2 DEF ClosedForCalls
<1>4. CASE Tick \/ Stop
  <2>1. UNCHANGED <<cache, disk, main, running, lost, unloaded, drained>> /\ flusher = "waiting"
    BY <1>4 DEF Tick, Stop, Copy
  <2>2. AtMost(cache, cache)
    BY <1>0, AtMostReflexive
  <2>3. CASE Copy("writing")
    <3>1. copy' = cache /\ ~dirty' /\ flusher' = "writing"
      BY <2>3 DEF Copy
    <3>2. CopyBetween' /\ CleanIsSaved'
      BY <2>1, <2>2, <3>1 DEF CopyBetween, CleanIsSaved, Saved, Writing, AtMost
    <3>3. ClosedForCalls'
      BY <2>1, <3>1 DEF ClosedForCalls
    <3> QED
      BY <3>2, <3>3
  <2>4. CASE Stop /\ Copy("last write")
    <3>1. copy' = cache /\ ~dirty' /\ flusher' = "last write" /\ main = "closing"
      BY <2>4 DEF Stop, Copy
    <3>2. CopyBetween' /\ CleanIsSaved'
      BY <2>1, <2>2, <3>1 DEF CopyBetween, CleanIsSaved, Saved, Writing, AtMost
    <3>3. ClosedForCalls'
      BY <2>1, <3>1 DEF ClosedForCalls
    <3> QED
      BY <3>2, <3>3
  <2>5. CASE Stop /\ ~dirty /\ flusher' = "done" /\ UNCHANGED <<dirty, copy>>
    BY <2>1, <2>5 DEF Stop, CopyBetween, CleanIsSaved, Saved, ClosedForCalls, Writing, AtMost
  <2> QED
    BY <1>4, <2>3, <2>4, <2>5 DEF Tick, Stop
<1>5. CASE WriteFile
  <2>1. /\ UNCHANGED <<cache, dirty, main, running, drained>> /\ disk' = copy /\ Writing
        /\ lost' = FALSE /\ unloaded' = FALSE
        /\ flusher' = IF flusher = "writing" THEN "waiting" ELSE "done"
    BY <1>5 DEF WriteFile, AfterWrite, Writing
  <2> QED
    BY <1>0, <2>1 DEF CopyBetween, CleanIsSaved, Saved, ClosedForCalls, Writing, AtMost
<1>6. CASE WriteFileFails
  <2>1. /\ UNCHANGED <<cache, dirty, main, running, drained, disk, unloaded>> /\ Writing
        /\ lost'
        /\ flusher' = IF flusher = "writing" THEN "waiting" ELSE "done"
    BY <1>6 DEF WriteFileFails, AfterWrite, Writing
  <2> QED
    BY <1>0, <2>1 DEF CopyBetween, CleanIsSaved, Saved, ClosedForCalls, Writing, AtMost
<1>7. CASE Terminate \/ CloseStore \/ Exit
  <2>1. /\ UNCHANGED <<cache, dirty, disk, copy, flusher, running, lost, unloaded>>
        /\ CopyBetween' /\ CleanIsSaved'
    BY <1>7 DEF Terminate, CloseStore, Exit, Main, CopyBetween, CleanIsSaved, Saved, Writing, AtMost
  <2>2. CASE Terminate
    BY <2>1, <2>2 DEF Terminate, Main, ClosedForCalls
  <2>3. CASE CloseStore
    <3>1. main = "draining" /\ main' = "closing" /\ (drained' => running = {})
      BY <2>3 DEF CloseStore, Main
    <3> QED
      BY <2>1, <3>1 DEF ClosedForCalls
  <2>4. CASE Exit
    BY <2>1, <2>4 DEF Exit, Main, ClosedForCalls
  <2> QED
    BY <1>7, <2>1, <2>2, <2>3, <2>4
<1>8. CASE StartAgain \/ KillAndStart
  <2>1. /\ disk' = disk /\ ~dirty' /\ flusher' = "waiting" /\ main' = "serving" /\ ~drained'
        /\ \/ cache' = disk /\ ~unloaded'
           \/ cache' = NoCounts /\ unloaded'
    BY <1>8 DEF StartAgain, KillAndStart, Start
  <2>2. AtMost(disk, disk)
    BY <1>0, AtMostReflexive
  <2>3. ~unloaded' => AtMost(disk, cache)'
    BY <2>1, <2>2
  <2> QED
    BY <2>1, <2>3 DEF CopyBetween, CleanIsSaved, Saved, ClosedForCalls, Writing
<1>9. CASE UNCHANGED statsVars
  BY <1>9 DEF statsVars, CopyBetween, CleanIsSaved, Saved, ClosedForCalls, Writing, AtMost
<1> QED
  BY <1>1, <1>2, <1>3, <1>4, <1>5, <1>6, <1>7, <1>8, <1>9 DEF StatsNext, FlusherStep, MainStep

LEMMA StatsInductive == StatsSpec => []StatsIInv
<1> QED
  BY StatsInductiveInit, StatsInductiveStep, PTL DEF StatsSpec

\* No count made while the flusher writes is forgotten.
THEOREM CleanCacheIsSaved == StatsSpec => []CleanIsSaved
<1>1. StatsIInv => CleanIsSaved
  BY DEF StatsIInv
<1> QED
  BY <1>1, StatsInductive, PTL

\* A drained shutdown leaves all counts in the file, unless the last write failed.
THEOREM ShutdownSavesCounts == StatsSpec => []DrainedShutdownSaves
<1>1. StatsIInv => DrainedShutdownSaves
  BY DEF StatsIInv, CleanIsSaved, Saved, ClosedForCalls, DrainedShutdownSaves
<1> QED
  BY <1>1, StatsInductive, PTL

\* The numbers in the file go down in no step but the first write after a start that
\* could not load the file (store/jsonstore.go:43-47).
THEOREM SavedCountsGrow == StatsSpec => SavedOnlyGrows
<1>1. ASSUME StatsIInv, [StatsNext]_statsVars PROVE [AtMost(disk, disk') \/ unloaded]_statsVars
  <2>1. disk \in [Ops -> Counts]
    BY <1>1 DEF StatsIInv, StatsTypeOK
  <2>2. AtMost(disk, disk)
    BY <2>1, AtMostReflexive
  <2>3. CASE disk' = disk
    BY <2>2, <2>3
  <2>4. CASE WriteFile
    BY <1>1, <2>4 DEF WriteFile, StatsIInv, CopyBetween, Writing
  <2>5. disk' = disk \/ WriteFile
    BY <1>1 DEF StatsNext, StartCall, IncrementStats, Connect, Disconnect, FlusherStep, Tick, Stop,
                Copy, WriteFileFails, Terminate, MainStep, CloseStore, Exit, Main, StartAgain,
                KillAndStart, Start, statsVars
  <2> QED
    BY <2>3, <2>4, <2>5
<1> QED
  BY <1>1, StatsInductive, PTL DEF StatsSpec, SavedOnlyGrows

=============================================================================
