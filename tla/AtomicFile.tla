------------------------------ MODULE AtomicFile ------------------------------
(***************************************************************************)
(* writeJSONAtomic (store/jsonstore.go) on one path: os.WriteFile of       *)
(* path.tmp, then os.Rename, by several goroutines of the process.         *)
(*                                                                         *)
(* The two names of the directory point to inodes.  WriteFile opens the    *)
(* temporary name with O_CREATE and O_TRUNC and writes from offset 0 to    *)
(* the inode it opened, whatever name that has by then.  The content of an *)
(* inode is its size and the value it reads as, Broken when it is not the  *)
(* whole of one value.  A process that is killed leaves both names behind. *)
(***************************************************************************)
EXTENDS Integers, Sequences

CONSTANTS
  Writers,    \* the goroutines that save the file
  Values,     \* the values saved, all different
  Size,       \* Values -> the length of the value's JSON
  MaxInodes,  \* bound on the number of inodes
  Broken,     \* an inode's content that is not the whole of a value
  NoFile, Unknown  \* readers see no file; readers may see anything

ASSUME SizeAssumption == Size \in [Values -> Nat \ {0}]
ASSUME ValuesAssumption == Broken \notin Values /\ NoFile \notin Values /\ Unknown \notin Values
ASSUME MarkersAssumption == NoFile # Unknown /\ Broken # NoFile /\ Broken # Unknown
ASSUME MaxInodesAssumption == MaxInodes \in Nat

VARIABLES
  inodes,     \* the inodes' contents, in order of creation
  tmp,        \* the inode of path.tmp, 0 for none
  path,       \* the inode of path, 0 for none
  pc,         \* Writers -> "idle", "opened" or "written"
  fd,         \* Writers -> the inode it has opened
  val,        \* Writers -> the value it saves
  saved,      \* what the last successful save or removal left (history)
  overlapped  \* two writers were between open and rename at once (history)

vars == <<inodes, tmp, path, pc, fd, val, saved, overlapped>>

-----------------------------------------------------------------------------
Truncated == [val |-> Broken, size |-> 0]

\* The inode's content after the first n units of v are written over it.
Written(old, v, n) ==
  [val |-> IF n = Size[v] /\ old.size <= n THEN v ELSE Broken,
   size |-> IF old.size <= n THEN n ELSE old.size]

\* What readJSON makes of the file.
Readable == IF path = 0 THEN NoFile ELSE inodes[path].val

Busy == {w \in Writers : pc[w] # "idle"}

Init ==
  /\ inodes = <<>>
  /\ tmp = 0
  /\ path = 0
  /\ pc = [w \in Writers |-> "idle"]
  /\ fd = [w \in Writers |-> 0]
  /\ val \in {[w \in Writers |-> v] : v \in Values}
  /\ saved = NoFile
  /\ overlapped = FALSE

\* Mutant of Open: the temporary file is not truncated.
OpenWithoutTruncate(w) ==
  /\ pc[w] = "idle"
  /\ \E v \in Values : val' = [val EXCEPT ![w] = v]
  /\ \/ tmp # 0 /\ UNCHANGED <<inodes, tmp>>
     \/ /\ tmp = 0
        /\ Len(inodes) < MaxInodes
        /\ inodes' = Append(inodes, Truncated)
        /\ tmp' = Len(inodes) + 1
  /\ fd' = [fd EXCEPT ![w] = tmp']
  /\ pc' = [pc EXCEPT ![w] = "opened"]
  /\ overlapped' = (overlapped \/ Busy # {})
  /\ UNCHANGED <<path, saved>>

\* os.WriteFile: open path.tmp, created or truncated.
Open(w) ==
  /\ pc[w] = "idle"
  /\ \E v \in Values : val' = [val EXCEPT ![w] = v]
  /\ \/ /\ tmp # 0
        /\ inodes' = [inodes EXCEPT ![tmp] = Truncated]
        /\ tmp' = tmp
     \/ /\ tmp = 0
        /\ Len(inodes) < MaxInodes
        /\ inodes' = Append(inodes, Truncated)
        /\ tmp' = Len(inodes) + 1
  /\ fd' = [fd EXCEPT ![w] = tmp']
  /\ pc' = [pc EXCEPT ![w] = "opened"]
  /\ overlapped' = (overlapped \/ Busy # {})
  /\ UNCHANGED <<path, saved>>

\* os.WriteFile: write to the opened inode.
Write(w) ==
  /\ pc[w] = "opened"
  /\ inodes' = [inodes EXCEPT ![fd[w]] = Written(@, val[w], Size[val[w]])]
  /\ pc' = [pc EXCEPT ![w] = "written"]
  /\ UNCHANGED <<tmp, path, fd, val, saved, overlapped>>

\* The write fails after n units: the save returns the error, the temporary
\* file stays.
WriteFails(w) ==
  /\ pc[w] = "opened"
  /\ \E n \in 0 .. Size[val[w]] - 1 :
       inodes' = [inodes EXCEPT ![fd[w]] = Written(@, val[w], n)]
  /\ pc' = [pc EXCEPT ![w] = "idle"]
  /\ UNCHANGED <<tmp, path, fd, val, saved, overlapped>>

\* os.Rename gives the inode that path.tmp names now the name path.
Rename(w) ==
  /\ pc[w] = "written"
  /\ tmp # 0
  /\ path' = tmp
  /\ tmp' = 0
  /\ saved' = val[w]
  /\ pc' = [pc EXCEPT ![w] = "idle"]
  /\ UNCHANGED <<inodes, fd, val, overlapped>>

\* os.Rename fails, another writer having renamed path.tmp already or for any
\* other reason: the save returns the error, and what path.tmp names stays.
RenameFails(w) ==
  /\ pc[w] = "written"
  /\ pc' = [pc EXCEPT ![w] = "idle"]
  /\ UNCHANGED <<inodes, tmp, path, fd, val, saved, overlapped>>

\* os.Remove(path) of the delete operations.
RemoveFile ==
  /\ path # 0
  /\ path' = 0
  /\ saved' = NoFile
  /\ UNCHANGED <<inodes, tmp, pc, fd, val, overlapped>>

\* The process is killed and started again.
Crash ==
  /\ Busy # {}
  /\ pc' = [w \in Writers |-> "idle"]
  /\ UNCHANGED <<inodes, tmp, path, fd, val, saved, overlapped>>

\* The bound on inodes is used up.
Terminated ==
  /\ Busy = {}
  /\ tmp = 0
  /\ Len(inodes) = MaxInodes
  /\ UNCHANGED vars

Next ==
  \/ \E w \in Writers : Open(w) \/ Write(w) \/ WriteFails(w) \/ Rename(w) \/ RenameFails(w)
  \/ RemoveFile
  \/ Crash
  \/ Terminated

Spec == Init /\ [][Next]_vars

-----------------------------------------------------------------------------
Content == [val : Values \cup {Broken}, size : Nat]

TypeOK ==
  /\ inodes \in Seq(Content)
  /\ tmp \in 0 .. Len(inodes)
  /\ path \in 0 .. Len(inodes)
  /\ pc \in [Writers -> {"idle", "opened", "written"}]
  /\ fd \in [Writers -> 0 .. Len(inodes)]
  /\ \A w \in Writers : pc[w] = "opened" => fd[w] # 0
  /\ val \in [Writers -> Values]
  /\ saved \in Values \cup {NoFile}
  /\ overlapped \in BOOLEAN

\* Readers see whole values, changed in single steps, through failed writes and
\* kills: the file implements FileRegister as long as no two saves of the same
\* path overlap.
Register == INSTANCE FileRegister WITH value <- IF overlapped THEN Unknown ELSE Readable
IsRegister == Register!Spec

\* The file is what the last save or removal that reported success left; a save
\* that failed, or was cut off by a kill before its rename, changed nothing.
SavedIsRead == ~overlapped => Readable = saved

=============================================================================
