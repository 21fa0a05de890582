----------------------------- MODULE SnapshotStore -----------------------------
(***************************************************************************)
(* The snapshot store of internal/persist/persist.go: processes that save  *)
(* snapshots into one directory, and the readers of it.  SaveSchema and    *)
(* LoadSchema of internal/schema/persist.go follow the same protocol for a *)
(* single file name.                                                       *)
(*                                                                         *)
(* A save writes path.tmp with os.WriteFile, that is an open that creates  *)
(* or truncates the file and then a write at its beginning, and renames it *)
(* to path.  The path is named after the snapshot's timestamp, which has a *)
(* resolution of one second: saves within a second use the same two names, *)
(* and files are told apart from their names by inodes.                    *)
(*                                                                         *)
(* A file is a list of blocks.  A snapshot is encoded as the blocks of its *)
(* JSON text and, last, the block that ends in the checksum line.          *)
(***************************************************************************)
EXTENDS Positions, Sequences, FiniteSetsExt, SequencesExt

CONSTANTS Writers,     \* goroutines or processes that save snapshots
          Seconds,     \* timestamps of snapshots
          Sizes,       \* how many blocks snapshots are encoded into
          MaxSaves,    \* bound on the number of saves
          Kills,       \* a writer may be killed
          DiskFills,   \* a write may store a part of its data and fail, a
                       \* rename may fail
          PowerFails   \* the machine may lose power

ASSUME BoundsAssumption ==
    MaxSaves \in Nat /\ Seconds \subseteq Nat /\ Sizes \subseteq Nat \ {0, 1}
ASSUME SwitchesAssumption == {Kills, DiskFills, PowerFails} \subseteq BOOLEAN

VARIABLES dir,         \* the directory: file names to inodes
          data,        \* the blocks of each inode
          saving,      \* the call of Save each writer is in: none or one
          saves,       \* the snapshots that Save was called with (history)
          acked,       \* those for which it returned nil (history)
          overlapped,  \* two saves of the same second were at work at once
                       \* (history)
          powerLost    \* the machine has lost power (history)

vars == <<dir, data, saving, saves, acked, overlapped, powerLost>>

Final(ts) == [ts |-> ts, tmp |-> FALSE]

\* Mutant: the directory has one temporary file for all timestamps.
OneTemp(ts) == [ts |-> Min(Seconds), tmp |-> TRUE]

Temp(ts)  == [ts |-> ts, tmp |-> TRUE]

-------------------------------------------------------------------------------
(* Reading *)

Sum == 0

\* What Save writes: the JSON text of the snapshot and its checksum.
Encode(snap) == [i \in 1..snap.size |->
                   [snap |-> snap, block |-> IF i = snap.size THEN Sum ELSE i]]

\* Of a file: the position of its last checksum, the text before it, and
\* whether that text has this checksum.  What comes after it is not looked at.
LastSum(blocks) == Max({0} \cup {i \in DOMAIN blocks : blocks[i].block = Sum})
Text(blocks) == SubSeq(blocks, 1, LastSum(blocks) - 1)

\* Mutant: the checksum is looked for but not compared.
HasSum(blocks) == LastSum(blocks) # 0

Intact(blocks) ==
    /\ LastSum(blocks) # 0
    /\ Append(Text(blocks), blocks[LastSum(blocks)]) = Encode(blocks[LastSum(blocks)].snap)

\* list: the timestamps there is a file for, .tmp files aside.
Listed == {ts \in Seconds : Final(ts) \in DOMAIN dir}

Blocks(ts) == data[dir[Final(ts)]]
Loadable == {ts \in Listed : Intact(Blocks(ts))}
Load(ts) == Text(Blocks(ts))

\* The names sort as the timestamps do.  History skips the files that do not load, and Trend lists their scores; Latest
\* fails on the last file.
History == LET at == InOrder(Loadable) IN [k \in DOMAIN at |-> Load(at[k])]
LatestFound == Listed # {} /\ Max(Listed) \in Loadable

Latest == Load(Max(Listed))

-------------------------------------------------------------------------------
(* Save *)

Init ==
    /\ dir = [n \in {} |-> 0]
    /\ data = <<>>
    /\ saving = [w \in Writers |-> {}]
    /\ saves = {}
    /\ acked = {}
    /\ overlapped = FALSE
    /\ powerLost = FALSE

NewSnap(ts, size) == [id |-> Cardinality(saves) + 1, ts |-> ts, size |-> size]

Returns(w) == saving' = [saving EXCEPT ![w] = {}]
Proceeds(w, s, step) == saving' = [saving EXCEPT ![w] = {[s EXCEPT !.step = step]}]

\* A save of second ts is at work.
Busy(ts) == \E w \in Writers : \E s \in saving[w] : s.snap.ts = ts

\* The call of w when it is at a step: no element or one.
At(w, step) == {s \in saving[w] : s.step = step}

\* Mutant: the file is written in place.
OpenFinal(w, snap) ==
    LET name == Final(snap.ts)
        inode == IF name \in DOMAIN dir THEN dir[name] ELSE Len(data) + 1
    IN  /\ saving[w] = {}
        /\ Cardinality(saves) < MaxSaves
        /\ saves' = saves \cup {snap}
        /\ saving' = [saving EXCEPT ![w] = {[snap |-> snap, inode |-> inode, step |-> "write"]}]
        /\ dir' = [n \in DOMAIN dir \cup {name} |-> IF n = name THEN inode ELSE dir[n]]
        /\ data' = IF name \in DOMAIN dir THEN [data EXCEPT ![inode] = <<>>]
                                          ELSE Append(data, <<>>)
        /\ overlapped' = (overlapped \/ Busy(snap.ts))
        /\ UNCHANGED <<acked, powerLost>>

\* WriteFile opens path.tmp: a file of that name is emptied, also one that
\* another writer is about to write or to rename.
OpenTemp(w, snap) ==
    LET name == Temp(snap.ts)
        inode == IF name \in DOMAIN dir THEN dir[name] ELSE Len(data) + 1
    IN  /\ saving[w] = {}
        /\ Cardinality(saves) < MaxSaves
        /\ saves' = saves \cup {snap}
        /\ saving' = [saving EXCEPT ![w] = {[snap |-> snap, inode |-> inode, step |-> "write"]}]
        /\ dir' = [n \in DOMAIN dir \cup {name} |-> IF n = name THEN inode ELSE dir[n]]
        /\ data' = IF name \in DOMAIN dir THEN [data EXCEPT ![inode] = <<>>]
                                          ELSE Append(data, <<>>)
        /\ overlapped' = (overlapped \/ Busy(snap.ts))
        /\ UNCHANGED <<acked, powerLost>>

\* Blocks written over the beginning of a file leave the rest of it.
Overwrite(old, new) == new \o SubSeq(old, Len(new) + 1, Len(old))

WriteTemp(w) ==
    /\ \E s \in At(w, "write") :
         /\ data' = [data EXCEPT ![s.inode] = Overwrite(@, Encode(s.snap))]
         /\ Proceeds(w, s, "rename")
    /\ UNCHANGED <<dir, saves, acked, overlapped, powerLost>>

\* Mutant: the error of the write is dropped.
WriteFailsUnnoticed(w) ==
    /\ DiskFills
    /\ \E s \in At(w, "write") :
         /\ \E n \in 0..(s.snap.size - 1) :
              data' = [data EXCEPT ![s.inode] = Overwrite(@, SubSeq(Encode(s.snap), 1, n))]
         /\ Proceeds(w, s, "rename")
    /\ UNCHANGED <<dir, saves, acked, overlapped, powerLost>>

\* A short write: Save returns the error and leaves path.tmp where it is.
WriteFails(w) ==
    /\ DiskFills
    /\ \E s \in At(w, "write") : \E n \in 0..(s.snap.size - 1) :
         data' = [data EXCEPT ![s.inode] = Overwrite(@, SubSeq(Encode(s.snap), 1, n))]
    /\ Returns(w)
    /\ UNCHANGED <<dir, saves, acked, overlapped, powerLost>>

\* Rename goes by name: it takes whatever file path.tmp is by now.
RenameTemp(w) ==
    /\ \E s \in At(w, "rename") :
         LET from == Temp(s.snap.ts)
             to   == Final(s.snap.ts)
         IN  /\ from \in DOMAIN dir
             /\ dir' = [n \in (DOMAIN dir \cup {to}) \ {from} |->
                          IF n = to THEN dir[from] ELSE dir[n]]
             /\ acked' = acked \cup {s.snap}
    /\ Returns(w)
    /\ UNCHANGED <<data, saves, overlapped, powerLost>>

\* Another writer has renamed the file away, or the system refuses.
RenameFails(w) ==
    /\ \E s \in At(w, "rename") :
         /\ Temp(s.snap.ts) \in DOMAIN dir => DiskFills
         /\ Proceeds(w, s, "remove")
    /\ UNCHANGED <<dir, data, saves, acked, overlapped, powerLost>>

\* Remove goes by name as well; Save returns the error of the rename.
RemoveTemp(w) ==
    /\ \E s \in At(w, "remove") :
         dir' = [n \in DOMAIN dir \ {Temp(s.snap.ts)} |-> dir[n]]
    /\ Returns(w)
    /\ UNCHANGED <<data, saves, acked, overlapped, powerLost>>

-------------------------------------------------------------------------------
(* Failures *)

Killed(w) ==
    /\ Kills
    /\ saving[w] # {}
    /\ Returns(w)
    /\ UNCHANGED <<dir, data, saves, acked, overlapped, powerLost>>

\* Save never calls Sync: the names survive, and any part of each file.
PowerLost ==
    /\ PowerFails
    /\ \E left \in [DOMAIN data -> 0..Max(Sizes)] :
         data' = [i \in DOMAIN data |-> SubSeq(data[i], 1, Min({left[i], Len(data[i])}))]
    /\ saving' = [w \in Writers |-> {}]
    /\ powerLost' = TRUE
    /\ UNCHANGED <<dir, saves, acked, overlapped>>

Next ==
    \/ \E w \in Writers :
         \/ \E ts \in Seconds, size \in Sizes : OpenTemp(w, NewSnap(ts, size))
         \/ WriteTemp(w) \/ WriteFails(w)
         \/ RenameTemp(w) \/ RenameFails(w) \/ RemoveTemp(w)
         \/ Killed(w)
    \/ PowerLost

Spec == Init /\ [][Next]_vars

-------------------------------------------------------------------------------
(* Properties *)

Snap == [id : 1..MaxSaves, ts : Seconds, size : Sizes]
Block == [snap : Snap, block : Nat]

\* Every variable has its type.
TypeOK ==
    /\ DOMAIN dir \subseteq [ts : Seconds, tmp : BOOLEAN]
    /\ dir \in [DOMAIN dir -> DOMAIN data]
    /\ data \in Seq(Seq(Block))
    /\ \A w \in Writers : saving[w] \subseteq [snap : saves, inode : DOMAIN data,
                                               step : {"write", "rename", "remove"}]
    /\ saves \subseteq Snap /\ acked \subseteq saves
    /\ overlapped \in BOOLEAN /\ powerLost \in BOOLEAN

TextOf(snap) == Front(Encode(snap))

\* SHA-256 integrity: what Load returns for a second is, whole, a snapshot of
\* that second that Save was called with, whatever writers did to each other's
\* files and whatever a crash left of them.
IntegrityHolds ==
    \A ts \in Loadable : \E s \in saves : s.ts = ts /\ Load(ts) = TextOf(s)

\* A file is only listed when a Save of its second returned nil: one that fails
\* on the way leaves nothing that readers of the directory see.
ListedWasAcked == \A ts \in Listed : \E s \in acked : s.ts = ts

\* The snapshot a second should show: the last one acknowledged.
LastAcked(ts) == CHOOSE s \in acked : /\ s.ts = ts
                                      /\ \A t \in acked : t.ts = ts => t.id <= s.id

\* As long as no two saves of the same second were at work at once and power was
\* not lost, History is in every state the last acknowledged snapshot of each
\* second, so that a save, killed or out of disk space at any step, replaces the
\* one before it at once or not at all, and Latest is the last of History
\* whenever there is a file.
HistoryExact ==
    LET at == InOrder({s.ts : s \in acked})
    IN  ~ overlapped /\ ~ powerLost =>
        /\ History = [k \in DOMAIN at |-> TextOf(LastAcked(at[k]))]
        /\ Listed # {} => LatestFound /\ Latest = Last(History)

\* Writers that save at the same time do not disturb each other unless they do
\* so in the same second: a snapshot that is the only one of its second has a
\* file exactly when its Save returned nil, and the file is the snapshot unless
\* power was lost.
SecondsIsolated ==
    \A s \in saves : (\A t \in saves : t.ts = s.ts => t = s) =>
        /\ s.ts \in Listed <=> s \in acked
        /\ s.ts \in Listed /\ ~ powerLost => s.ts \in Loadable /\ Load(s.ts) = TextOf(s)
===============================================================================
