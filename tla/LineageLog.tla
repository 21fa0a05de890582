------------------------------ MODULE LineageLog ------------------------------
(***************************************************************************)
(* The lineage log of internal/lineage/store.go: a writer that appends to  *)
(* the log through a Store, Compact, and the readers.                      *)
(*                                                                         *)
(* A file is a list of tokens.  The line of an entry is three of them, the *)
(* first bytes of its JSON object, the rest of them, and the newline, so   *)
(* that a buffer boundary, a short write or a crash can cut a line in its  *)
(* middle and just before its newline.  A line parses as JSON exactly when *)
(* it is the two parts of one entry.                                       *)
(*                                                                         *)
(* The environment constants say what may happen around the code.          *)
(***************************************************************************)
EXTENDS LineageEntries, TLC

CONSTANTS Rows, Actions,   \* what entries are about
          MaxEntries,      \* bound on the number of Append calls
          Cap,             \* capacity of the bufio.Writer in tokens
          Kills,           \* the writer's process may be killed
          PowerFails,      \* the machine may lose power
          DiskFills,       \* a write of the Store may store a part of its data
                           \* and fail
          CompactFills,    \* a write of Compact may do so
          Compacts,        \* Compact is called
          CompactsLive,    \* Compact is called also while a Store is open
          OpensTorn        \* OpenStore is called also on a log that does not
                           \* end in a newline

ASSUME BoundsAssumption == MaxEntries \in Nat /\ Cap \in Nat /\ Cap >= 3
ASSUME SwitchesAssumption ==
    {Kills, PowerFails, DiskFills, CompactFills, Compacts, CompactsLive, OpensTorn} \subseteq BOOLEAN

VARIABLES file,        \* the tokens of the file at path
          synced,      \* how many of them are on the disk
          fd,          \* Store.file: "none", the file at "log", or an "orphan"
                       \* whose name Compact has given to another file
          buf, werr,   \* Store.w: the buffered tokens and the sticky error
          session,     \* entries the Store has accepted (history)
          call,        \* "none", or the Flush or Close that has yet to Sync
          appended,    \* how many entries Append was called with
          cpc,         \* Compact: "idle", "write" or "rename"
          kept, tmp,   \* its entries to keep, and its temporary file
          acked,       \* entries that Flush or Close has acknowledged and that
                       \* no Compact has removed (history)
          rewritten    \* Compact has replaced the file and no Sync has come
                       \* since (history)

store == <<fd, buf, werr, session, call>>
compaction == <<cpc, kept, tmp>>
history == <<acked, rewritten>>
vars == <<file, synced, store, appended, compaction, history>>

-------------------------------------------------------------------------------
(* Reading *)

Line(e) == <<[part |-> "head", entry |-> e],
             [part |-> "rest", entry |-> e],
             [part |-> "newline"]>>

IsNewline(token) == token.part = "newline"

\* Where the lines of a file begin that are not empty.
LineStarts(f) ==
    {i \in DOMAIN f : ~ IsNewline(f[i]) /\ (i = 1 \/ IsNewline(f[i - 1]))}

Parses(f, i) ==
    /\ i < Len(f)
    /\ f[i].part = "head" /\ f[i + 1].part = "rest"
    /\ f[i].entry = f[i + 1].entry
    /\ i + 2 <= Len(f) => IsNewline(f[i + 2])

\* Where the first line begins that does not parse, if there is one.
FirstBad(f) == Min({i \in LineStarts(f) : ~ Parses(f, i)} \cup {Len(f) + 1})

\* ReadLog: the entries of the lines before that one; the error tells whether a
\* line that parses comes after it.
Entries(f) ==
    LET heads == Pick(f, {i \in 1..(FirstBad(f) - 1) : f[i].part = "head"})
    IN  [k \in DOMAIN heads |-> heads[k].entry]

\* Mutant: a last line that does not parse is corrupt like any other.
ReadErrorAtOnce(f) == IF FirstBad(f) > Len(f) THEN "none" ELSE "corrupt"

ReadError(f) ==
    IF FirstBad(f) > Len(f) THEN "none"
    ELSE IF \E i \in LineStarts(f) : i > FirstBad(f) /\ Parses(f, i) THEN "corrupt"
    ELSE "truncated"

\* CountEntries: the lines that begin like an entry.
CountEntries(f) == Cardinality({i \in LineStarts(f) : f[i].part = "head"})

Visible == Entries(file)

Torn == file # <<>> /\ ~ IsNewline(Last(file))

-------------------------------------------------------------------------------
(* The Store *)

Init ==
    /\ file = <<>> /\ synced = 0
    /\ fd = "none" /\ buf = <<>> /\ werr = FALSE /\ session = {} /\ call = "none"
    /\ appended = 0
    /\ cpc = "idle" /\ kept = <<>> /\ tmp = <<>>
    /\ acked = {} /\ rewritten = FALSE

\* write(2) on the Store's descriptor, opened with O_APPEND.
Write(data) == file' = IF fd = "log" THEN file \o data ELSE file

\* A Store whose writer has failed cannot be closed: Close returns the error
\* before it comes to file.Close.  The program drops it.
OpenStore ==
    /\ fd = "none" \/ werr
    /\ call = "none"
    /\ Torn => OpensTorn
    /\ cpc # "idle" => CompactsLive
    /\ fd' = "log"
    /\ buf' = <<>>
    /\ werr' = FALSE
    /\ session' = {}
    /\ UNCHANGED <<file, synced, call, appended, compaction, history>>

Usable == fd # "none" /\ ~ werr /\ call = "none"

NewEntry(row, action) == [id |-> appended + 1, row |-> row, action |-> action]

\* Append of an entry that fits into the buffer.
AppendBuffered(e) ==
    /\ Usable
    /\ appended < MaxEntries
    /\ appended' = appended + 1
    /\ Len(buf \o Line(e)) <= Cap
    /\ buf' = buf \o Line(e)
    /\ session' = session \cup {e}
    /\ UNCHANGED <<file, synced, fd, werr, call, compaction, history>>

\* Append of one that does not: bufio fills the buffer, writes it out, and
\* buffers what is left of the line.
AppendSpills(e) ==
    /\ Usable
    /\ appended < MaxEntries
    /\ appended' = appended + 1
    /\ LET all == buf \o Line(e)
       IN  /\ Len(all) > Cap
           /\ Write(SubSeq(all, 1, Cap))
           /\ buf' = SubSeq(all, Cap + 1, Len(all))
    /\ session' = session \cup {e}
    /\ UNCHANGED <<synced, fd, werr, call, compaction, history>>

\* The same, but the write stores only a part: the error stays in the writer,
\* and what it holds will never be written.
AppendShort(e) ==
    /\ DiskFills
    /\ Usable
    /\ appended < MaxEntries
    /\ appended' = appended + 1
    /\ Len(buf \o Line(e)) > Cap
    /\ \E n \in 0..(Cap - 1) :
         /\ Write(SubSeq(buf \o Line(e), 1, n))
         /\ buf' = SubSeq(buf \o Line(e), n + 1, Cap)
    /\ werr' = TRUE
    /\ UNCHANGED <<synced, fd, session, call, compaction, history>>

\* Mutant: the buffer is not written before the Sync.
FlushWithoutWriting ==
    /\ Usable
    /\ call' \in {"flush", "close"}
    /\ UNCHANGED <<file, synced, fd, buf, werr, session, appended, compaction, history>>

\* Mutant: the buffer is not emptied after it was written.
FlushKeepsBuffer ==
    /\ Usable
    /\ Write(buf)
    /\ call' \in {"flush", "close"}
    /\ UNCHANGED <<synced, fd, buf, werr, session, appended, compaction, history>>

\* The first half of Flush, called as such or by Close: write the buffer out.
FlushWrites ==
    /\ Usable
    /\ Write(buf)
    /\ buf' = <<>>
    /\ call' \in {"flush", "close"}
    /\ UNCHANGED <<synced, fd, werr, session, appended, compaction, history>>

FlushShort ==
    /\ DiskFills
    /\ Usable
    /\ \E n \in 0..(Len(buf) - 1) :
         /\ Write(SubSeq(buf, 1, n))
         /\ buf' = SubSeq(buf, n + 1, Len(buf))
    /\ werr' = TRUE
    /\ UNCHANGED <<synced, fd, session, call, appended, compaction, history>>

\* The second half: Sync succeeds and the caller of Flush or Close gets nil.
Synced ==
    /\ call # "none"
    /\ synced' = IF fd = "log" THEN Len(file) ELSE synced
    /\ acked' = acked \cup session
    /\ rewritten' = (rewritten /\ fd # "log")
    /\ fd' = IF call = "close" THEN "none" ELSE fd
    /\ call' = "none"
    /\ UNCHANGED <<file, buf, werr, session, appended, compaction>>

\* Sync fails: Flush and Close return its error, and Close leaves the file open.
SyncFails ==
    /\ DiskFills
    /\ call # "none"
    /\ call' = "none"
    /\ UNCHANGED <<file, synced, fd, buf, werr, session, appended, compaction, history>>

-------------------------------------------------------------------------------
(* Compact *)

\* Mutant: the kept entries are grouped by row.
CompactReadsByRow ==
    /\ Compacts
    /\ cpc = "idle"
    /\ fd # "none" => CompactsLive
    /\ ReadError(file) # "corrupt"
    /\ kept' = SortSeq(Compacted(Visible), LAMBDA a, b :
                         a.row < b.row \/ (a.row = b.row /\ a.id < b.id))
    /\ cpc' = "write"
    /\ UNCHANGED <<file, synced, store, appended, tmp, history>>

\* ReadLog, and the choice of what to keep.
CompactReads ==
    /\ Compacts
    /\ cpc = "idle"
    /\ fd # "none" => CompactsLive
    /\ ReadError(file) # "corrupt"
    /\ kept' = Compacted(Visible)
    /\ cpc' = "write"
    /\ UNCHANGED <<file, synced, store, appended, tmp, history>>

\* The lines of a list of entries, three tokens each.
AllLines(es) ==
    [i \in 1..(3 * Len(es)) |-> Line(es[(i + 2) \div 3])[((i + 2) % 3) + 1]]

\* Mutant: a log without dropped rows is copied as it is.
CompactWritesCopy ==
    /\ cpc = "write"
    /\ tmp' = IF Dropped(kept) = {} THEN file ELSE AllLines(kept)
    /\ cpc' = "rename"
    /\ UNCHANGED <<file, synced, store, appended, kept, history>>

\* Create, the writes and Close of the temporary file.  No error of theirs is
\* looked at: on a full disk the file is a part of what it should be.
CompactWrites ==
    /\ cpc = "write"
    /\ \/ tmp' = AllLines(kept)
       \/ /\ CompactFills
          /\ \E n \in 0..Len(AllLines(kept)) : tmp' = SubSeq(AllLines(kept), 1, n)
    /\ cpc' = "rename"
    /\ UNCHANGED <<file, synced, store, appended, kept, history>>

\* The new file has the name at once, but none of it need be on the disk.
CompactRenames ==
    /\ cpc = "rename"
    /\ file' = tmp
    /\ synced' = 0
    /\ fd' = IF fd = "log" THEN "orphan" ELSE fd
    /\ acked' = {e \in acked : e.row \in Dropped(Visible) => e.action = "DROP"}
    /\ rewritten' = TRUE
    /\ cpc' = "idle"
    /\ kept' = <<>>
    /\ tmp' = <<>>
    /\ UNCHANGED <<buf, werr, session, call, appended>>

-------------------------------------------------------------------------------
(* Failures *)

Forget == fd' = "none" /\ buf' = <<>> /\ werr' = FALSE /\ session' = {} /\ call' = "none"

WriterKilled ==
    /\ Kills
    /\ fd # "none"
    /\ Forget
    /\ UNCHANGED <<file, synced, appended, compaction, history>>

\* Compact's process is killed, or os.Create fails.  A temporary file that is
\* left over is truncated by the next Compact.
CompactStops ==
    /\ cpc # "idle"
    /\ cpc' = "idle" /\ kept' = <<>> /\ tmp' = <<>>
    /\ UNCHANGED <<file, synced, store, appended, history>>

\* Of what was not synced any part may have reached the disk; after Compact that
\* includes what had been acknowledged.
PowerLost ==
    /\ PowerFails
    /\ \E n \in synced..Len(file) : file' = SubSeq(file, 1, n) /\ synced' = n
    /\ Forget
    /\ cpc' = "idle" /\ kept' = <<>> /\ tmp' = <<>>
    /\ acked' = IF rewritten THEN acked \cap ToSet(Visible') ELSE acked
    /\ rewritten' = FALSE
    /\ UNCHANGED appended

Next ==
    \/ OpenStore
    \/ \E row \in Rows, action \in Actions :
         LET e == NewEntry(row, action)
         IN  AppendBuffered(e) \/ AppendSpills(e) \/ AppendShort(e)
    \/ FlushWrites \/ FlushShort \/ Synced \/ SyncFails
    \/ CompactReads \/ CompactWrites \/ CompactRenames
    \/ WriterKilled \/ CompactStops \/ PowerLost

Spec == Init /\ [][Next]_vars

-------------------------------------------------------------------------------
(* Properties *)

\* ReadLog returns entries in the order they were appended in, none twice and
\* none that was not, in every state a reader can find the file in: between the
\* two halves of a spilled line, after any failure, across compactions.
EntriesInOrder ==
    LET es == Visible
    IN  \A i, j \in DOMAIN es : i < j => es[i].id < es[j].id

\* Truncation recovery: the log never gets into the state in which ReadLog, and
\* with it Replay and Compact, refuse it as corrupt.
Recoverable == ReadError(file) # "corrupt"

\* Compact answers the questions of a Tracker as before for the rows that were
\* not dropped, and keeps the order in which rows were dropped and modified.
CompactKeepsAnswers ==
    [][CompactRenames =>
         /\ DroppedRows(Visible') = DroppedRows(Visible)
         /\ LET rows == ModifiedRows(Visible)
            IN  ModifiedRows(Visible') =
                  Pick(rows, {k \in DOMAIN rows : rows[k] \notin Dropped(Visible)})
         /\ \A row \in Rows \ Dropped(Visible) :
              EntriesForRow(Visible', row) = EntriesForRow(Visible, row)]_vars

\* After Compact the log reads without error, though it was torn before,
\* CountEntries agrees with ReadLog, and Validate has nothing to report.
CompactRepairs ==
    [][CompactRenames => /\ ReadError(file') = "none"
                         /\ CountEntries(file') = Len(Visible')
                         /\ Validate(Visible') = {}]_vars

\* The log implements the promise of AppendLog to its readers: what Flush or
\* Close has acknowledged stays readable whatever fails afterwards, and whatever
\* part of the entries after it was written.
Promise == INSTANCE AppendLog WITH visible <- Visible
KeepsPromise == Promise!Spec
===============================================================================
