---------------------------- MODULE FrontEndProofs ----------------------------
(***************************************************************************)
(* The safety of what the command reads and writes, for any input, tables, *)
(* rules and options, also when the program is the server.                 *)
(*                                                                         *)
(* The reader: what was passed on, what is buffered, what was read of the  *)
(* first bytes and what is still in the file are always, put together, the *)
(* file or its content.  The files: what each of them holds follows from   *)
(* the step that run has come to.                                          *)
(*                                                                         *)
(* The tables: Clean lists the rows it keeps by their positions, in their  *)
(* order.  What it makes of a table has no row to drop, because a row that *)
(* breaks a rule among fewer rows breaks it among more; and trimming twice *)
(* is trimming once.                                                       *)
(***************************************************************************)
EXTENDS Server, PositionProofs

-------------------------------------------------------------------------------
(* Sequences *)

\* A sequence is cut into two at any place.
LEMMA CutInTwo ==
    ASSUME NEW S, NEW s \in Seq(S), NEW k \in 0..Len(s)
    PROVE  /\ SubSeq(s, 1, k) \in Seq(S)
           /\ SubSeq(s, k + 1, Len(s)) \in Seq(S)
           /\ Len(SubSeq(s, 1, k)) = k
           /\ SubSeq(s, 1, k) \o SubSeq(s, k + 1, Len(s)) = s
<1>1. /\ Len(s) \in Nat
      /\ \A i \in 1..Len(s) : s[i] \in S
  BY ElementOfSeq, LenProperties
<1>2. /\ SubSeq(s, 1, k) \in Seq(S)
      /\ Len(SubSeq(s, 1, k)) = k
  <2>1. \A i \in 1..k : s[i] \in S
    BY <1>1
  <2> QED
    BY <1>1, <2>1, SubSeqProperties
<1>3. SubSeq(s, k + 1, Len(s)) \in Seq(S)
  <2>1. \A i \in (k + 1)..Len(s) : s[i] \in S
    BY <1>1
  <2> QED
    BY <1>1, <2>1, SubSeqProperties
<1>4. SubSeq(s, 1, k) \o SubSeq(s, k + 1, Len(s)) = SubSeq(s, 1, Len(s))
  <2>1. /\ 1 \in 1..(Len(s) + 1)
        /\ k \in (1 - 1)..Len(s)
        /\ Len(s) \in k..Len(s)
    BY <1>1
  <2> QED
    BY <2>1, ConcatAdjacentSubSeq
<1> QED
  BY <1>2, <1>3, <1>4, SubSeqFull

\* The first part of a concatenation is a prefix of it, and what is left without
\* that prefix is the second part.
LEMMA PrefixOfConcat ==
    ASSUME NEW S, NEW s \in Seq(S), NEW t \in Seq(S)
    PROVE  /\ IsPrefix(s, s \o t)
           /\ SubSeq(s \o t, Len(s) + 1, Len(s \o t)) = t
<1>1. /\ s \o t \in Seq(S)
      /\ Len(s \o t) = Len(s) + Len(t)
      /\ Len(s) \in Nat /\ Len(t) \in Nat
  BY ConcatProperties, LenProperties
<1>2. SubSeq(s \o t, 1, Len(s)) = SubSeq(s, 1, Len(s))
  <2>1. CASE Len(s) = 0
    BY <2>1, SubSeqEmpty
  <2>2. CASE Len(s) # 0
    BY <1>1, <2>2, SubSeqOfConcat1
  <2> QED
    BY <2>1, <2>2
<1>3. SubSeq(s \o t, Len(s) + 1, Len(s \o t)) = t
  <2>1. Len(s) \in 0..Len(s \o t)
    BY <1>1
  <2>2. /\ SubSeq(s \o t, 1, Len(s)) = s
        /\ SubSeq(s \o t, Len(s) + 1, Len(s \o t)) \in Seq(S)
    BY <1>1, <1>2, <2>1, CutInTwo, SubSeqFull
  <2>3. s \o SubSeq(s \o t, Len(s) + 1, Len(s \o t)) = s \o t
    BY <1>1, <2>1, <2>2, CutInTwo
  <2> QED
    BY <2>2, <2>3, ConcatSimplifications
<1> QED
  BY <1>1, <1>2, <1>3 DEF IsPrefix

-------------------------------------------------------------------------------
(* The reader *)

ReaderType ==
    /\ input \in Seq(Bytes) /\ ahead \in Seq(Bytes)
    /\ head \in Seq(Bytes) /\ buf \in Seq(Bytes) /\ passed \in Seq(Bytes)
    /\ done \in BOOLEAN

\* Nothing was passed on yet.
Unheaded ==
    /\ passed = <<>> /\ buf = <<>> /\ ended = ""
    /\ input = head \o ahead
    /\ Len(head) <= 3

ReaderInv ==
    /\ ReaderType
    /\ pc = "main" => ~ done /\ head = <<>>
    /\ ~ done => Unheaded
    /\ done /\ ended # "error" => passed \o (buf \o ahead) = Content
    /\ ended = "error" => IsPrefix(passed, Content)
    /\ ended = "EOF" => buf = <<>> /\ ahead = <<>>

\* A step of the program leaves the reader alone, or opens it, or is one of its own.
LEMMA StepOfReader ==
    ASSUME [ServerNext]_<<vars, sessionVars>>
    PROVE  \/ UNCHANGED readerVars /\ (pc' = "main" => pc = "main")
           \/ pc = "main" /\ pc' = "parse" /\ Opened
           \/ pc = "parse" /\ pc' = "parse" /\ Read
<1> USE DEF vars, read, Proceeds, Fails
<1>1. CASE Next
  <2>1. CASE OpenInput
    BY <2>1 DEF OpenInput
  <2>2. CASE ReadInput
    BY <2>2 DEF ReadInput
  <2>3. CASE ParseInput \/ LoadRules \/ Evaluate \/ EvaluateFails
    BY <2>3 DEF ParseInput, LoadRules, Evaluate, EvaluateFails
  <2>4. CASE CleanTable \/ WriteReport \/ WriteCleaned \/ WriteNothing
    BY <2>4 DEF CleanTable, WriteReport, Breaks, WriteCleaned, WriteNothing
  <2>5. CASE Done
    BY <2>5 DEF Done
  <2> QED
    BY <1>1, <2>1, <2>2, <2>3, <2>4, <2>5 DEF Next
<1>2. CASE Serve
  BY <1>2 DEF Serve
<1>3. CASE HandleEvaluate \/ HandleClean \/ HandleProfile \/ Reject
  BY <1>3 DEF HandleEvaluate, HandleClean, HandleProfile, Reject
<1>4. CASE UNCHANGED vars
  BY <1>4
<1> QED
  BY <1>1, <1>2, <1>3, <1>4 DEF ServerNext

LEMMA BOMIsSeq ==
    /\ BOM \in Seq(Bytes)
    /\ Len(BOM) = 3
<1>1. "EF" \in Bytes /\ "BB" \in Bytes /\ "BF" \in Bytes
  BY InputsAssumption
<1>2. \A x, y, z \in Bytes : <<x, y, z>> \in Seq(Bytes)
  OBVIOUS
<1>3. Len(BOM) = 3
  BY DEF BOM
<1> QED
  BY <1>1, <1>2, <1>3, Zenon DEF BOM

\* Three bytes, or all of a shorter file, tell whether there is a byte order mark.
LEMMA HeadDecides ==
    ASSUME ReaderType, Unheaded, Len(head) = Len(BOM) \/ ahead = <<>>
    PROVE  (IF head = BOM THEN <<>> ELSE head) \o ahead = Content
<1>1. BOM \in Seq(Bytes) /\ Len(BOM) = 3
  BY BOMIsSeq
<1>2. /\ Len(head) \in Nat
      /\ Len(head) <= 3
      /\ Len(input) = Len(head) + Len(ahead)
      /\ Len(ahead) \in Nat
  BY ConcatProperties, LenProperties DEF ReaderType, Unheaded
<1>3. CASE head = BOM
  <2>1. /\ IsPrefix(BOM, input)
        /\ SubSeq(input, Len(BOM) + 1, Len(input)) = ahead
    BY <1>3, PrefixOfConcat DEF ReaderType, Unheaded
  <2>2. <<>> \o ahead = ahead
    BY ConcatEmptySeq DEF ReaderType
  <2> QED
    BY <1>3, <2>1, <2>2 DEF Content, WithoutBOM
<1>4. CASE head # BOM
  <2>1. ASSUME IsPrefix(BOM, input)
        PROVE  FALSE
    <3>1. /\ 3 <= Len(input)
          /\ SubSeq(BOM, 1, 3) = SubSeq(input, 1, 3)
      BY <1>1, <2>1 DEF IsPrefix
    <3>2. Len(head) = 3
      <4>1. CASE ahead = <<>>
        <5>1. Len(ahead) = 0
          BY <4>1
        <5> QED
          BY <1>2, <3>1, <5>1
      <4> QED
        BY <1>1, <4>1
    <3>3. SubSeq(input, 1, 3) = head
      <4>1. SubSeq(head \o ahead, 1, Len(head)) = head
        <5>1. Len(head) \in 1..Len(head)
          BY <3>2
        <5>2. /\ head \in Seq(Bytes) /\ ahead \in Seq(Bytes)
              /\ 1 \in 1..Len(head) /\ Len(head) \in 1-1..Len(head)
          BY <3>2 DEF ReaderType
        <5>3. SubSeq(head \o ahead, 1, Len(head)) = SubSeq(head, 1, Len(head))
          BY <5>1, <5>2, SubSeqOfConcat1
        <5> QED
          BY <5>2, <5>3, SubSeqFull
      <4> QED
        BY <3>2, <4>1 DEF Unheaded
    <3>4. SubSeq(BOM, 1, 3) = BOM
      BY <1>1, SubSeqFull
    <3> QED
      BY <1>4, <3>1, <3>3, <3>4
  <2> QED
    BY <1>4, <2>1 DEF Content, WithoutBOM, Unheaded
<1> QED
  BY <1>3, <1>4

LEMMA ContentIsSeq ==
    ASSUME ReaderType
    PROVE  Content \in Seq(Bytes)
<1>1. CASE IsPrefix(BOM, input)
  <2>1. /\ Len(BOM) = 3
        /\ Len(input) \in Nat
        /\ 3 <= Len(input)
    BY <1>1, LenProperties DEF BOM, IsPrefix, ReaderType
  <2>2. 3 \in 0..Len(input)
    BY <2>1
  <2>3. SubSeq(input, 3 + 1, Len(input)) \in Seq(Bytes)
    BY <2>2, CutInTwo DEF ReaderType
  <2> QED
    BY <1>1, <2>1, <2>3 DEF Content, WithoutBOM
<1> QED
  BY <1>1 DEF Content, WithoutBOM, ReaderType

LEMMA EmptyIsPrefix ==
    ASSUME NEW S, NEW s \in Seq(S)
    PROVE  IsPrefix(<<>>, s)
<1>1. /\ <<>> \in Seq(S)
      /\ <<>> \o s = s
  BY ConcatEmptySeq
<1> QED
  BY <1>1, PrefixOfConcat

\* What one read of the file takes from it.
LEMMA AheadCut ==
    ASSUME ReaderType, NEW k \in 1..Len(ahead)
    PROVE  /\ First(k) \in Seq(Bytes) /\ Rest(k) \in Seq(Bytes)
           /\ \A s \in Seq(Bytes) : /\ s \o First(k) \in Seq(Bytes)
                                   /\ Len(s \o First(k)) = Len(s) + k
                                   /\ (s \o First(k)) \o Rest(k) = s \o ahead
<1>1. ahead \in Seq(Bytes) /\ k \in 0..Len(ahead)
  BY LenProperties DEF ReaderType
<1>2. /\ First(k) \in Seq(Bytes) /\ Rest(k) \in Seq(Bytes)
      /\ Len(First(k)) = k
  BY <1>1, CutInTwo DEF First, Rest
<1>3. First(k) \o Rest(k) = ahead
  BY <1>1, CutInTwo DEF First, Rest
<1>4. \A s \in Seq(Bytes) : (s \o First(k)) \o Rest(k) = s \o (First(k) \o Rest(k))
  BY <1>2, ConcatAssociative
<1>5. \A s \in Seq(Bytes) : /\ s \o First(k) \in Seq(Bytes)
                           /\ Len(s \o First(k)) = Len(s) + Len(First(k))
  BY <1>2, ConcatProperties
<1> QED
  BY <1>2, <1>3, <1>4, <1>5

LEMMA OpenedKeepsInv ==
    ASSUME ReaderInv, Opened, pc = "main", pc' = "parse"
    PROVE  ReaderInv'
<1> USE DEF ReaderInv, Opened
<1>1. input' \in Seq(Bytes)
  BY InputsAssumption
<1>2. ReaderType'
  BY <1>1 DEF ReaderType
<1>3. Unheaded'
  <2>1. head' = <<>> /\ input' = ahead'
    BY DEF Unheaded
  <2>2. <<>> \o input' = input' /\ Len(<<>>) = 0
    BY <1>1, ConcatEmptySeq
  <2> QED
    BY <2>1, <2>2 DEF Unheaded
<1> QED
  BY <1>2, <1>3 DEF Unheaded

LEMMA ReadKeepsInv ==
    ASSUME ReaderInv, Read, pc' = "parse"
    PROVE  ReaderInv'
<1> USE DEF ReaderInv
<1>1. CASE FillHead
  <2>1. PICK k \in 1..Len(ahead) :
            /\ Len(head) + k <= 3
            /\ head' = head \o First(k)
            /\ ahead' = Rest(k)
    BY <1>1, BOMIsSeq DEF FillHead
  <2>2. /\ head' \in Seq(Bytes) /\ Len(head') = Len(head) + k
        /\ head' \o ahead' = head \o ahead
        /\ ahead' \in Seq(Bytes)
    <3>1. head \in Seq(Bytes) /\ Rest(k) \in Seq(Bytes)
      BY AheadCut DEF ReaderType
    <3> QED
      BY <2>1, <3>1, AheadCut
  <2>3. ReaderType'
    BY <1>1, <2>2 DEF FillHead, ReaderType
  <2>4. Unheaded'
    BY <1>1, <2>1, <2>2 DEF FillHead, Unheaded
  <2> QED
    BY <1>1, <2>3, <2>4 DEF FillHead, Unheaded
<1>2. CASE TakeHead
  <2>1. Unheaded
    BY <1>2 DEF TakeHead
  <2>2. buf' \in Seq(Bytes) /\ buf' \o ahead' = Content'
    <3>1. /\ Len(head) = Len(BOM) \/ ahead = <<>>
          /\ buf' = IF head = BOM THEN <<>> ELSE head
          /\ UNCHANGED <<input, ahead, head>>
      BY <1>2 DEF TakeHead
    <3>2. Content' = Content
      BY <3>1 DEF Content, WithoutBOM
    <3>3. (IF head = BOM THEN <<>> ELSE head) \o ahead = Content
      BY <2>1, <3>1, HeadDecides
    <3>4. buf' \in Seq(Bytes)
      <4>1. head \in Seq(Bytes) /\ <<>> \in Seq(Bytes)
        BY DEF ReaderType
      <4> QED
        BY <3>1, <4>1
    <3> QED
      BY <3>1, <3>2, <3>3, <3>4
  <2>3. ReaderType'
    BY <1>2, <2>2 DEF TakeHead, ReaderType
  <2>4. passed' = <<>> /\ ended' = ""
    BY <1>2, <2>1 DEF TakeHead, Unheaded
  <2>5. buf' \o ahead' \in Seq(Bytes)
    BY <2>3, ConcatProperties DEF ReaderType
  <2>6. passed' \o (buf' \o ahead') = Content'
    BY <2>2, <2>4, <2>5, ConcatEmptySeq
  <2> QED
    BY <1>2, <2>3, <2>4, <2>6 DEF TakeHead
<1>3. CASE ReadFails
  <2>1. IsPrefix(passed, Content)
    <3>1. CASE done
      <4>1. ahead \in Seq(Bytes) /\ passed \in Seq(Bytes)
        BY DEF ReaderType
      <4>2. passed \o ahead = Content
        BY <1>3, <3>1, <4>1, ConcatEmptySeq DEF ReadFails
      <4> QED
        BY <4>1, <4>2, PrefixOfConcat
    <3>2. CASE ~ done
      BY <3>2, ContentIsSeq, EmptyIsPrefix DEF Unheaded
    <3> QED
      BY <3>1, <3>2
  <2> QED
    BY <1>3, <2>1 DEF ReadFails, Content, WithoutBOM, ReaderType
<1>4. CASE PassBuffer
  <2>1. /\ passed \in Seq(Bytes) /\ buf \in Seq(Bytes) /\ ahead \in Seq(Bytes)
        /\ passed' = passed \o buf /\ buf' = <<>> /\ ahead' = ahead
    BY <1>4 DEF PassBuffer, ReaderType
  <2>2. passed' \o (buf' \o ahead') = passed \o (buf \o ahead)
    BY <2>1, ConcatEmptySeq, ConcatAssociative
  <2>3. ReaderType'
    <3>1. passed \o buf \in Seq(Bytes) /\ <<>> \in Seq(Bytes)
      BY <2>1, ConcatProperties
    <3>2. passed' \in Seq(Bytes) /\ buf' \in Seq(Bytes)
      BY <2>1, <3>1
    <3> QED
      BY <1>4, <3>2 DEF PassBuffer, ReaderType
  <2> QED
    BY <1>4, <2>2, <2>3 DEF PassBuffer, Content, WithoutBOM
<1>5. CASE PassRead /\ ahead = <<>>
  BY <1>5 DEF PassRead, Content, WithoutBOM, ReaderType
<1>6. CASE PassRead /\ ahead # <<>>
  <2>1. PICK k \in 1..Len(ahead) : passed' = passed \o First(k) /\ ahead' = Rest(k)
    BY <1>6 DEF PassRead
  <2>2. passed \in Seq(Bytes) /\ First(k) \in Seq(Bytes) /\ Rest(k) \in Seq(Bytes)
    BY AheadCut DEF ReaderType
  <2>3. passed' \o ahead' = passed \o ahead
    BY <2>1, <2>2, AheadCut
  <2>4. /\ <<>> \o ahead = ahead
        /\ <<>> \o ahead' = ahead'
        /\ passed' \in Seq(Bytes)
    BY <2>1, <2>2, ConcatEmptySeq, ConcatProperties DEF ReaderType
  <2>5. ReaderType'
    BY <1>6, <2>1, <2>2, <2>4 DEF PassRead, ReaderType
  <2> QED
    BY <1>6, <2>3, <2>4, <2>5 DEF PassRead, Content, WithoutBOM
<1> QED
  BY <1>1, <1>2, <1>3, <1>4, <1>5, <1>6 DEF Read

LEMMA ReaderInvInductive ==
    /\ ServerInit => ReaderInv
    /\ ReaderInv /\ [ServerNext]_<<vars, sessionVars>> => ReaderInv'
<1>1. ASSUME ServerInit
      PROVE  ReaderInv
  <2>1. /\ <<>> \in Seq(Bytes)
        /\ <<>> \o <<>> = <<>>
        /\ Len(<<>>) <= 3
    OBVIOUS
  <2> QED
    BY <1>1, <2>1 DEF ServerInit, Init, ReaderInit, ReaderInv, ReaderType, Unheaded
<1>2. ASSUME ReaderInv, [ServerNext]_<<vars, sessionVars>>
      PROVE  ReaderInv'
  <2>1. CASE UNCHANGED readerVars /\ (pc' = "main" => pc = "main")
    BY <1>2, <2>1 DEF readerVars, ReaderInv, ReaderType, Unheaded, Content, WithoutBOM
  <2>2. CASE pc = "main" /\ pc' = "parse" /\ Opened
    BY <1>2, <2>2, OpenedKeepsInv
  <2>3. CASE pc = "parse" /\ pc' = "parse" /\ Read
    BY <1>2, <2>3, ReadKeepsInv
  <2> QED
    BY <1>2, <2>1, <2>2, <2>3, StepOfReader
<1> QED
  BY <1>1, <1>2

LEMMA ReaderInvImplies == ReaderInv => BytesExact
<1> SUFFICES ASSUME ReaderInv PROVE BytesExact
  OBVIOUS
<1> USE DEF ReaderInv
<1>1. /\ passed \in Seq(Bytes)
      /\ buf \o ahead \in Seq(Bytes)
  BY ConcatProperties DEF ReaderType
<1>2. IsPrefix(passed, Content)
  <2>1. CASE ~ done
    BY <2>1, ContentIsSeq, EmptyIsPrefix DEF Unheaded
  <2>2. CASE done /\ ended # "error"
    BY <1>1, <2>2, PrefixOfConcat
  <2>3. CASE ended = "error"
    BY <2>3
  <2> QED
    BY <2>1, <2>2, <2>3
<1>3. ASSUME ended = "EOF"
      PROVE  passed = Content
  <2>1. done /\ buf = <<>> /\ ahead = <<>>
    BY <1>3 DEF Unheaded, ReaderType
  <2>2. <<>> \o <<>> = <<>> /\ passed \o <<>> = passed
    BY <1>1, ConcatEmptySeq
  <2> QED
    BY <1>3, <2>1, <2>2
<1> QED
  BY <1>2, <1>3 DEF BytesExact

\* However the bytes arrive, the CSV reader gets the content of the file behind
\* its byte order mark, and the whole of it before it is told of the end.
THEOREM BytesCorrect == ServerSpec => []BytesExact
<1>1. ServerInit => ReaderInv
  BY ReaderInvInductive
<1>2. ReaderInv /\ [ServerNext]_<<vars, sessionVars>> => ReaderInv'
  BY ReaderInvInductive
<1>3. ReaderInv => BytesExact
  BY ReaderInvImplies
<1> QED
  BY <1>1, <1>2, <1>3, PTL DEF ServerSpec

-------------------------------------------------------------------------------
(* The files *)

TheReport == Report(table, rules)

Untouched(paths) == \A p \in paths : files[p] = Before

FilesInv ==
    /\ reportPath \in {"-", "a"} /\ outPath \in {"", "a", "b"}
    /\ DOMAIN files = Paths
    /\ pc \in {"clean", "report"} => rep = {TheReport}
    /\ pc \notin {"out", "done"} => Untouched(Paths \ {"-"})
    /\ pc = "out" => /\ files[reportPath] = Whole(TheReport)
                     /\ Untouched(Paths \ {"-", reportPath})
    /\ pc = "done" => OutputAfterReport

LEMMA FilesInvImplies == FilesInv => OutputAfterReport
BY DEF FilesInv, OutputAfterReport, Untouched, Paths, TheReport

\* A step that writes no file, and ends the program or goes on before a report
\* was made.
LEMMA EarlyStep ==
    ASSUME FilesInv, pc \notin {"out", "done"},
           UNCHANGED <<reportPath, outPath, files>>,
           pc' \notin {"clean", "report", "out"}
    PROVE  FilesInv'
BY DEF FilesInv, OutputAfterReport, Untouched, Paths

LEMMA FilesStep ==
    ASSUME FilesInv, Next
    PROVE  FilesInv'
<1> USE DEF FilesInv, arguments
<1>1. CASE OpenInput
  <2>1. /\ pc = "main" /\ pc' \in {"parse", "done"}
        /\ reportPath' \in {"-", "a"} /\ outPath' \in {"", "a", "b"}
        /\ files' = files
    BY <1>1 DEF OpenInput, Proceeds, Fails
  <2> QED
    BY <2>1 DEF OutputAfterReport, Untouched, Paths
<1>2. CASE ReadInput
  BY <1>2, EarlyStep DEF ReadInput
<1>3. CASE ParseInput \/ LoadRules
  BY <1>3, EarlyStep DEF ParseInput, LoadRules, Proceeds, Fails
<1>4. CASE EvaluateFails
  BY <1>4, EarlyStep DEF EvaluateFails, Fails
<1>5. CASE Evaluate
  <2>1. /\ pc = "evaluate" /\ pc' = "clean"
        /\ rep' = {TheReport'}
        /\ UNCHANGED <<reportPath, outPath, files>>
    BY <1>5 DEF Evaluate, Proceeds, TheReport, read
  <2> QED
    BY <2>1 DEF Untouched
<1>6. CASE CleanTable
  <2>1. /\ pc = "clean" /\ pc' = "report"
        /\ TheReport' = TheReport
        /\ UNCHANGED <<reportPath, outPath, files, rep>>
    BY <1>6 DEF CleanTable, Proceeds, TheReport, read
  <2> QED
    BY <2>1 DEF Untouched
<1>7. CASE WriteReport
  <2>1. /\ pc = "report"
        /\ UNCHANGED <<reportPath, outPath, rep>>
        /\ rep = {TheReport} /\ TheReport' = TheReport
        /\ reportPath \in Paths
    BY <1>7 DEF WriteReport, TheReport, read, Paths
  <2>2. CASE pc' = "out" /\ files' = [files EXCEPT ![reportPath] = Whole(TheReport)]
    <3>1. files'[reportPath] = Whole(TheReport)
      BY <2>1, <2>2
    <3>2. Untouched(Paths \ {"-", reportPath})'
      BY <2>1, <2>2 DEF Untouched
    <3> QED
      BY <2>1, <2>2, <3>1, <3>2 DEF Whole
  <2>3. CASE pc' = "done" /\ (files' = files \/ files' = [files EXCEPT ![reportPath] = Part])
    <3>1. Untouched(Paths \ {"-", reportPath})'
      BY <2>1, <2>3 DEF Untouched
    <3>2. OutputAfterReport'
      BY <2>1, <3>1 DEF OutputAfterReport, Untouched, Paths
    <3> QED
      BY <2>1, <2>3, <3>2
  <2>4. WriteReport => \/ pc' = "out" /\ files' = [files EXCEPT ![reportPath] = Whole(TheReport)]
                       \/ /\ pc' = "done"
                          /\ files' = files \/ files' = [files EXCEPT ![reportPath] = Part]
    BY <2>1 DEF WriteReport, Store, Proceeds, Breaks, Fails
  <2> QED
    BY <1>7, <2>2, <2>3, <2>4
<1>8. CASE WriteCleaned
  <2>1. /\ pc = "out" /\ pc' = "done"
        /\ UNCHANGED <<reportPath, outPath>>
        /\ TheReport' = TheReport
        /\ outPath \in Paths /\ reportPath \in Paths
    BY <1>8 DEF WriteCleaned, TheReport, read, Paths, Proceeds, Fails, Breaks
  <2>2. files' = files \/ \E x : files' = [files EXCEPT ![outPath] = x]
    BY <1>8 DEF WriteCleaned, Store, Breaks
  <2>3. DOMAIN files' = Paths
    BY <2>2
  <2>4. outPath # reportPath => files'[reportPath] = files[reportPath]
    BY <2>1, <2>2
  <2>5. OutputAfterReport'
    BY <2>1, <2>4 DEF OutputAfterReport, TheReport
  <2> QED
    BY <2>1, <2>3, <2>5
<1>9. CASE WriteNothing
  <2>1. /\ pc' = "done" /\ outPath' = ""
        /\ UNCHANGED <<reportPath, outPath, files>>
    BY <1>9 DEF WriteNothing, Proceeds
  <2> QED
    BY <2>1 DEF OutputAfterReport
<1>10. CASE Done
  BY <1>10 DEF Done, vars, read, OutputAfterReport
<1> QED
  BY <1>1, <1>2, <1>3, <1>4, <1>5, <1>6, <1>7, <1>8, <1>9, <1>10 DEF Next

LEMMA FilesInvInductive ==
    /\ ServerInit => FilesInv
    /\ FilesInv /\ [ServerNext]_<<vars, sessionVars>> => FilesInv'
<1>1. ServerInit => FilesInv
  BY DEF ServerInit, Init, FilesInv, Untouched, Paths
<1>2. ASSUME FilesInv, [ServerNext]_<<vars, sessionVars>>
      PROVE  FilesInv'
  <2>1. CASE Next
    BY <1>2, <2>1, FilesStep
  <2>2. CASE Serve
    BY <1>2, <2>2, EarlyStep DEF Serve, arguments
  <2>3. CASE UNCHANGED vars
    BY <1>2, <2>3 DEF FilesInv, vars, arguments, read, TheReport, Untouched, OutputAfterReport
  <2>4. ServerNext => Next \/ Serve \/ UNCHANGED vars
    BY DEF ServerNext, HandleEvaluate, HandleClean, HandleProfile, Reject
  <2> QED
    BY <1>2, <2>1, <2>2, <2>3, <2>4
<1> QED
  BY <1>1, <1>2

\* A file is given up for new output only when the report on it was delivered.
THEOREM OutputCorrect == ServerSpec => []OutputAfterReport
<1>1. ServerInit => FilesInv
  BY FilesInvInductive
<1>2. FilesInv /\ [ServerNext]_<<vars, sessionVars>> => FilesInv'
  BY FilesInvInductive
<1> QED
  BY <1>1, <1>2, FilesInvImplies, PTL DEF ServerSpec

-------------------------------------------------------------------------------
(* Tables *)

\* What is left when the blanks around a text are taken off has none around it.
LEMMA TrimTwice ==
    ASSUME NEW c, IsList(c)
    PROVE  IsList(TrimSpace(c)) /\ TrimSpace(TrimSpace(c)) = TrimSpace(c)
<1> DEFINE Ink(x) == {i \in DOMAIN x : x[i] # Blank}
<1>0. \A x : TrimSpace(x) = IF Ink(x) = {} THEN <<>> ELSE SubSeq(x, Min(Ink(x)), Max(Ink(x)))
  BY DEF TrimSpace, Empty
<1>1. ASSUME Ink(c) = {}
      PROVE  IsList(TrimSpace(c)) /\ TrimSpace(TrimSpace(c)) = TrimSpace(c)
  <2>1. TrimSpace(c) = <<>>
    BY <1>0, <1>1
  <2>2. Ink(<<>>) = {}
    OBVIOUS
  <2>3. IsList(<<>>)
    BY DEF IsList
  <2> HIDE DEF Ink
  <2> QED
    BY <1>0, <2>1, <2>2, <2>3
<1>2. ASSUME Ink(c) # {}
      PROVE  IsList(TrimSpace(c)) /\ TrimSpace(TrimSpace(c)) = TrimSpace(c)
  <2>1. /\ c \in Seq(ToSet(c)) /\ Len(c) \in Nat /\ DOMAIN c = 1..Len(c)
        /\ Ink(c) \in SUBSET (1..Len(c)) /\ Ink(c) \in SUBSET Nat /\ IsFiniteSet(Ink(c))
    BY ListTyped, FS_Subset
  <2>2. /\ Min(Ink(c)) \in Ink(c) /\ Max(Ink(c)) \in Ink(c)
        /\ \A i \in Ink(c) : Min(Ink(c)) <= i
    <3> HIDE DEF Ink
    <3> QED
      BY <1>2, <2>1, MinIsLeast, MaxIsLargest
  <2>3. PICK lo \in 1..Len(c) : lo = Min(Ink(c)) /\ c[lo] # Blank
    BY <2>1, <2>2
  <2>4. PICK hi \in 1..Len(c) : hi = Max(Ink(c)) /\ c[hi] # Blank
    BY <2>1, <2>2
  <2>5. lo <= hi
    BY <2>2, <2>3, <2>4
  <2> DEFINE d == SubSeq(c, lo, hi)
             m == hi - lo + 1
  <2>6. TrimSpace(c) = d
    <3> HIDE DEF Ink
    <3> QED
      BY <1>0, <1>2, <2>3, <2>4
  <2>7. /\ d \in Seq(ToSet(c)) /\ Len(d) = m
        /\ \A i \in 1..m : d[i] = c[lo + i - 1]
    <3>1. \A i \in lo..hi : c[i] \in ToSet(c)
      BY <2>1 DEF ToSet
    <3> QED
      BY <2>1, <2>5, <3>1, SubSeqProperties
  <2>8. m \in Nat /\ 1 \in 1..m /\ m \in 1..m /\ lo + m - 1 = hi /\ lo + 1 - 1 = lo
    BY <2>1, <2>5
  <2>9. d[1] # Blank /\ d[m] # Blank /\ DOMAIN d = 1..m
    <3> HIDE DEF d, m
    <3>1. d[1] = c[lo + 1 - 1] /\ d[m] = c[lo + m - 1]
      BY <2>7, <2>8
    <3>2. DOMAIN d = 1..m
      BY <2>7, LenProperties
    <3> QED
      BY <2>3, <2>4, <2>8, <3>1, <3>2
  <2>10. IsList(d)
    <3> HIDE DEF d, m
    <3>1. d \in [1..m -> ToSet(c)]
      BY <2>7, <2>8, LenProperties, ElementOfSeq
    <3> QED
      BY <2>8, <3>1, FunctionIsList
  <2> HIDE DEF d, m
  <2>11. Min(Ink(d)) = 1 /\ Max(Ink(d)) = m /\ Ink(d) # {}
    <3>1. 1 \in Ink(d) /\ m \in Ink(d) /\ Ink(d) \in SUBSET (1..m)
      BY <2>8, <2>9
    <3>2. IsFiniteSet(Ink(d)) /\ Ink(d) \in SUBSET Nat
      <4>1. m \in Int /\ 1 \in Int /\ 1..m \in SUBSET Nat
        BY <2>8
      <4>2. IsFiniteSet(1..m)
        BY <4>1, FS_Interval
      <4> HIDE DEF Ink
      <4> QED
        BY <3>1, <4>1, <4>2, FS_Subset
    <3>3. /\ Min(Ink(d)) \in Ink(d) /\ \A i \in Ink(d) : Min(Ink(d)) <= i
          /\ Max(Ink(d)) \in Ink(d) /\ \A i \in Ink(d) : Max(Ink(d)) >= i
      <4> HIDE DEF Ink
      <4> QED
        BY <3>1, <3>2, MinIsLeast, MaxIsLargest
    <3>4. Min(Ink(d)) \in 1..m /\ Max(Ink(d)) \in 1..m /\ Min(Ink(d)) <= 1 /\ Max(Ink(d)) >= m
      BY <3>1, <3>3
    <3> HIDE DEF Ink
    <3> QED
      BY <2>8, <3>1, <3>4
  <2>12. SubSeq(d, 1, m) = d
    BY <2>7, SubSeqFull
  <2>13. TrimSpace(d) = d
    <3> HIDE DEF Ink
    <3> QED
      BY <1>0, <2>11, <2>12
  <2> QED
    BY <2>6, <2>10, <2>13
<1> QED
  BY <1>1, <1>2

LEMMA TrimRowTwice ==
    ASSUME NEW row, IsList(row), \A j \in DOMAIN row : IsList(row[j])
    PROVE  /\ IsList(TrimRow(row)) /\ DOMAIN TrimRow(row) = DOMAIN row
           /\ \A j \in DOMAIN row : IsList(TrimRow(row)[j])
           /\ TrimRow(TrimRow(row)) = TrimRow(row)
<1> DEFINE u == TrimRow(row)
<1>1. /\ DOMAIN u = DOMAIN row
      /\ \A j \in DOMAIN row : u[j] = TrimSpace(row[j])
      /\ u = [j \in DOMAIN row |-> TrimSpace(row[j])]
  BY DEF TrimRow
<1>2. IsList(u)
  <2>1. Len(row) \in Nat /\ DOMAIN row = 1..Len(row)
    BY ListTyped
  <2>2. u \in [1..Len(row) -> {TrimSpace(row[j]) : j \in DOMAIN row}]
    BY <1>1, <2>1
  <2> HIDE DEF u
  <2> QED
    BY <2>1, <2>2, FunctionIsList
<1>3. \A j \in DOMAIN row : IsList(u[j]) /\ TrimSpace(u[j]) = u[j]
  BY <1>1, TrimTwice
<1>4. TrimRow(u) = u
  <2>1. TrimRow(u) = [j \in DOMAIN u |-> TrimSpace(u[j])]
    BY DEF TrimRow
  <2> HIDE DEF u
  <2> QED
    BY <1>1, <1>3, <2>1
<1> QED
  BY <1>1, <1>2, <1>3, <1>4

-------------------------------------------------------------------------------
(* Clean *)

\* What Clean makes of a row it keeps.
Kept(row, o) == IF o.trim THEN TrimRow(row) ELSE row

CleanedBy(t, rs, o) == Clean(t, rs, Report(t, rs), o)

\* The rows that Clean drops.
Dropped(t, rs, o, i) ==
    o.drop /\ \E q \in DOMAIN rs : rs[q].critical /\ Violates(t, rs[q], i)

KeptBy(t, rs, o) == {i \in DOMAIN t.rows : ~ Dropped(t, rs, o, i)}

LEMMA KeptRowsAre ==
    ASSUME NEW t, NEW rs, NEW o
    PROVE  KeptRows(t, rs, Report(t, rs), o) = KeptBy(t, rs, o)
<1>1. ASSUME NEW i \in DOMAIN t.rows
      PROVE  i \in DropRows(rs, Report(t, rs)) <=>
               \E q \in DOMAIN rs : rs[q].critical /\ Violates(t, rs[q], i)
  <2>1. ASSUME NEW q \in DOMAIN rs, rs[q].critical, Violates(t, rs[q], i)
        PROVE  i \in DropRows(rs, Report(t, rs))
    <3> DEFINE v == [row |-> i, rule |-> q]
    <3>1. v \in Violations(t, rs) /\ v.row = i /\ v.rule = q
      BY <2>1 DEF Violations
    <3> QED
      BY <2>1, <3>1 DEF DropRows, Report
  <2>2. ASSUME i \in DropRows(rs, Report(t, rs))
        PROVE  \E q \in DOMAIN rs : rs[q].critical /\ Violates(t, rs[q], i)
    BY <2>2 DEF DropRows, Report, Violations
  <2> QED
    BY <2>1, <2>2
<1> QED
  BY <1>1 DEF KeptRows, KeptBy, Dropped

\* The rows of the cleaned table are those that were kept, in their order.
LEMMA CleanRows ==
    ASSUME NEW t, IsTable(t), NEW rs, NEW o
    PROVE  LET S == KeptBy(t, rs, o)
               n == Cardinality(S)
               u == CleanedBy(t, rs, o)
           IN  /\ u = [header |-> t.header, rows |-> u.rows]
               /\ S \in SUBSET DOMAIN t.rows
               /\ n \in Nat
               /\ \A k \in 1..n : Nth(S, k) \in S
               /\ \A k, l \in 1..n : k < l => Nth(S, k) < Nth(S, l)
               /\ \A i \in S : \E k \in 1..n : Nth(S, k) = i
               /\ DOMAIN u.rows = 1..n
               /\ \A k \in 1..n : u.rows[k] = Kept(t.rows[Nth(S, k)], o)
               /\ IsTable(u)
<1> DEFINE S == KeptBy(t, rs, o)
           n == Cardinality(S)
           u == CleanedBy(t, rs, o)
           rows == [k \in 1..n |-> Kept(t.rows[Nth(S, k)], o)]
<1>1. S \in SUBSET DOMAIN t.rows
  BY DEF KeptBy
<1>2. S \in SUBSET Nat /\ IsFiniteSet(S)
  <2>1. DOMAIN t.rows \in SUBSET Nat /\ IsFiniteSet(DOMAIN t.rows)
    BY ListTyped DEF IsTable
  <2> HIDE DEF S
  <2> QED
    BY <1>1, <2>1, FS_Subset
<1>3. /\ n \in Nat
      /\ \A k \in 1..n : Nth(S, k) \in S
      /\ \A k, l \in 1..n : k < l => Nth(S, k) < Nth(S, l)
      /\ \A i \in S : \E k \in 1..n : Nth(S, k) = i
  <2> HIDE DEF S
  <2> QED
    BY <1>2, NthLists
<1>4. u = [header |-> t.header, rows |-> rows]
  BY KeptRowsAre DEF CleanedBy, Clean, Kept
<1>5. u.rows = rows /\ u.header = t.header
  BY <1>4
<1>6. /\ DOMAIN u.rows = 1..n
      /\ \A k \in 1..n : u.rows[k] = Kept(t.rows[Nth(S, k)], o)
  BY <1>5
<1> HIDE DEF S, n, u, rows
<1>7. \A k \in 1..n : /\ IsList(u.rows[k])
                      /\ \A j \in DOMAIN u.rows[k] : IsList(u.rows[k][j])
  <2> TAKE k \in 1..n
  <2>1. Nth(S, k) \in DOMAIN t.rows
    BY <1>1, <1>3
  <2> DEFINE row == t.rows[Nth(S, k)]
  <2>2. IsList(row) /\ \A j \in DOMAIN row : IsList(row[j])
    BY <2>1 DEF IsTable
  <2>3. u.rows[k] = Kept(row, o)
    BY <1>6
  <2> HIDE DEF row
  <2> QED
    BY <2>2, <2>3, TrimRowTwice DEF Kept
<1>8. IsTable(u)
  <2>1. IsList(u.rows)
    <3>1. rows \in [1..n -> {Kept(t.rows[Nth(S, k)], o) : k \in 1..n}]
      BY DEF rows
    <3> QED
      BY <1>3, <1>5, <3>1, FunctionIsList
  <2>2. IsList(u.header)
    BY <1>5 DEF IsTable
  <2> QED
    BY <1>6, <1>7, <2>1, <2>2 DEF IsTable
<1> QED
  BY <1>1, <1>3, <1>4, <1>5, <1>6, <1>8 DEF S, n, u

-------------------------------------------------------------------------------
(* Cleaning what was cleaned *)

\* The cells are trimmed, if the options ask for it.
Trimmed(t, o) == \A i \in DOMAIN t.rows : Kept(t.rows[i], o) = t.rows[i]

\* Clean has nothing to do.
Settled(t, rs, o) ==
    Trimmed(t, o) /\ \A i \in DOMAIN t.rows : ~ Dropped(t, rs, o, i)

LEMMA CleanTrims ==
    ASSUME NEW t, IsTable(t), NEW rs, NEW o
    PROVE  Trimmed(CleanedBy(t, rs, o), o)
<1> DEFINE S == KeptBy(t, rs, o)
           n == Cardinality(S)
           u == CleanedBy(t, rs, o)
<1>1. /\ S \in SUBSET DOMAIN t.rows
      /\ DOMAIN u.rows = 1..n
      /\ \A k \in 1..n : Nth(S, k) \in S /\ u.rows[k] = Kept(t.rows[Nth(S, k)], o)
  BY CleanRows
<1> HIDE DEF S, n, u
<1>2. ASSUME NEW k \in 1..n
      PROVE  Kept(u.rows[k], o) = u.rows[k]
  <2> DEFINE row == t.rows[Nth(S, k)]
  <2>1. IsList(row) /\ \A j \in DOMAIN row : IsList(row[j])
    BY <1>1 DEF IsTable
  <2>2. u.rows[k] = Kept(row, o)
    BY <1>1
  <2> HIDE DEF row
  <2> QED
    BY <2>1, <2>2, TrimRowTwice DEF Kept
<1> QED
  BY <1>1, <1>2 DEF Trimmed, u

\* A row of the cleaned table that breaks a rule broke it before: rows that are
\* dropped leave fewer to be compared with.
LEMMA ViolatesLess ==
    ASSUME NEW t, NEW u, NEW n \in Nat, NEW g,
           u.header = t.header, DOMAIN u.rows = 1..n,
           \A k \in 1..n : g[k] \in DOMAIN t.rows /\ u.rows[k] = t.rows[g[k]],
           \A k, l \in 1..n : k # l => g[k] # g[l],
           NEW rule, NEW k \in 1..n, Violates(u, rule, k)
    PROVE  Violates(t, rule, g[k])
<1>1. ColumnOf(u, rule.column) = ColumnOf(t, rule.column)
  BY DEF ColumnOf
<1>2. \A l \in 1..n : Value(u, rule.column, l) = Value(t, rule.column, g[l])
  BY <1>1 DEF Value
<1>3. Repeated(u, rule, k) => Repeated(t, rule, g[k])
  BY <1>2 DEF Repeated
<1> QED
  BY <1>2, <1>3 DEF Violates

LEMMA CleanSettled ==
    ASSUME NEW t, IsTable(t), NEW rs, NEW o, Trimmed(t, o)
    PROVE  Settled(CleanedBy(t, rs, o), rs, o)
<1> DEFINE S == KeptBy(t, rs, o)
           n == Cardinality(S)
           u == CleanedBy(t, rs, o)
           g == [k \in 1..n |-> Nth(S, k)]
<1>1. /\ u = [header |-> t.header, rows |-> u.rows]
      /\ S \in SUBSET DOMAIN t.rows
      /\ n \in Nat
      /\ \A k \in 1..n : Nth(S, k) \in S
      /\ \A k, l \in 1..n : k < l => Nth(S, k) < Nth(S, l)
      /\ DOMAIN u.rows = 1..n
      /\ \A k \in 1..n : u.rows[k] = Kept(t.rows[Nth(S, k)], o)
  BY CleanRows
<1>2. \A i \in S : i \in Nat /\ i \in DOMAIN t.rows /\ ~ Dropped(t, rs, o, i)
  <2>1. DOMAIN t.rows \in SUBSET Nat
    BY ListTyped DEF IsTable
  <2> QED
    BY <2>1 DEF KeptBy
<1>3. u.header = t.header
  BY <1>1
<1> HIDE DEF S, n, u
<1>4. /\ \A k \in 1..n : g[k] \in S /\ u.rows[k] = t.rows[g[k]]
      /\ \A k, l \in 1..n : k # l => g[k] # g[l]
  <2>1. \A k \in 1..n : g[k] \in S /\ u.rows[k] = t.rows[g[k]]
    BY <1>1 DEF Trimmed
  <2>2. \A k, l \in 1..n : k < l => g[k] < g[l]
    BY <1>1
  <2>3. \A k \in 1..n : k \in Nat /\ g[k] \in Nat
    BY <1>1, <1>2, <2>1
  <2> HIDE DEF g
  <2>4. ASSUME NEW k \in 1..n, NEW l \in 1..n, k # l
        PROVE  g[k] # g[l]
    <3>1. k < l \/ l < k
      BY <2>3, <2>4
    <3>2. g[k] < g[l] \/ g[l] < g[k]
      BY <2>2, <3>1
    <3> QED
      BY <2>3, <3>2
  <2> QED
    BY <2>1, <2>4
<1> HIDE DEF g
<1>5. ASSUME NEW k \in 1..n, Dropped(u, rs, o, k)
      PROVE  FALSE
  <2>1. PICK q \in DOMAIN rs : rs[q].critical /\ Violates(u, rs[q], k)
    BY <1>5 DEF Dropped
  <2>2. Violates(t, rs[q], g[k])
    BY <1>1, <1>2, <1>3, <1>4, <2>1, ViolatesLess
  <2>3. Dropped(t, rs, o, g[k])
    BY <1>5, <2>1, <2>2 DEF Dropped
  <2> QED
    BY <1>2, <1>4, <2>3
<1>6. Trimmed(u, o)
  BY CleanTrims DEF u
<1> QED
  BY <1>1, <1>5, <1>6 DEF Settled, u

LEMMA SettledStays ==
    ASSUME NEW t, IsTable(t), t = [header |-> t.header, rows |-> t.rows],
           NEW rs, NEW o, Settled(t, rs, o)
    PROVE  CleanedBy(t, rs, o) = t
<1> DEFINE S == KeptBy(t, rs, o)
           u == CleanedBy(t, rs, o)
           m == Len(t.rows)
<1>1. m \in Nat /\ DOMAIN t.rows = 1..m
  BY ListTyped DEF IsTable
<1>2. S = 1..m
  BY <1>1 DEF Settled, KeptBy
<1>3. /\ u = [header |-> t.header, rows |-> u.rows]
      /\ DOMAIN u.rows = 1..Cardinality(S)
      /\ \A k \in 1..Cardinality(S) : u.rows[k] = Kept(t.rows[Nth(S, k)], o)
      /\ IsTable(u)
  BY CleanRows
<1> HIDE DEF S, m, u
<1>4. Cardinality(1..m) = m /\ \A k \in 1..m : Nth(1..m, k) = k
  <2> DEFINE g == [k \in 1..m |-> k]
  <2>1. /\ g \in [1..m -> 1..m] /\ 1..m \in SUBSET Nat
        /\ \A k, l \in 1..m : k < l => g[k] < g[l]
        /\ \A i \in 1..m : \E k \in 1..m : g[k] = i
        /\ \A k \in 1..m : g[k] = k
    BY <1>1
  <2> HIDE DEF g
  <2> QED
    BY <1>1, <2>1, NthUnique
<1>5. \A k \in 1..m : u.rows[k] = t.rows[k]
  BY <1>1, <1>2, <1>3, <1>4 DEF Settled, Trimmed
<1>6. DOMAIN u.rows = 1..m
  BY <1>2, <1>3, <1>4
<1>7. u.rows = t.rows
  <2>1. /\ u.rows = [k \in 1..m |-> u.rows[k]]
        /\ t.rows = [k \in 1..m |-> t.rows[k]]
    <3>1. u.rows \in Seq(ToSet(u.rows)) /\ t.rows \in Seq(ToSet(t.rows))
      BY <1>3, ListTyped DEF IsTable
    <3>2. Len(u.rows) \in Nat /\ DOMAIN u.rows = 1..Len(u.rows)
      BY <3>1, LenProperties
    <3> QED
      BY <1>1, <1>6, <3>1, <3>2, SeqDef
  <2> QED
    BY <1>5, <2>1
<1> QED
  BY <1>3, <1>7 DEF u

-------------------------------------------------------------------------------
(* The profile and the rules *)

CellsTrimmed(t) ==
    \A r \in DOMAIN t.rows : \A j \in DOMAIN t.rows[r] : TrimSpace(t.rows[r][j]) = t.rows[r][j]

LEMMA TrimmedCells ==
    ASSUME NEW t, NEW o, o.trim, Trimmed(t, o)
    PROVE  CellsTrimmed(t)
<1> SUFFICES ASSUME NEW r \in DOMAIN t.rows, NEW j \in DOMAIN t.rows[r]
             PROVE  TrimSpace(t.rows[r][j]) = t.rows[r][j]
  BY DEF CellsTrimmed
<1>1. TrimRow(t.rows[r]) = t.rows[r]
  BY DEF Trimmed, Kept
<1>2. TrimRow(t.rows[r])[j] = TrimSpace(t.rows[r][j])
  BY DEF TrimRow
<1> QED
  BY <1>1, <1>2

LEMMA TrimEmpty == TrimSpace(Empty) = Empty
<1>1. {i \in DOMAIN <<>> : <<>>[i] # Blank} = {}
  OBVIOUS
<1> QED
  BY <1>1 DEF TrimSpace, Empty

LEMMA ColumnFound ==
    ASSUME NEW t, IsTable(t), NEW name, HasColumn(t, name)
    PROVE  ColumnOf(t, name) \in DOMAIN t.header
<1> DEFINE S == {i \in DOMAIN t.header : t.header[i] = name}
<1>1. DOMAIN t.header \in SUBSET Nat /\ IsFiniteSet(DOMAIN t.header)
  BY ListTyped DEF IsTable
<1>2. S # {} /\ S \in SUBSET DOMAIN t.header
  BY DEF HasColumn
<1>3. S \in SUBSET Nat /\ IsFiniteSet(S)
  <2> HIDE DEF S
  <2> QED
    BY <1>1, <1>2, FS_Subset
<1>4. Min(S) \in S
  <2> HIDE DEF S
  <2> QED
    BY <1>2, <1>3, MinIsLeast
<1> QED
  BY <1>4 DEF ColumnOf

\* The rows whose cell a profile takes for empty, and the others.
BlankRows(t, k)  == {r \in DOMAIN t.rows : TrimSpace(CellAt(t.rows[r], k)) = Empty}
FilledRows(t, k) == {r \in DOMAIN t.rows : TrimSpace(CellAt(t.rows[r], k)) # Empty}

LEMMA ProfileCounts ==
    ASSUME NEW t, IsTable(t), NEW k
    PROVE  /\ IsFiniteSet(DOMAIN t.rows) /\ IsFiniteSet(BlankRows(t, k)) /\ IsFiniteSet(FilledRows(t, k))
           /\ ColumnProfile(t, k).emptyCount = Cardinality(BlankRows(t, k))
           /\ ColumnProfile(t, k).nonEmpty = Cardinality(FilledRows(t, k))
           /\ ColumnProfile(t, k).distinct =
                Cardinality({TrimSpace(CellAt(t.rows[r], k)) : r \in FilledRows(t, k)})
<1>1. IsFiniteSet(DOMAIN t.rows)
  BY ListTyped DEF IsTable
<1>2. BlankRows(t, k) \in SUBSET DOMAIN t.rows /\ FilledRows(t, k) \in SUBSET DOMAIN t.rows
  BY DEF BlankRows, FilledRows
<1>3. IsFiniteSet(BlankRows(t, k)) /\ IsFiniteSet(FilledRows(t, k))
  BY <1>1, <1>2, FS_Subset
<1>4. DOMAIN t.rows \ FilledRows(t, k) = BlankRows(t, k)
  BY DEF BlankRows, FilledRows
<1>5. ColumnProfile(t, k) =
        [nonEmpty   |-> Cardinality(FilledRows(t, k)),
         emptyCount |-> Cardinality(DOMAIN t.rows \ FilledRows(t, k)),
         distinct   |-> Cardinality({TrimSpace(CellAt(t.rows[r], k)) : r \in FilledRows(t, k)})]
  BY DEF ColumnProfile, RowsWithCell, FilledRows
<1> QED
  BY <1>1, <1>3, <1>4, <1>5

LEMMA CellTrimmed ==
    ASSUME NEW t, CellsTrimmed(t), NEW r \in DOMAIN t.rows, NEW k
    PROVE  TrimSpace(CellAt(t.rows[r], k)) = CellAt(t.rows[r], k)
BY TrimEmpty DEF CellsTrimmed, CellAt

LEMMA NotnullCounts ==
    ASSUME NEW t, IsTable(t), NEW k
    PROVE  LET E == {r \in DOMAIN t.rows : CellAt(t.rows[r], k) = Empty}
           IN  /\ Cardinality(E) <= ColumnProfile(t, k).emptyCount
               /\ CellsTrimmed(t) => Cardinality(E) = ColumnProfile(t, k).emptyCount
<1> DEFINE E == {r \in DOMAIN t.rows : CellAt(t.rows[r], k) = Empty}
<1>1. E \in SUBSET BlankRows(t, k)
  BY TrimEmpty DEF BlankRows
<1>2. CellsTrimmed(t) => E = BlankRows(t, k)
  BY CellTrimmed DEF BlankRows
<1> HIDE DEF E
<1>3. Cardinality(E) <= Cardinality(BlankRows(t, k))
  BY <1>1, ProfileCounts, FS_Subset
<1> QED
  BY <1>2, <1>3, ProfileCounts DEF E

\* A set of rows has one member at most exactly if its members are equal.
LEMMA AtMostOne ==
    ASSUME NEW S, IsFiniteSet(S)
    PROVE  Cardinality(S) <= 1 <=> \A x, y \in S : x = y
<1>1. Cardinality(S) \in Nat
  BY FS_CardinalityType
<1>2. ASSUME Cardinality(S) <= 1, NEW x \in S, NEW y \in S
      PROVE  x = y
  <2>1. Cardinality(S) = 1
    <3>1. Cardinality(S) # 0
      BY FS_EmptySet
    <3> QED
      BY <1>1, <1>2, <3>1
  <2>2. PICK z : S = {z}
    BY <2>1, FS_Singleton
  <2> QED
    BY <2>2
<1>3. ASSUME \A x, y \in S : x = y
      PROVE  Cardinality(S) <= 1
  <2>1. CASE S = {}
    BY <2>1, FS_EmptySet
  <2>2. CASE S # {}
    <3>1. PICK z \in S : TRUE
      BY <2>2
    <3>2. S = {z}
      BY <1>3, <3>1
    <3>3. Cardinality({z}) = 1
      BY FS_Singleton
    <3>4. Cardinality(S) = 1
      BY <3>2, <3>3
    <3> QED
      BY <3>4
  <2> QED
    BY <2>1, <2>2
<1> QED
  BY <1>2, <1>3

LEMMA UniqueCounts ==
    ASSUME NEW t, IsTable(t), CellsTrimmed(t), NEW k
    PROVE  (\A r, q \in DOMAIN t.rows : r # q => CellAt(t.rows[r], k) # CellAt(t.rows[q], k))
             <=> /\ ColumnProfile(t, k).distinct = ColumnProfile(t, k).nonEmpty
                 /\ ColumnProfile(t, k).emptyCount <= 1
<1> DEFINE cell(r) == CellAt(t.rows[r], k)
           F == FilledRows(t, k)
           E == BlankRows(t, k)
           f == [r \in F |-> cell(r)]
           V == {cell(r) : r \in F}
<1>1. /\ F \in SUBSET DOMAIN t.rows /\ E \in SUBSET DOMAIN t.rows
      /\ \A r \in DOMAIN t.rows : IF cell(r) = Empty THEN r \in E ELSE r \in F
      /\ \A r \in E : cell(r) = Empty
      /\ \A r \in F : cell(r) # Empty
      /\ \A r \in F : TrimSpace(cell(r)) = cell(r)
  BY CellTrimmed DEF FilledRows, BlankRows
<1>2. /\ IsFiniteSet(F) /\ IsFiniteSet(E)
      /\ ColumnProfile(t, k).emptyCount = Cardinality(E)
      /\ ColumnProfile(t, k).nonEmpty = Cardinality(F)
      /\ ColumnProfile(t, k).distinct = Cardinality({TrimSpace(cell(r)) : r \in F})
  BY ProfileCounts
<1>3. {TrimSpace(cell(r)) : r \in F} = V
  BY <1>1
<1>4. f \in Surjection(F, V)
  BY DEF Surjection
<1>5. Cardinality(V) = Cardinality(F) <=> f \in Injection(F, V)
  <2> HIDE DEF F, V, f
  <2> QED
    BY <1>2, <1>4, FS_Surjection
<1>6. f \in Injection(F, V) <=> \A r, q \in F : cell(r) = cell(q) => r = q
  BY DEF Injection, IsInjective
<1>7. Cardinality(E) <= 1 <=> \A r, q \in E : r = q
  <2> HIDE DEF E
  <2> QED
    BY <1>2, AtMostOne
<1> HIDE DEF cell, F, E, f, V
<1>8. (\A r, q \in DOMAIN t.rows : r # q => cell(r) # cell(q))
        <=> /\ \A r, q \in F : cell(r) = cell(q) => r = q
            /\ \A r, q \in E : r = q
  BY <1>1
<1> QED
  BY <1>2, <1>3, <1>5, <1>6, <1>7, <1>8 DEF cell

-------------------------------------------------------------------------------
(* A session *)

NextRound(t) == CleanedBy(t, wanted.rules, wanted.opts)

\* Each table of a session is the one before it, cleaned; the answers are about
\* the last of them.
SessionInv ==
    /\ IsList(rounds)
    /\ \A k \in 1..Len(rounds) : IsTable(rounds[k])
    /\ \A k \in 2..Len(rounds) : rounds[k] = NextRound(rounds[k - 1])
    /\ IF pc = "serving" THEN Len(rounds) # 0
                         ELSE Len(rounds) = 0 /\ evaluated = {} /\ profile = {}
    /\ \A e \in evaluated : e = Report(Current, wanted.rules)
    /\ evaluated # {} => \A q \in DOMAIN wanted.rules : HasColumn(Current, wanted.rules[q].column)
    /\ \A p \in profile : p = [i \in DOMAIN Current.header |-> ColumnProfile(Current, i)]

LEMMA CurrentIs ==
    ASSUME SessionInv, pc = "serving"
    PROVE  /\ Len(rounds) \in Nat \ {0}
           /\ Current = rounds[Len(rounds)]
           /\ IsTable(Current)
<1>1. Len(rounds) \in Nat
  BY ListTyped DEF SessionInv
<1>2. Len(rounds) # 0
  BY DEF SessionInv
<1>3. Current = rounds[Len(rounds)]
  BY DEF Current, Last
<1>4. Len(rounds) \in 1..Len(rounds)
  BY <1>1, <1>2
<1> QED
  BY <1>1, <1>2, <1>3, <1>4 DEF SessionInv

LEMMA ServeStep ==
    ASSUME SessionInv, Serve
    PROVE  SessionInv'
<1>1. /\ pc = "main" /\ pc' = "serving"
      /\ evaluated' = {} /\ profile' = {}
  BY DEF Serve, SessionInv
<1>2. PICK t \in Tables : rounds' = <<t>>
  BY DEF Serve
<1>3. IsTable(t)
  BY TablesAssumption
<1>4. IsList(rounds') /\ Len(rounds') = 1 /\ rounds'[1] = t
  <2>1. <<t>> \in [1..1 -> {t}] /\ <<t>>[1] = t
    OBVIOUS
  <2>2. 1 \in Nat
    OBVIOUS
  <2> QED
    BY <1>2, <2>1, <2>2, FunctionIsList
<1> QED
  BY <1>1, <1>3, <1>4 DEF SessionInv

LEMMA CleanStep ==
    ASSUME SessionInv, HandleClean
    PROVE  SessionInv'
<1>1. pc = "serving" /\ pc' = "serving" /\ wanted' = wanted
  BY DEF HandleClean, vars
<1>2. CASE UNCHANGED <<rounds, evaluated, profile>>
  BY <1>1, <1>2 DEF SessionInv, Current, NextRound
<1>3. CASE /\ rounds' = Append(rounds, NextRound(Current))
           /\ evaluated' = {} /\ profile' = {}
  <2> DEFINE n == Len(rounds)
             u == NextRound(Current)
  <2>1. n \in Nat \ {0} /\ Current = rounds[n] /\ IsTable(Current) /\ IsList(rounds)
    BY <1>1, CurrentIs DEF SessionInv
  <2>2. IsTable(u)
    BY <2>1, CleanRows DEF NextRound
  <2>3. /\ IsList(rounds') /\ Len(rounds') = n + 1
        /\ \A i \in 1..n : rounds'[i] = rounds[i]
        /\ rounds'[n + 1] = u
    BY <1>3, <2>1, AppendList
  <2>4. \A t : NextRound(t)' = NextRound(t)'
    OBVIOUS
  <2>5. /\ \A k \in 1..n : IsTable(rounds[k])
        /\ \A k \in 2..n : rounds[k] = NextRound(rounds[k - 1])
    BY DEF SessionInv
  <2>6. u = CleanedBy(rounds[n], wanted.rules, wanted.opts)
    BY <2>1 DEF NextRound
  <2> HIDE DEF n, u
  <2>7. ASSUME NEW k \in 1..(n + 1)
        PROVE  IsTable(rounds'[k])
    <3>1. k \in 1..n \/ k = n + 1
      BY <2>1
    <3> QED
      BY <2>2, <2>3, <2>5, <3>1
  <2>8. ASSUME NEW k \in 2..(n + 1)
        PROVE  rounds'[k] = CleanedBy(rounds'[k - 1], wanted.rules, wanted.opts)
    <3>1. CASE k = n + 1
      <4>1. k - 1 = n /\ n \in 1..n
        BY <2>1, <3>1
      <4> QED
        BY <2>3, <2>6, <3>1, <4>1
    <3>2. CASE k # n + 1
      <4>1. k \in 2..n /\ k \in 1..n /\ k - 1 \in 1..n
        BY <2>1, <3>2
      <4> QED
        BY <2>3, <2>5, <4>1 DEF NextRound
    <3> QED
      BY <3>1, <3>2
  <2>9. n + 1 # 0
    BY <2>1
  <2> QED
    BY <1>1, <1>3, <2>3, <2>7, <2>8, <2>9 DEF SessionInv, NextRound
<1> QED
  BY <1>2, <1>3 DEF HandleClean, NextRound, CleanedBy

LEMMA AnswerStep ==
    ASSUME SessionInv, HandleEvaluate \/ HandleProfile \/ Reject
    PROVE  SessionInv'
<1>1. UNCHANGED <<pc, rounds, wanted>> /\ Current' = Current /\ pc = "serving"
  BY DEF HandleEvaluate, HandleProfile, Reject, vars, Current
<1>2. CASE UNCHANGED <<evaluated, profile>>
  BY <1>1, <1>2 DEF SessionInv, NextRound
<1>3. CASE /\ ~ Refused(wanted.rules)
           /\ evaluated' = {Report(Current, wanted.rules)} /\ UNCHANGED profile
  <2>1. \A q \in DOMAIN wanted.rules : HasColumn(Current, wanted.rules[q].column)
    BY <1>3 DEF Refused, RuleFails
  <2> QED
    BY <1>1, <1>3, <2>1 DEF SessionInv, NextRound
<1>4. CASE /\ profile' = {[i \in DOMAIN Current.header |-> ColumnProfile(Current, i)]}
           /\ UNCHANGED evaluated
  BY <1>1, <1>4 DEF SessionInv, NextRound
<1> QED
  BY <1>2, <1>3, <1>4 DEF HandleEvaluate, HandleProfile, Reject

LEMMA SessionInvInductive ==
    /\ ServerInit => SessionInv
    /\ SessionInv /\ [ServerNext]_<<vars, sessionVars>> => SessionInv'
<1>1. ASSUME ServerInit
      PROVE  SessionInv
  <2>1. IsList(<<>>) /\ Len(<<>>) = 0
    BY DEF IsList
  <2>2. rounds = <<>> /\ evaluated = {} /\ profile = {} /\ pc = "main"
    BY <1>1 DEF ServerInit, Init
  <2> QED
    BY <2>1, <2>2 DEF SessionInv
<1>2. ASSUME SessionInv, [ServerNext]_<<vars, sessionVars>>
      PROVE  SessionInv'
  <2>1. CASE UNCHANGED sessionVars /\ (pc' = pc \/ (pc # "serving" /\ pc' # "serving"))
    BY <1>2, <2>1 DEF SessionInv, sessionVars, Current, NextRound
  <2>2. ASSUME Next
        PROVE  pc' = pc \/ (pc # "serving" /\ pc' # "serving")
    BY <2>2 DEF Next, OpenInput, ReadInput, ParseInput, LoadRules, Evaluate, EvaluateFails,
                CleanTable, WriteReport, WriteCleaned, WriteNothing, Done, Proceeds, Fails,
                Breaks, vars
  <2>3. ASSUME UNCHANGED vars
        PROVE  pc' = pc
    BY <2>3 DEF vars
  <2>4. CASE UNCHANGED <<vars, sessionVars>>
    BY <2>1, <2>3, <2>4
  <2> QED
    BY <1>2, <2>1, <2>2, <2>4, ServeStep, CleanStep, AnswerStep DEF ServerNext
<1> QED
  BY <1>1, <1>2

LEMMA SpecSession == ServerSpec => []SessionInv
<1>1. ServerInit => SessionInv
  BY SessionInvInductive
<1>2. SessionInv /\ [ServerNext]_<<vars, sessionVars>> => SessionInv'
  BY SessionInvInductive
<1> QED
  BY <1>1, <1>2, PTL DEF ServerSpec

\* A table that was cleaned has nothing left to clean, at once or, where cells are
\* trimmed, the second time.
LEMMA RoundsSettle ==
    ASSUME SessionInv,
           NEW k \in Nat, k >= 1, k + 2 <= Len(rounds),
           Trimmed(rounds[k], wanted.opts)
    PROVE  rounds[k + 2] = rounds[k + 1]
<1>1. Len(rounds) \in Nat
  BY ListTyped DEF SessionInv
<1>2. /\ k \in 1..Len(rounds) /\ k + 1 \in 1..Len(rounds)
      /\ k + 1 \in 2..Len(rounds) /\ k + 2 \in 2..Len(rounds)
      /\ k + 1 - 1 = k /\ k + 2 - 1 = k + 1
  BY <1>1
<1>3. IsTable(rounds[k]) /\ IsTable(rounds[k + 1])
  BY <1>2 DEF SessionInv
<1>4. /\ rounds[k + 1] = CleanedBy(rounds[k], wanted.rules, wanted.opts)
      /\ rounds[k + 2] = CleanedBy(rounds[k + 1], wanted.rules, wanted.opts)
  BY <1>2 DEF SessionInv, NextRound
<1>5. Settled(rounds[k + 1], wanted.rules, wanted.opts)
  BY <1>3, <1>4, CleanSettled
<1>6. rounds[k + 1] = [header |-> rounds[k + 1].header, rows |-> rounds[k + 1].rows]
  <2> DEFINE t == rounds[k]
             u == CleanedBy(t, wanted.rules, wanted.opts)
  <2>1. u = [header |-> t.header, rows |-> u.rows]
    BY <1>3, CleanRows
  <2> HIDE DEF u, t
  <2>2. u.header = t.header
    BY <2>1
  <2>3. u = [header |-> u.header, rows |-> u.rows]
    BY <2>1, <2>2
  <2> QED
    BY <1>4, <2>3 DEF u, t
<1> QED
  BY <1>3, <1>4, <1>5, <1>6, SettledStays

LEMMA SessionSettles == SessionInv => CleanSettles
<1> SUFFICES ASSUME SessionInv PROVE CleanSettles
  OBVIOUS
<1>1. Len(rounds) \in Nat
  BY ListTyped DEF SessionInv
<1>2. ASSUME Len(rounds) > 2, ~ wanted.opts.trim
      PROVE  rounds[3] = rounds[2]
  <2>1. Trimmed(rounds[1], wanted.opts)
    BY <1>2 DEF Trimmed, Kept
  <2>2. 1 \in Nat /\ 1 >= 1 /\ 1 + 2 <= Len(rounds) /\ 1 + 2 = 3 /\ 1 + 1 = 2
    BY <1>1, <1>2
  <2>3. rounds[1 + 2] = rounds[1 + 1]
    BY <2>1, <2>2, RoundsSettle
  <2> QED
    BY <2>2, <2>3
<1>3. ASSUME Len(rounds) > 3
      PROVE  rounds[4] = rounds[3]
  <2>1. 1 \in 1..Len(rounds) /\ 2 \in 2..Len(rounds) /\ 2 - 1 = 1
    BY <1>1, <1>3
  <2>2. IsTable(rounds[1]) /\ rounds[2] = CleanedBy(rounds[1], wanted.rules, wanted.opts)
    BY <2>1 DEF SessionInv, NextRound
  <2>3. Trimmed(rounds[2], wanted.opts)
    BY <2>2, CleanTrims
  <2>4. 2 \in Nat /\ 2 >= 1 /\ 2 + 2 <= Len(rounds) /\ 2 + 2 = 4 /\ 2 + 1 = 3
    BY <1>1, <1>3
  <2>5. rounds[2 + 2] = rounds[2 + 1]
    BY <2>3, <2>4, RoundsSettle
  <2> QED
    BY <2>4, <2>5
<1> QED
  BY <1>2, <1>3 DEF CleanSettles

\* Cleaning what was cleaned changes nothing, from the second time on where cells
\* are trimmed.
THEOREM SettlesCorrect == ServerSpec => []CleanSettles
BY SpecSession, SessionSettles, PTL

LEMMA FoundAre ==
    ASSUME SessionInv, evaluated # {}, NEW q \in DOMAIN wanted.rules
    PROVE  FoundBy(q) = {r \in DOMAIN Current.rows : Violates(Current, wanted.rules[q], r)}
<1>1. evaluated = {Report(Current, wanted.rules)}
  BY DEF SessionInv
<1>2. UNION {e.violations : e \in evaluated} = Violations(Current, wanted.rules)
  BY <1>1 DEF Report
<1>3. FoundBy(q) = {v.row : v \in {x \in Violations(Current, wanted.rules) : x.rule = q}}
  BY <1>2 DEF FoundBy
<1>4. ASSUME NEW r \in DOMAIN Current.rows, Violates(Current, wanted.rules[q], r)
      PROVE  r \in FoundBy(q)
  <2> DEFINE v == [row |-> r, rule |-> q]
  <2>1. v \in Violations(Current, wanted.rules) /\ v.row = r /\ v.rule = q
    BY <1>4 DEF Violations
  <2> HIDE DEF v
  <2> QED
    BY <1>3, <2>1
<1>5. ASSUME NEW r \in FoundBy(q)
      PROVE  r \in DOMAIN Current.rows /\ Violates(Current, wanted.rules[q], r)
  BY <1>3 DEF Violations
<1> QED
  BY <1>4, <1>5

LEMMA SessionAgrees == SessionInv => ProfileAgrees
<1> SUFFICES ASSUME SessionInv, evaluated # {}, profile # {},
                    NEW q \in DOMAIN wanted.rules, NEW p \in profile
             PROVE  LET rule    == wanted.rules[q]
                        column  == p[ColumnOf(Current, rule.column)]
                        trimmed == wanted.opts.trim /\ Len(rounds) > 1
                    IN  /\ rule.kind = "notnull" =>
                             /\ Cardinality(FoundBy(q)) <= column.emptyCount
                             /\ trimmed => Cardinality(FoundBy(q)) = column.emptyCount
                        /\ rule.kind = "unique" /\ trimmed =>
                             (FoundBy(q) = {} <=>
                                column.distinct = column.nonEmpty /\ column.emptyCount <= 1)
  BY DEF ProfileAgrees
<1> DEFINE rule == wanted.rules[q]
           t == Current
           k == ColumnOf(t, rule.column)
           cell(r) == CellAt(t.rows[r], k)
<1>1. pc = "serving"
  BY DEF SessionInv
<1>2. /\ Len(rounds) \in Nat \ {0} /\ t = rounds[Len(rounds)] /\ IsTable(t)
  BY <1>1, CurrentIs
<1>3. p[k] = ColumnProfile(t, k)
  <2>1. HasColumn(t, rule.column)
    BY DEF SessionInv
  <2>2. k \in DOMAIN t.header
    BY <1>2, <2>1, ColumnFound
  <2>3. p = [i \in DOMAIN t.header |-> ColumnProfile(t, i)]
    BY DEF SessionInv
  <2> HIDE DEF t, k, rule
  <2> QED
    BY <2>2, <2>3
<1>4. ASSUME wanted.opts.trim, Len(rounds) > 1
      PROVE  CellsTrimmed(t)
  <2>1. /\ Len(rounds) \in 2..Len(rounds) /\ Len(rounds) - 1 \in 1..Len(rounds)
    BY <1>2, <1>4
  <2>2. t = CleanedBy(rounds[Len(rounds) - 1], wanted.rules, wanted.opts)
    BY <1>2, <2>1 DEF SessionInv, NextRound
  <2>3. IsTable(rounds[Len(rounds) - 1])
    BY <2>1 DEF SessionInv
  <2>4. Trimmed(t, wanted.opts)
    BY <2>2, <2>3, CleanTrims
  <2> HIDE DEF t
  <2> QED
    BY <1>4, <2>4, TrimmedCells
<1>5. FoundBy(q) = {r \in DOMAIN t.rows : Violates(t, rule, r)}
  BY FoundAre
<1>6. \A r : Value(t, rule.column, r) = cell(r)
  BY DEF Value
<1>7. ASSUME rule.kind = "notnull"
      PROVE  FoundBy(q) = {r \in DOMAIN t.rows : CellAt(t.rows[r], k) = Empty}
  <2> HIDE DEF t, k
  <2> QED
    BY <1>5, <1>6, <1>7 DEF Violates
<1>8. ASSUME rule.kind = "unique"
      PROVE  FoundBy(q) = {} <=>
               \A r, s \in DOMAIN t.rows : r # s => CellAt(t.rows[r], k) # CellAt(t.rows[s], k)
  <2> HIDE DEF t, k
  <2>1. \A r \in DOMAIN t.rows : Violates(t, rule, r) <=> \E s \in DOMAIN t.rows \ {r} : cell(s) = cell(r)
    BY <1>6, <1>8 DEF Violates, Repeated
  <2> QED
    BY <1>5, <2>1
<1> HIDE DEF t, k, rule
<1>9. ASSUME rule.kind = "notnull"
      PROVE  /\ Cardinality(FoundBy(q)) <= p[k].emptyCount
             /\ CellsTrimmed(t) => Cardinality(FoundBy(q)) = p[k].emptyCount
  BY <1>2, <1>3, <1>7, <1>9, NotnullCounts
<1>10. ASSUME rule.kind = "unique", CellsTrimmed(t)
       PROVE  FoundBy(q) = {} <=> p[k].distinct = p[k].nonEmpty /\ p[k].emptyCount <= 1
  BY <1>2, <1>3, <1>8, <1>10, UniqueCounts
<1> QED
  BY <1>4, <1>9, <1>10 DEF t, k, rule

\* What the profile says of the empty and of the distinct values of a column is what
\* notnull and unique find in it.
THEOREM AgreesCorrect == ServerSpec => []ProfileAgrees
BY SpecSession, SessionAgrees, PTL

-------------------------------------------------------------------------------
(* The output *)

TheTable == CleanedBy(table, rules, opts)

\* What is in the output file is what Clean makes of the table that was read.
TableInv ==
    /\ pc = "parse" => input \in Inputs
    /\ pc \in {"rules", "evaluate", "clean", "report", "out"} => IsTable(table)
    /\ pc \in {"report", "out"} /\ outPath # "" => cleaned = {TheTable}
    /\ pc = "done" /\ failed = "none" =>
         /\ IsTable(table)
         /\ outPath # "" => files[outPath] = Whole(TheTable)

\* A step that fails ends the program.
LEMMA FailedStep ==
    ASSUME pc' = "done", failed' # "none"
    PROVE  TableInv'
BY DEF TableInv

LEMMA TableStep ==
    ASSUME TableInv, FilesInv, ReaderInv, Next
    PROVE  TableInv'
<1> USE DEF TableInv
<1>1. CASE OpenInput
  <2>1. CASE pc' = "parse" /\ input' \in Inputs
    BY <2>1
  <2>2. CASE pc' = "done" /\ failed' = "open"
    BY <2>2, FailedStep
  <2> QED
    BY <1>1, <2>1, <2>2 DEF OpenInput, Opened, Proceeds, Fails
<1>2. CASE ReadInput
  <2>1. pc = "parse" /\ pc' = "parse" /\ input' = input
    BY <1>2 DEF ReadInput, Read, FillHead, TakeHead, ReadFails, PassBuffer, PassRead
  <2> QED
    BY <2>1
<1>3. CASE ParseInput
  <2>1. CASE pc' = "done" /\ failed' = "parse"
    BY <2>1, FailedStep
  <2>2. CASE pc' = "rules" /\ ended = "EOF" /\ table' \in Parsed(passed)
    <3>1. input \in Inputs /\ passed = WithoutBOM(input)
      BY <1>3, <2>2, ReaderInvImplies DEF ParseInput, BytesExact, Content
    <3>2. IsTable(table')
      BY <2>2, <3>1, ParsedAssumption
    <3>3. IsTable(table)'
      BY <3>2 DEF IsTable, IsList
    <3> QED
      BY <2>2, <3>3
  <2> QED
    BY <1>3, <2>1, <2>2 DEF ParseInput, Proceeds, Fails
<1>4. CASE LoadRules
  <2>1. CASE pc' = "done" /\ failed' = "rules"
    BY <2>1, FailedStep
  <2>2. CASE pc' = "evaluate"
    <3>1. pc = "rules" /\ table' = table
      BY <1>4 DEF LoadRules
    <3> QED
      BY <2>2, <3>1
  <2> QED
    BY <1>4, <2>1, <2>2 DEF LoadRules, Proceeds, Fails
<1>5. CASE Evaluate
  <2>1. pc = "evaluate" /\ pc' = "clean" /\ table' = table
    BY <1>5 DEF Evaluate, Proceeds, read
  <2> QED
    BY <2>1
<1>6. CASE EvaluateFails
  <2>1. pc' = "done" /\ failed' = "evaluate"
    BY <1>6 DEF EvaluateFails, Fails
  <2> QED
    BY <2>1, FailedStep
<1>7. CASE CleanTable
  <2>1. /\ pc = "clean" /\ pc' = "report" /\ rep = {TheReport}
        /\ UNCHANGED <<table, rules, opts, outPath>>
    BY <1>7 DEF CleanTable, Proceeds, read, arguments, FilesInv
  <2>2. ASSUME outPath # ""
        PROVE  cleaned' = {Clean(table, rules, TheReport, opts)}
    BY <1>7, <2>1, <2>2 DEF CleanTable
  <2>3. TheTable' = TheTable /\ TheTable = Clean(table, rules, TheReport, opts)
    BY <2>1 DEF TheTable, CleanedBy, TheReport
  <2> QED
    BY <2>1, <2>2, <2>3
<1>8. CASE WriteReport
  <2>1. pc = "report" /\ UNCHANGED <<table, rules, opts, outPath, cleaned>>
    BY <1>8 DEF WriteReport, read, arguments
  <2>2. CASE pc' = "done" /\ failed' = "report"
    BY <2>2, FailedStep
  <2>3. CASE pc' = "out"
    <3>1. TheTable' = TheTable
      BY <2>1 DEF TheTable
    <3> QED
      BY <2>1, <2>3, <3>1
  <2> QED
    BY <1>8, <2>2, <2>3 DEF WriteReport, Proceeds, Breaks, Fails
<1>9. CASE WriteCleaned
  <2>1. /\ pc = "out" /\ outPath # "" /\ cleaned = {TheTable} /\ IsTable(table)
        /\ UNCHANGED <<table, rules, opts, outPath>>
        /\ outPath \in DOMAIN files
    BY <1>9 DEF WriteCleaned, read, arguments, FilesInv, Paths
  <2>2. CASE pc' = "done" /\ failed' = "out"
    BY <2>2, FailedStep
  <2>3. CASE \E t \in cleaned : Store(outPath, Whole(t)) /\ pc' = "done"
    <3>1. files' = [files EXCEPT ![outPath] = Whole(TheTable)] /\ pc' = "done"
      BY <2>1, <2>3 DEF Store
    <3>2. files'[outPath] = Whole(TheTable)
      BY <2>1, <3>1
    <3>3. TheTable' = TheTable /\ Whole(TheTable)' = Whole(TheTable)
      BY <2>1 DEF TheTable, Whole
    <3> QED
      BY <2>1, <3>1, <3>2, <3>3
  <2> QED
    BY <1>9, <2>1, <2>2, <2>3 DEF WriteCleaned, Proceeds, Breaks, Fails
<1>10. CASE WriteNothing
  <2>1. pc = "out" /\ pc' = "done" /\ outPath' = "" /\ table' = table
    BY <1>10 DEF WriteNothing, Proceeds, read, arguments
  <2> QED
    BY <2>1
<1>11. CASE Done
  BY <1>11 DEF Done, vars, read, readerVars, arguments, TheTable
<1> QED
  BY <1>1, <1>2, <1>3, <1>4, <1>5, <1>6, <1>7, <1>8, <1>9, <1>10, <1>11 DEF Next

LEMMA TableInvInductive ==
    /\ ServerInit => TableInv
    /\ TableInv /\ FilesInv /\ ReaderInv /\ [ServerNext]_<<vars, sessionVars>> => TableInv'
<1>1. ServerInit => TableInv
  BY DEF ServerInit, Init, TableInv
<1>2. ASSUME TableInv, FilesInv, ReaderInv, [ServerNext]_<<vars, sessionVars>>
      PROVE  TableInv'
  <2>1. CASE Next
    BY <1>2, <2>1, TableStep
  <2>2. CASE Serve
    BY <2>2 DEF Serve, TableInv
  <2>3. CASE UNCHANGED vars
    BY <1>2, <2>3 DEF TableInv, vars, read, readerVars, arguments, TheTable
  <2>4. ServerNext => Next \/ Serve \/ UNCHANGED vars
    BY DEF ServerNext, HandleEvaluate, HandleClean, HandleProfile, Reject
  <2> QED
    BY <1>2, <2>1, <2>2, <2>3, <2>4
<1> QED
  BY <1>1, <1>2

LEMMA TableInvImplies == TableInv => OutputExact
<1> SUFFICES ASSUME TableInv, NEW t \in Output
             PROVE  /\ t.header = table.header
                    /\ \E from \in [DOMAIN t.rows -> DOMAIN table.rows] :
                         /\ \A k, l \in DOMAIN t.rows : k < l => from[k] < from[l]
                         /\ \A k \in DOMAIN t.rows :
                              t.rows[k] = IF opts.trim THEN TrimRow(table.rows[from[k]])
                                                       ELSE table.rows[from[k]]
                         /\ \A i \in DOMAIN table.rows :
                              (\A k \in DOMAIN t.rows : from[k] # i) <=>
                                /\ opts.drop
                                /\ \E q \in DOMAIN rules :
                                     rules[q].critical /\ Violates(table, rules[q], i)
  BY DEF OutputExact
<1>1. IsTable(table) /\ t = TheTable
  <2>1. pc = "done" /\ failed = "none" /\ outPath # "" /\ t = files[outPath].data
    BY DEF Output, Succeeded
  <2>2. IsTable(table) /\ files[outPath] = Whole(TheTable)
    BY <2>1 DEF TableInv
  <2>3. Whole(TheTable).data = TheTable
    BY DEF Whole
  <2> QED
    BY <2>1, <2>2, <2>3
<1> DEFINE S == KeptBy(table, rules, opts)
           n == Cardinality(S)
           from == [k \in 1..n |-> Nth(S, k)]
<1>2. /\ t = [header |-> table.header, rows |-> t.rows]
      /\ S \in SUBSET DOMAIN table.rows
      /\ \A k \in 1..n : Nth(S, k) \in S
      /\ \A k, l \in 1..n : k < l => Nth(S, k) < Nth(S, l)
      /\ \A i \in S : \E k \in 1..n : Nth(S, k) = i
      /\ DOMAIN t.rows = 1..n
      /\ \A k \in 1..n : t.rows[k] = Kept(table.rows[Nth(S, k)], opts)
  BY <1>1, CleanRows DEF TheTable
<1>3. t.header = table.header
  BY <1>2
<1>4. \A i \in DOMAIN table.rows : i \notin S <=> Dropped(table, rules, opts, i)
  BY DEF KeptBy
<1> HIDE DEF S, n
<1>5. from \in [DOMAIN t.rows -> DOMAIN table.rows]
  BY <1>2
<1>6. \A k \in 1..n : from[k] = Nth(S, k)
  OBVIOUS
<1> HIDE DEF from
<1>7. \A k, l \in DOMAIN t.rows : k < l => from[k] < from[l]
  BY <1>2, <1>6
<1>8. \A k \in DOMAIN t.rows :
         t.rows[k] = IF opts.trim THEN TrimRow(table.rows[from[k]]) ELSE table.rows[from[k]]
  BY <1>2, <1>6 DEF Kept
<1>9. \A i \in DOMAIN table.rows :
         (\A k \in DOMAIN t.rows : from[k] # i) <=> Dropped(table, rules, opts, i)
  BY <1>2, <1>4, <1>6
<1> QED
  BY <1>3, <1>5, <1>7, <1>8, <1>9 DEF Dropped

\* A run that succeeds leaves the whole output: the rows of the input in their
\* order, without exactly those that fail a critical rule.
THEOREM TableCorrect == ServerSpec => []OutputExact
<1>1. ServerInit => TableInv /\ FilesInv /\ ReaderInv
  BY TableInvInductive, FilesInvInductive, ReaderInvInductive
<1>2. /\ TableInv /\ FilesInv /\ ReaderInv
      /\ [ServerNext]_<<vars, sessionVars>>
      => (TableInv /\ FilesInv /\ ReaderInv)'
  BY TableInvInductive, FilesInvInductive, ReaderInvInductive
<1> QED
  BY <1>1, <1>2, TableInvImplies, PTL DEF ServerSpec

===============================================================================
