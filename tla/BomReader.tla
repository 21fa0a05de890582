------------------------------- MODULE BomReader -------------------------------
(***************************************************************************)
(* The reader of internal/parse/parse.go that takes a byte order mark off  *)
(* the front of the input, between the CSV reader and the file.            *)
(*                                                                         *)
(* The file gives any number of the bytes asked for, at least one, or      *)
(* io.EOF at its end, or an error at any time.  The CSV reader's buffer    *)
(* has room for more than three bytes, and it stops at the first error.    *)
(***************************************************************************)
EXTENDS Naturals, Sequences, SequencesExt

CONSTANTS Bytes,
          Inputs                 \* the contents of files

ASSUME InputsAssumption ==
    /\ {"EF", "BB", "BF"} \subseteq Bytes
    /\ Inputs \subseteq Seq(Bytes)

VARIABLES input,                 \* the content of the file,
          ahead,                 \* the bytes of it not read yet
          head, done,            \* the first bytes, while ~ done
          buf,                   \* those to be passed on first
          passed,                \* what the CSV reader was given
          ended                  \* "" or the end it was told: "EOF", "error"

readerVars == <<input, ahead, head, done, buf, passed, ended>>

ReaderInit ==
    /\ input = <<>> /\ ahead = <<>>
    /\ head = <<>> /\ done = FALSE /\ buf = <<>>
    /\ passed = <<>> /\ ended = ""

Opened ==
    /\ input' \in Inputs /\ ahead' = input'
    /\ UNCHANGED <<head, done, buf, passed, ended>>

BOM == <<"EF", "BB", "BF">>

\* A file without one byte order mark at its front.
WithoutBOM(s) == IF IsPrefix(BOM, s) THEN SubSeq(s, Len(BOM) + 1, Len(s)) ELSE s

First(k) == SubSeq(ahead, 1, k)
Rest(k)  == SubSeq(ahead, k + 1, Len(ahead))

\* One read of io.ReadFull.
FillHead ==
    /\ ended = "" /\ ~ done
    /\ \E k \in 1..Len(ahead) :
         /\ Len(head) + k <= Len(BOM)
         /\ head' = head \o First(k)
         /\ ahead' = Rest(k)
    /\ UNCHANGED <<input, done, buf, passed, ended>>

\* Mutant: a single Read in place of io.ReadFull.
TakeHeadAsRead ==
    /\ ended = "" /\ ~ done
    /\ head # <<>> \/ ahead = <<>>
    /\ done' = TRUE
    /\ buf' = IF head = BOM THEN <<>> ELSE head
    /\ UNCHANGED <<input, ahead, head, passed, ended>>

\* Three bytes, or fewer at the end of the file.
TakeHead ==
    /\ ended = "" /\ ~ done
    /\ Len(head) = Len(BOM) \/ ahead = <<>>
    /\ done' = TRUE
    /\ buf' = IF head = BOM THEN <<>> ELSE head
    /\ UNCHANGED <<input, ahead, head, passed, ended>>

\* The file fails.  Within the first bytes those that were read are lost.
ReadFails ==
    /\ ended = ""
    /\ IF done THEN buf = <<>> ELSE Len(head) < Len(BOM)
    /\ done' = TRUE
    /\ ended' = "error"
    /\ UNCHANGED <<input, ahead, head, buf, passed>>

PassBuffer ==
    /\ ended = "" /\ done
    /\ buf # <<>>
    /\ passed' = passed \o buf
    /\ buf' = <<>>
    /\ UNCHANGED <<input, ahead, head, done, ended>>

PassRead ==
    /\ ended = "" /\ done
    /\ buf = <<>>
    /\ IF ahead = <<>>
       THEN ended' = "EOF" /\ UNCHANGED <<ahead, passed>>
       ELSE /\ \E k \in 1..Len(ahead) :
                 passed' = passed \o First(k) /\ ahead' = Rest(k)
            /\ UNCHANGED ended
    /\ UNCHANGED <<input, head, done, buf>>

Read == FillHead \/ TakeHead \/ ReadFails \/ PassBuffer \/ PassRead

-------------------------------------------------------------------------------
(* Properties *)

Content == WithoutBOM(input)

\* However the bytes arrive, the CSV reader gets the content of the file, the
\* whole of it before it is told of the end; after an error it has a part from the
\* front.
BytesExact ==
    /\ IsPrefix(passed, Content)
    /\ ended = "EOF" => passed = Content
===============================================================================
