--------------------------- MODULE StfFileSink ------------------------------
(***************************************************************************)
(* The (Sub)TimeFrame file sink of src/common/SubTimeFrameFileSink.cxx:   *)
(* DataHandlerThread dequeues each STF from its pipeline stage, writes a   *)
(* sampled share of them to files that it rotates after mStfsPerFile STFs *)
(* or mFileSize bytes, and passes every STF on to the next stage.  The    *)
(* loop keeps lCurrentFileStfs / lCurrentFileSize for the open file; the  *)
(* write-error path drops the writer without resetting them.              *)
(*                                                                         *)
(* STFs are numbered 1..NumStfs in dequeue order; a size is a small        *)
(* number of units, and FileSize (mFileSize) is in the same units.         *)
(***************************************************************************)
EXTENDS Naturals, Sequences, FiniteSets

CONSTANTS
  NumStfs,       \* STFs the input stage delivers before it stops
  StfsPerFile,   \* mStfsPerFile (0: unlimited)
  FileSize,      \* mFileSize, at least 1
  StfSizes,      \* sizes an STF may have
  Percentage,    \* mPercentage, clamped to 0..100
  MaxCreateFail, \* SubTimeFrameFileWriter constructions that throw
  MaxWriteFail,  \* SubTimeFrameFileWriter::write calls that fail
  SinkReady      \* mEnabled && mReady: configured and makeDirectory() done

ASSUME NumStfs \in Nat /\ StfsPerFile \in Nat /\ FileSize \in Nat \ {0}
ASSUME StfSizes \subseteq Nat \ {0} /\ Percentage \in 0 .. 100
ASSUME SinkReady \in BOOLEAN

VARIABLES
  next,        \* next STF the input stage will deliver
  cur,         \* lStf
  pc,          \* "deq", "write", "fwd" or "exit"
  files,       \* files created: [stfs, size, state]
  writerOpen,  \* mStfWriter is set (it is the last of files)
  curStfs,     \* lCurrentFileStfs
  curSize,     \* lCurrentFileSize
  accepted,    \* lAcceptedStfs
  total,       \* lTotalStfs
  out,         \* STFs queued to mPipelineStageOut
  createFails, writeFails

vars == <<next, cur, pc, files, writerOpen, curStfs, curSize, accepted, total,
          out, createFails, writeFails>>

FileStates == {"open", "closed", "removed"}

NewFile == [stfs |-> <<>>, size |-> 0, state |-> "open"]

\* uniform(0, 99) < mPercentage: the outcomes the sampler can give
Samples == {b \in BOOLEAN : (b => Percentage > 0) /\ (~b => Percentage < 100)}

Init ==
  /\ next = 1 /\ cur = 0 /\ pc = "deq"
  /\ files = <<>> /\ writerOpen = FALSE
  /\ curStfs = 0 /\ curSize = 0
  /\ accepted = 0 /\ total = 0 /\ out = <<>>
  /\ createFails = 0 /\ writeFails = 0

\* mPipelineI.dequeue() returns the next STF; it is written only when the
\* sink is enabled and ready (after makeDirectory) and the sampler accepts it.
Dequeue ==
  /\ pc = "deq"
  /\ next <= NumStfs
  /\ cur' = next
  /\ next' = next + 1
  /\ total' = total + 1
  /\ \E accept \in Samples : pc' = IF SinkReady /\ accept THEN "write" ELSE "fwd"
  /\ UNCHANGED <<files, writerOpen, curStfs, curSize, accepted, out,
                 createFails, writeFails>>

\* dequeue() returns null: the input queue is stopped and the thread exits.
InputStopped ==
  /\ pc = "deq"
  /\ next > NumStfs
  /\ pc' = "exit"
  /\ UNCHANGED <<next, cur, files, writerOpen, curStfs, curSize, accepted,
                 total, out, createFails, writeFails>>

\* No writer, and constructing one throws: break, nothing is written.
CreateWriterFails ==
  /\ pc = "write"
  /\ ~writerOpen
  /\ createFails < MaxCreateFail
  /\ createFails' = createFails + 1
  /\ accepted' = accepted + 1
  /\ pc' = "fwd"
  /\ UNCHANGED <<next, cur, files, writerOpen, curStfs, curSize, total, out,
                 writeFails>>

\* The files with the writer in place: a new one (mCurrentFileIdx++) when
\* mStfWriter was not set.
WriterFiles == IF writerOpen THEN files ELSE Append(files, NewFile)

\* Mutant of RotateDue: the count limit is tested with > instead of >=.
RotateDueLate(stfs, size) ==
  (StfsPerFile > 0 /\ stfs > StfsPerFile) \/ size >= FileSize

\* the rotation test after a write
RotateDue(stfs, size) ==
  (StfsPerFile > 0 /\ stfs >= StfsPerFile) \/ size >= FileSize

\* Mutant of WriteStf: rotation resets lCurrentFileSize but not
\* lCurrentFileStfs.
WriteStfKeepsCount ==
  /\ pc = "write"
  /\ LET fs == WriterFiles
         k  == Len(fs)
     IN \E sz \in StfSizes :
          LET n == curStfs + 1
              s == fs[k].size + sz
              rot == RotateDue(n, s)
          IN /\ files' = [fs EXCEPT ![k] = [stfs |-> Append(@.stfs, cur),
                            size |-> s, state |-> IF rot THEN "closed" ELSE "open"]]
             /\ curStfs' = n
             /\ curSize' = IF rot THEN 0 ELSE s
             /\ writerOpen' = ~rot
  /\ accepted' = accepted + 1
  /\ pc' = "fwd"
  /\ UNCHANGED <<next, cur, total, out, createFails, writeFails>>

\* write() succeeds: lCurrentFileStfs++, lCurrentFileSize = size(); then
\* the file is rotated (counters reset, writer dropped) when due.
WriteStf ==
  /\ pc = "write"
  /\ LET fs == WriterFiles
         k  == Len(fs)
     IN \E sz \in StfSizes :
          LET n == curStfs + 1
              s == fs[k].size + sz
              rot == RotateDue(n, s)
          IN /\ files' = [fs EXCEPT ![k] = [stfs |-> Append(@.stfs, cur),
                            size |-> s, state |-> IF rot THEN "closed" ELSE "open"]]
             /\ curStfs' = IF rot THEN 0 ELSE n
             /\ curSize' = IF rot THEN 0 ELSE s
             /\ writerOpen' = ~rot
  /\ accepted' = accepted + 1
  /\ pc' = "fwd"
  /\ UNCHANGED <<next, cur, total, out, createFails, writeFails>>

\* Mutant of WriteFails: the writer is not reset after remove().
WriteFailsKeepsWriter ==
  /\ pc = "write"
  /\ writeFails < MaxWriteFail
  /\ LET fs == WriterFiles
     IN files' = [fs EXCEPT ![Len(fs)].state = "removed"]
  /\ writerOpen' = TRUE
  /\ writeFails' = writeFails + 1
  /\ accepted' = accepted + 1
  /\ pc' = "fwd"
  /\ UNCHANGED <<next, cur, curStfs, curSize, total, out, createFails>>

\* write() fails: close(), remove() the file, reset the writer, break.
\* lCurrentFileStfs and lCurrentFileSize keep their values.
WriteFails ==
  /\ pc = "write"
  /\ writeFails < MaxWriteFail
  /\ LET fs == WriterFiles
     IN files' = [fs EXCEPT ![Len(fs)].state = "removed"]
  /\ writerOpen' = FALSE
  /\ writeFails' = writeFails + 1
  /\ accepted' = accepted + 1
  /\ pc' = "fwd"
  /\ UNCHANGED <<next, cur, curStfs, curSize, total, out, createFails>>

\* mPipelineI.queue(mPipelineStageOut, lStf); false when the pipeline is
\* stopped, and the thread exits.
Forward ==
  /\ pc = "fwd"
  /\ \/ /\ out' = Append(out, cur)
        /\ pc' = "deq"
     \/ /\ pc' = "exit"
        /\ UNCHANGED out
  /\ UNCHANGED <<next, cur, files, writerOpen, curStfs, curSize, accepted,
                 total, createFails, writeFails>>

\* The thread has exited.
Exited == pc = "exit" /\ UNCHANGED vars

Next ==
  \/ Dequeue \/ InputStopped \/ CreateWriterFails \/ WriteStf \/ WriteFails
  \/ Forward \/ Exited

Spec == Init /\ [][Next]_vars

-----------------------------------------------------------------------------
TypeOK ==
  /\ next \in 1 .. NumStfs + 1 /\ cur \in 0 .. NumStfs
  /\ pc \in {"deq", "write", "fwd", "exit"}
  /\ \A i \in DOMAIN files : files[i].state \in FileStates
  /\ writerOpen = (files # <<>> /\ files[Len(files)].state = "open")
  /\ curStfs \in Nat /\ curSize \in Nat
  /\ accepted <= total /\ total <= NumStfs
  /\ createFails \in 0 .. MaxCreateFail /\ writeFails \in 0 .. MaxWriteFail

\* No file ever holds more than mStfsPerFile STFs.
FileStfLimit ==
  StfsPerFile > 0 => \A i \in DOMAIN files : Len(files[i].stfs) <= StfsPerFile

\* a file that reached a rotation limit by its own contents
FullFile(f) ==
  (StfsPerFile > 0 /\ Len(f.stfs) >= StfsPerFile) \/ f.size >= FileSize

\* DataHandlerThread closes a file before it holds mStfsPerFile STFs and
\* mFileSize bytes only after an earlier file was removed by a failed
\* write: the rotation counters are reset whenever a file is rotated, and
\* only the write-error path leaves lCurrentFileStfs counting a dropped
\* file.
ShortFileOnlyAfterFailure ==
  \A i \in DOMAIN files :
    (files[i].state = "closed" /\ ~FullFile(files[i]))
      => \E j \in 1 .. i - 1 : files[j].state = "removed"

=============================================================================
