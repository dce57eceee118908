------------------------------- MODULE Output -------------------------------
(***************************************************************************)
(* The file output (output/file.go): one goroutine, Output.Start, moves    *)
(* what the crawler's workers put on the write channel into a buffered     *)
(* file.  The channel's buffer is "workchan"; "closed" says the crawler    *)
(* has closed it.  The file is the sequence of the lines handed to the     *)
(* bufio.Writer, of which the first "flushed" are complete on disk.        *)
(***************************************************************************)
EXTENDS Integers, Sequences, FiniteSets

CONSTANTS
  WorkChanCap,   \* capacity of the write channel (main.go: the concurrency)
  Null,          \* the nil that a receive from a closed channel yields
  MaxNulls       \* bound: lines written for such receives

ASSUME OutputAssumption == WorkChanCap \in Nat /\ MaxNulls \in Nat

VARIABLES
  ctxDone,       \* the context given to Start is cancelled
  workchan,      \* buffered items of the write channel
  closed,        \* the write channel is closed
  outPc,         \* "run", "drain" or "done": where Output.Start is
  lines,         \* lines handed to the buffered writer, oldest first
  flushed        \* how many of them are complete in the file

outVars == <<workchan, closed, outPc, lines, flushed>>

OutputInit ==
  /\ workchan = <<>>
  /\ closed = FALSE
  /\ outPc = "run"
  /\ lines = <<>>
  /\ flushed = 0

(* Writer.Write: the line goes to the buffer.  When it does not fit, what  *)
(* was buffered goes to the file first (with a part of the new line).      *)
WriteLine(item) ==
  /\ lines' = Append(lines, item)
  /\ flushed' \in {flushed, Len(lines)}

NullLines == {i \in 1 .. Len(lines) : lines[i] = Null}

(* case item := <-f.workchan, with an item in the buffer.                  *)
Receive ==
  /\ outPc = "run"
  /\ workchan # <<>>
  /\ WriteLine(Head(workchan))
  /\ workchan' = Tail(workchan)
  /\ UNCHANGED <<ctxDone, closed, outPc>>

(* The same case on a closed and empty channel: it is always ready, yields *)
(* nil, and nil is written like any item.                                  *)
ReceiveClosed ==
  /\ outPc = "run"
  /\ closed
  /\ workchan = <<>>
  /\ Cardinality(NullLines) < MaxNulls
  /\ WriteLine(Null)
  /\ UNCHANGED <<ctxDone, workchan, closed, outPc>>

(* case <-ctx.Done(): from here on only the range over the channel.        *)
StartDrain ==
  /\ outPc = "run"
  /\ ctxDone
  /\ outPc' = "drain"
  /\ UNCHANGED <<ctxDone, workchan, closed, lines, flushed>>

Drain ==
  /\ outPc = "drain"
  /\ workchan # <<>>
  /\ WriteLine(Head(workchan))
  /\ workchan' = Tail(workchan)
  /\ UNCHANGED <<ctxDone, closed, outPc>>

(* Mutant of FinishDrain: no Flush before Close.                           *)
MutNoFlush ==
  /\ outPc = "drain"
  /\ closed
  /\ workchan = <<>>
  /\ outPc' = "done"
  /\ UNCHANGED <<ctxDone, workchan, closed, lines, flushed>>

(* The range ends when the channel is closed and empty: Flush, Sync and    *)
(* Close of the file, wg.Done.                                             *)
FinishDrain ==
  /\ outPc = "drain"
  /\ closed
  /\ workchan = <<>>
  /\ flushed' = Len(lines)
  /\ outPc' = "done"
  /\ UNCHANGED <<ctxDone, workchan, closed, lines>>

OutputStep == Receive \/ ReceiveClosed \/ StartDrain \/ Drain \/ FinishDrain
=============================================================================
