---------------------------- MODULE HelperWrite ----------------------------
(***************************************************************************)
(* "helper write" (src/helper/cmd_write.cpp, copy.cpp): a part of a file   *)
(* goes to a part of a device, block by block, while a thread reports how  *)
(* far it is.  Sizes are in cells; cell n of the input holds the value n.  *)
(***************************************************************************)
EXTENDS Integers, FiniteSets

CONSTANTS InSize,     \* cells of the input file
          Huge,       \* more than any size: what size_t wraps around to
          Options,    \* the command lines: [flag, block, count, length, inOff, outOff],
                      \* and outSize, the cells of the output, 0 when it has no size
          Reach,      \* bound: cells of the output that are looked at
          Start, End, \* progress values at the ends (-S, -E)
          Ranges,     \* use_copy_file_range
          Sendfile    \* use_sendfile

ASSUME WriteAssumption ==
  /\ InSize \in Nat /\ Huge \in Nat /\ Reach \in Nat
  /\ Start \in 0 .. 100 /\ End \in 0 .. 100
  /\ Ranges \in BOOLEAN /\ Sendfile \in BOOLEAN
  /\ \A o \in Options : {o.block, o.count, o.length, o.inOff, o.outOff, o.outSize} \subseteq Nat

VARIABLES
  opts,     \* the options, count and length completed by open_device
  main,     \* args, open, copy, count, stop, join, sync, done, failed
  error,    \* an exception is on its way
  range, sendfile, \* the methods that are still tried
  written,  \* stat.cur.written
  moved,    \* written_cur
  device,   \* the output: a cell of the input, or -1: what was there before
  rpc,      \* the report thread: none, start, loop, sleep, gone
  running,  \* running
  last,     \* last_written
  value,    \* the progress value sent last, -1 before the first
  missed    \* history: the stop came before the thread set running

copying == <<opts, range, sendfile, written, moved, device>>
report == <<rpc, running, last, value>>
vars == <<main, error, copying, report, missed>>

Cells == 0 .. Reach

Init ==
  /\ opts \in Options /\ main = "args" /\ error = FALSE
  /\ range = Ranges /\ sendfile = Sendfile
  /\ written = 0 /\ moved = 0 /\ device = [c \in Cells |-> -1]
  /\ rpc = "none" /\ running = FALSE /\ last = 0 /\ value = -1
  /\ missed = FALSE

Throw == error' = TRUE /\ main' = "stop"

-----------------------------------------------------------------------------
\* Options and files.

\* sopts and lopts.
Parsed == {"h", "S", "E", "r", "p", "f", "d", "b", "o", "s", "c", "l", "i", "t", "F", "C"}

\* valid_options.
Valid(o) ==
  /\ Start <= End /\ o.block # 0
  /\ o.count # 0 /\ o.length # 0 => o.count * o.block = o.length

ParseArgs ==
  /\ main = "args"
  /\ IF opts.flag \in Parsed /\ Valid(opts)
     THEN main' = "open" /\ value' = Start /\ UNCHANGED error
     ELSE Throw /\ UNCHANGED value
  /\ UNCHANGED <<copying, rpc, running, last, missed>>

\* The length asked for: all of the input unless the options say how much; 0 is
\* refused, and so is an offset behind the input.
Length(o) ==
  IF o.length # 0 THEN o.length
  ELSE IF o.count # 0 THEN o.count * o.block
  ELSE IF o.inOff > InSize THEN 0 ELSE InSize - o.inOff

\* Every cell that may be written is looked at.
ASSUME ReachAssumption == \A o \in Options : o.outOff + Length(o) <= Reach + 1

\* The sum is compared with 0 as a whole: the count is 1.
Count(o) ==
  IF o.count # 0 THEN o.count
  ELSE IF (Length(o) \div o.block) + (Length(o) % o.block) # 0 THEN 1 ELSE 0

\* The room behind the offset; without a size the difference wraps around.
Room(o) == IF o.outOff > o.outSize THEN Huge ELSE o.outSize - o.outOff

OpenDevice ==
  /\ main = "open"
  /\ \/ /\ Length(opts) > 0
        /\ opts.outSize # 0 => opts.outOff <= opts.outSize
        /\ Length(opts) <= Room(opts)
        /\ opts' = [opts EXCEPT !.length = Length(opts), !.count = Count(opts)]
        /\ main' = "copy" /\ rpc' = "start"
        /\ UNCHANGED error
     \/ Throw /\ UNCHANGED <<opts, rpc>>
  /\ UNCHANGED <<range, sendfile, written, moved, device, running, last, value, missed>>

-----------------------------------------------------------------------------
\* do_copy.

Total == opts.length
Least(a, b) == IF a <= b THEN a ELSE b
\* What a round may copy, and what the input still has of it.
ToCopy == Least(opts.block, Total - written)
Left == Least(ToCopy, InSize - opts.inOff - written)

\* copy_file_range or sendfile is not there for these files.
Fallback ==
  /\ main = "copy" /\ written < Total
  /\ \/ range /\ range' = FALSE /\ UNCHANGED sendfile
     \/ ~range /\ sendfile /\ sendfile' = FALSE /\ UNCHANGED range
  /\ UNCHANGED <<main, error, opts, written, moved, device, report, missed>>

Copied(n) ==
  [c \in Cells |-> IF c \in opts.outOff + written .. opts.outOff + written + n - 1
                   THEN c - opts.outOff + opts.inOff ELSE device[c]]

\* Some of it is copied, by whichever method.
Copy ==
  /\ main = "copy" /\ written < Total
  /\ \E n \in 1 .. Left : moved' = n /\ device' = Copied(n)
  /\ main' = "count"
  /\ UNCHANGED <<error, opts, range, sendfile, written, report, missed>>

\* Mutant: what was asked for is counted, not what was copied.
CountAll ==
  /\ main = "count"
  /\ written' = written + ToCopy /\ moved' = 0
  /\ main' = "copy"
  /\ UNCHANGED <<error, opts, range, sendfile, device, report, missed>>

\* The counter, under stat.lock.
CountMoved ==
  /\ main = "count"
  /\ written' = written + moved /\ moved' = 0
  /\ main' = "copy"
  /\ UNCHANGED <<error, opts, range, sendfile, device, report, missed>>

\* All is written, or a method returned 0: the input has ended.
CopyEnds ==
  /\ main = "copy" /\ (written >= Total \/ Left <= 0)
  /\ main' = "stop"
  /\ UNCHANGED <<error, copying, report, missed>>

CopyFails ==
  /\ main = "copy" /\ written < Total
  /\ Throw
  /\ UNCHANGED <<copying, report, missed>>
-----------------------------------------------------------------------------
\* The report thread and its end.

ReportStarts ==
  /\ rpc = "start"
  /\ running' = TRUE /\ rpc' = "loop"
  /\ UNCHANGED <<main, error, copying, last, value, missed>>

\* Mutant: the loop goes on.
ReportLoopsOn ==
  /\ rpc = "loop"
  /\ rpc' = "sleep"
  /\ UNCHANGED <<main, error, copying, running, last, value, missed>>

ReportLoops ==
  /\ rpc = "loop"
  /\ rpc' = IF running THEN "sleep" ELSE "gone"
  /\ UNCHANGED <<main, error, copying, running, last, value, missed>>

\* copy_status::calc.
Percent == Least((written * 100) \div Total, 100)

\* After a second, under stat.lock; the period may not be over yet.
ReportTicks ==
  /\ rpc = "sleep"
  /\ rpc' = "loop"
  /\ last' = written
  /\ value' \in IF written = last THEN {value} ELSE {value, Start + ((End - Start) * Percent) \div 100}
  /\ UNCHANGED <<main, error, copying, running, missed>>

\* stop_report, called after the copy or by the destructor.
StopReport ==
  /\ main = "stop"
  /\ running' = FALSE /\ missed' = (rpc = "start")
  /\ main' = "join"
  /\ UNCHANGED <<error, copying, rpc, last, value>>

StopJoins ==
  /\ main = "join" /\ rpc \in {"none", "gone"}
  /\ main' = IF error THEN "failed" ELSE "sync"
  /\ UNCHANGED <<error, copying, report, missed>>

\* Mutant: it is not looked at again.
FinishAnyway ==
  /\ main = "sync"
  /\ main' = "done"
  /\ UNCHANGED <<error, copying, report, missed>>

\* fsync, and a last look at the counter.
Finish ==
  /\ main = "sync"
  /\ main' = IF written # Total THEN "failed" ELSE "done"
  /\ UNCHANGED <<error, copying, report, missed>>

Main ==
  \/ ParseArgs \/ OpenDevice \/ Fallback \/ Copy \/ CountMoved \/ CopyEnds \/ CopyFails
  \/ StopReport \/ StopJoins \/ Finish
Reporter == ReportStarts \/ ReportLoops \/ ReportTicks

Next == Main \/ Reporter

Spec == Init /\ [][Next]_vars

\* Both threads run, and an input or output operation returns.
FairSpec == Spec /\ WF_vars(Main) /\ WF_vars(Reporter)
-----------------------------------------------------------------------------
\* What must hold.

\* The output holds what was copied so far, where it belongs, and nothing else
\* has changed, whatever short copies, failures and changes of method there were
\* (copy.cpp:101-121).
CopyExact ==
  \A c \in Cells :
    device[c] = IF c \in opts.outOff .. opts.outOff + written + moved - 1
                THEN c - opts.outOff + opts.inOff ELSE -1

\* The command ends well only when all that was asked for is there: an input
\* that is shorter than -l or -c says ends in an error (cmd_write.cpp:313).
DoneIsWhole ==
  main = "done" => \A i \in 0 .. opts.length - 1 : device[opts.outOff + i] = opts.inOff + i

\* The command ends: the report thread hears of the stop, unless the copy was
\* over before it had set the flag the stop resets (cmd_write.cpp:205, :252).
CommandEnds == main = "stop" ~> (main \in {"done", "failed"} \/ missed)

\* usage, cmd_write.cpp:67: "Number of blocks to write (Default: calc from
\* source file size)": the blocks hold the length.
CountCoversLength == main = "copy" => opts.count * opts.block >= opts.length
=============================================================================
