---------------------------- MODULE EpollReader -----------------------------
(***************************************************************************)
(* epoll_example.c: a loop that waits until standard input is ready, reads *)
(* at most ReadSize bytes and ends when what it read starts with the bytes *)
(* of the line "stop".                                                     *)
(*                                                                         *)
(* A byte is "nl" at the end of a line, "stop" for the four letters of the *)
(* word, or "x".  Standard input is a terminal, where a read ends with the *)
(* line, or a pipe, where it takes what there is; a file is refused by     *)
(* epoll_ctl.  Whoever types or writes, and the kernel, are external.      *)
(***************************************************************************)
EXTENDS Naturals, Integers, Sequences, SequencesExt

CONSTANTS
    ReadSize,    (* READ_SIZE, 10 in the code                              *)
    Lines,       (* the lines that may be typed, without their "nl"        *)
    MaxLines,    (* a bound: how many lines are typed                      *)
    MaxFailures  (* a bound: reads that fail and waits that are interrupted*)

ASSUME ReadSizeAssumption == ReadSize \in Nat \ {0, 1}
ASSUME LinesAssumption == Lines \subseteq Seq({"x", "stop"})
ASSUME BoundsAssumption == MaxLines \in Nat /\ MaxFailures \in Nat

VARIABLES
    kind,                   (* what standard input is                      *)
    unread, open,           (* bytes not read yet; is the writer there?    *)
    typed, failures,        (* counters of the bounded events              *)
    pc, epollFd, exitCode,  (* the program: where it is, its descriptor    *)
    running, event_count,
    read_buffer             (* read_buffer up to its terminator            *)

input == <<kind, unread, open, typed>>
program == <<pc, epollFd, exitCode, running, event_count, read_buffer>>
readerVars == <<kind, unread, open, typed, failures,
                pc, epollFd, exitCode, running, event_count, read_buffer>>

StopLine == <<"stop", "nl">>
Bytes == {"x", "stop", "nl"}

ReaderInit ==
    /\ kind \in {"terminal", "pipe", "file"}
    /\ unread = <<>> /\ open = TRUE /\ typed = 0 /\ failures = 0
    /\ pc = "create" /\ epollFd = "none" /\ exitCode = -1
    /\ running = TRUE /\ event_count = 0 /\ read_buffer = <<>>

Goto(there) == pc' = there

Exit(code) == Goto("exited") /\ exitCode' = code

-----------------------------------------------------------------------------
(* The writer, who may type when nothing reads, and may hang up.           *)
Type ==
    /\ open /\ typed < MaxLines
    /\ \E l \in Lines : unread' = unread \o Append(l, "nl")
    /\ typed' = typed + 1
    /\ UNCHANGED <<kind, open, failures, program>>

HangUp ==
    /\ open
    /\ open' = FALSE
    /\ UNCHANGED <<kind, unread, typed, failures, program>>

-----------------------------------------------------------------------------
CreateFails ==
    /\ pc = "create"
    /\ Exit(1)
    /\ UNCHANGED <<input, failures, epollFd, running, event_count, read_buffer>>

Create ==
    /\ pc = "create"
    /\ epollFd' = "open"
    /\ Goto("add")
    /\ UNCHANGED <<input, failures, exitCode, running, event_count, read_buffer>>

(* epoll_ctl may fail for any descriptor, and always does for a file.      *)
AddFails ==
    /\ pc = "add"
    /\ epollFd' = "closed"
    /\ Exit(1)
    /\ UNCHANGED <<input, failures, running, event_count, read_buffer>>

Add ==
    /\ pc = "add"
    /\ kind # "file"
    /\ Goto("wait")
    /\ UNCHANGED <<input, failures, epollFd, exitCode, running, event_count, read_buffer>>

(* The descriptor is ready when a read would not block: there are bytes,   *)
(* or the end of the input, which stays.                                   *)
Ready == unread # <<>> \/ ~open

Waited(n) ==
    /\ pc = "wait" /\ running
    /\ event_count' = n
    /\ Goto(IF n > 0 THEN "read" ELSE "wait")
    /\ UNCHANGED <<input, epollFd, exitCode, running, read_buffer>>

WaitReady == Ready /\ Waited(1) /\ UNCHANGED failures

WaitTimesOut == ~Ready /\ Waited(0) /\ UNCHANGED failures

(* A process that was stopped and continued: epoll_wait returns -1, which  *)
(* is printed as a number of events and waited for again.                  *)
WaitInterrupted ==
    /\ failures < MaxFailures
    /\ failures' = failures + 1
    /\ Waited(-1)

LinesBefore(n) == \E j \in 1 .. n - 1 : unread[j] = "nl"
LineEndsAt(n) == n > 0 /\ unread[n] = "nl"

(* How many bytes one read returns: what there is and the buffer holds, on *)
(* a terminal up to the end of the line.                                   *)
Available ==
    {n \in 0 .. Len(unread) :
        /\ n <= ReadSize
        /\ kind = "terminal" => ~LinesBefore(n)
        /\ n \in {ReadSize, Len(unread)} \/ (kind = "terminal" /\ LineEndsAt(n))}

(* The loop goes on or ends.                                               *)
Loop(stopped) ==
    /\ running' = ~stopped
    /\ Goto(IF stopped THEN "close" ELSE "wait")

(* Mutant: the line is looked for anywhere in what was read.               *)
JudgeAnywhere(buffer) ==
    Loop(\E j \in DOMAIN buffer : IsPrefix(StopLine, SubSeq(buffer, j, Len(buffer))))

(* Mutant: the word is compared with the line and its end.                 *)
JudgeWord(buffer) == Loop(buffer = <<"stop">>)

(* Mutant: as many characters are compared as were read, which may be none.*)
JudgeBytesRead(buffer) == Loop(IsPrefix(buffer, StopLine))

(* strncmp with the line.                                                  *)
Judge(buffer) == Loop(IsPrefix(StopLine, buffer))

(* At the end of the input the read returns 0 and the buffer is empty.     *)
Read ==
    /\ pc = "read"
    /\ \E n \in Available :
          /\ read_buffer' = SubSeq(unread, 1, n)
          /\ unread' = SubSeq(unread, n + 1, Len(unread))
    /\ Judge(read_buffer')
    /\ UNCHANGED <<kind, open, typed, failures, epollFd, exitCode, event_count>>

(* A read fails: bytes_read is -1 as an unsigned number and the terminator *)
(* is put before the buffer.  Whatever is there is overwritten, and        *)
(* nothing is known of the program from then on; or it was of no use to    *)
(* anyone, and the buffer still holds what the read before left there.     *)
ReadFails ==
    /\ pc = "read"
    /\ failures < MaxFailures
    /\ failures' = failures + 1
    /\ \/ Judge(read_buffer)
       \/ Goto("undefined") /\ UNCHANGED running
    /\ UNCHANGED <<input, epollFd, exitCode, event_count, read_buffer>>

Close ==
    /\ pc = "close"
    /\ epollFd' = "closed"
    /\ \E code \in {0, 1} : Exit(code)
    /\ UNCHANGED <<input, failures, running, event_count, read_buffer>>

Program ==
    \/ CreateFails \/ Create \/ AddFails \/ Add
    \/ WaitReady \/ WaitTimesOut \/ WaitInterrupted
    \/ Read \/ ReadFails \/ Close

Ended == pc \in {"exited", "undefined"} /\ UNCHANGED readerVars

ReaderNext == Type \/ HangUp \/ Program \/ Ended

(* The program runs; nobody has to type.                                   *)
ReaderSpec == ReaderInit /\ [][ReaderNext]_readerVars /\ WF_readerVars(Program)

-----------------------------------------------------------------------------
ReaderTypeOK ==
    /\ kind \in {"terminal", "pipe", "file"}
    /\ unread \in Seq(Bytes) /\ read_buffer \in Seq(Bytes)
    /\ Len(read_buffer) <= ReadSize
    /\ open \in BOOLEAN /\ running \in BOOLEAN
    /\ typed \in 0 .. MaxLines /\ failures \in 0 .. MaxFailures
    /\ pc \in {"create", "add", "wait", "read", "close", "exited", "undefined"}
    /\ epollFd \in {"none", "open", "closed"}
    /\ exitCode \in -1 .. 1 /\ event_count \in -1 .. 1

(* The loop ends only in a step that reads bytes off the input that start  *)
(* with those of the stop line: a line of its own, or the tail of a longer *)
(* one that the buffer cut.  A read that failed leaves the buffer as it    *)
(* was: no bytes read before end the loop a second time, and neither does  *)
(* the end of the input.                                                   *)
EndsOnStopOnly ==
    [][running /\ ~running' =>
          IsPrefix(StopLine, unread) /\ Len(unread') < Len(unread)]_readerVars

(* A line of its own: at the start of the input or after the end of one.   *)
StopTyped ==
    \E j \in DOMAIN unread :
        /\ IsPrefix(StopLine, SubSeq(unread, j, Len(unread)))
        /\ j = 1 \/ unread[j - 1] = "nl"

Fits == \A l \in Lines : Len(l) < ReadSize

(* On a terminal, if no line is longer than the buffer, the line "stop"    *)
(* ends the program, whatever waits and reads fail before.                 *)
StopEnds ==
    kind = "terminal" /\ Fits /\ StopTyped ~> pc \in {"exited", "undefined"}

(* At the end of the input the loop does not end any more: each wait finds *)
(* the descriptor ready, and each read finds nothing.                      *)
AtEnd == ~open /\ unread = <<>> /\ running /\ pc = "wait"

EndOfInputSpins == [](AtEnd => []<>(pc = "read") \/ <>(pc = "undefined"))

(* However the program exits, it has closed the descriptor it created.     *)
ClosedAtExit == pc = "exited" => epollFd # "open"
=============================================================================
