---------------------------- MODULE RpcTransport ---------------------------
(***************************************************************************)
(* The RPC transport of one Pi process (rpc_transport.py): any number of   *)
(* threads call send_command, one reader thread pairs the lines of stdout  *)
(* with the commands that wait for them and hands the rest to the event    *)
(* handler.                                                                *)
(*                                                                         *)
(* A call is one send_command with its request id.  Its steps are the ones *)
(* another thread can come between: the poll, the registration under       *)
(* _pending_lock, the write under _write_lock, the wait, the removal.  The *)
(* reader looks an answer up under the lock, and fills the box and sets    *)
(* the event after it released it.  A timeout may strike at any moment of  *)
(* the wait.  The pipes and Pi are external: Pi reads commands and answers *)
(* them in any order, late, twice or never, emits events, closes its       *)
(* stdout and dies when it likes.                                          *)
(***************************************************************************)
EXTENDS Naturals, Sequences, FiniteSets

CONSTANTS
  Calls,       \* the commands sent over the life of the process
  NoCall,
  PipeRoom,    \* commands that fit into stdin's pipe unread
  MaxLines     \* bound: lines Pi writes to stdout

ASSUME ConstantsAssumption ==
  /\ IsFiniteSet(Calls) /\ NoCall \notin Calls
  /\ PipeRoom \in Nat \ {0} /\ MaxLines \in Nat

VARIABLES
  \* the calling threads
  at,          \* where each call is
  result,      \* what send_command returned or raised
  \* shared state of the transport
  pending,     \* request ids in _pending
  event,       \* calls whose event is set
  box,         \* the response in each call's box
  writer,      \* holder of _write_lock
  \* the reader thread
  reader,
  entry,       \* the call whose answer the reader holds
  toWake,      \* entries of the end-of-file pass still to be woken
  \* the pipes and Pi (external)
  alive, stdin, stdout, open, written, executed,
  \* history
  passed,      \* has the end-of-file pass been made?
  afterPass,   \* calls written after it
  strayed      \* calls an answer of which went to the event handler

callers == <<at, result>>
shared == <<pending, event, box, writer>>
readerVars == <<reader, entry, toWake>>
pi == <<alive, stdin, stdout, open, written, executed>>
history == <<passed, afterPass, strayed>>
vars == <<callers, shared, readerVars, pi, history>>

Replies == {"ok", "error"}
Results == {"none", "ok", "failed", "closed", "timeout"}
Answers == [call : Calls, reply : Replies]
Lines == Answers \cup [call : {NoCall}, reply : {"event"}]
\* The steps of a call during which its id is registered.
InFlight == {"lock", "write", "wait", "timedOut", "woken"}

TypeOK ==
  /\ at \in [Calls -> {"new", "register", "done"} \cup InFlight]
  /\ result \in [Calls -> Results]
  /\ pending \subseteq Calls /\ event \subseteq Calls
  /\ box \in [Calls -> Replies \cup {"empty"}]
  /\ writer \in Calls \cup {NoCall}
  /\ reader \in {"read", "deliver", "set", "handle", "eof", "wake", "ended"}
  /\ entry \in Lines
  /\ toWake \subseteq Calls
  /\ alive \in BOOLEAN /\ open \in BOOLEAN /\ passed \in BOOLEAN
  /\ stdin \in Seq(Calls) /\ Len(stdin) <= PipeRoom
  /\ stdout \in Seq(Lines) /\ written \in 0..MaxLines
  /\ executed \in SUBSET Answers
  /\ afterPass \subseteq Calls /\ strayed \subseteq Calls

NoAnswer == [call |-> NoCall, reply |-> "event"]

Init ==
  /\ at = [c \in Calls |-> "new"] /\ result = [c \in Calls |-> "none"]
  /\ pending = {} /\ event = {} /\ box = [c \in Calls |-> "empty"] /\ writer = NoCall
  /\ reader = "read" /\ entry = NoAnswer /\ toWake = {}
  /\ alive = TRUE /\ stdin = <<>> /\ stdout = <<>> /\ open = TRUE
  /\ written = 0 /\ executed = {}
  /\ passed = FALSE /\ afterPass = {} /\ strayed = {}

----------------------------------------------------------------------------
\* send_command, on the thread of the caller

Step(c, from, to) == at[c] = from /\ at' = [at EXCEPT ![c] = to]
\* send_command leaves with this result.
Return(c, from, r) == Step(c, from, "done") /\ result' = [result EXCEPT ![c] = r]

\* poll: the process has exited already.
CallRefused(c) ==
  /\ ~alive
  /\ Return(c, "new", "closed")
  /\ UNCHANGED <<shared, readerVars, pi, history>>

CallStarts(c) ==
  /\ alive
  /\ Step(c, "new", "register")
  /\ UNCHANGED <<result, shared, readerVars, pi, history>>

\* Mutation: the command is sent without being registered.
MutRegister(c) ==
  /\ Step(c, "register", "lock")
  /\ UNCHANGED <<pending, result, event, box, writer, readerVars, pi, history>>
Register(c) ==
  /\ Step(c, "register", "lock")
  /\ pending' = pending \cup {c}
  /\ UNCHANGED <<result, event, box, writer, readerVars, pi, history>>

TakeWriteLock(c) ==
  /\ writer = NoCall
  /\ Step(c, "lock", "write")
  /\ writer' = c
  /\ UNCHANGED <<result, pending, event, box, readerVars, pi, history>>

\* write and flush: they return when the pipe has taken the line.
Write(c) ==
  /\ alive /\ Len(stdin) < PipeRoom
  /\ Step(c, "write", "wait")
  /\ writer' = NoCall
  /\ stdin' = Append(stdin, c)
  /\ afterPass' = IF passed THEN afterPass \cup {c} ELSE afterPass
  /\ UNCHANGED <<result, pending, event, box, readerVars, alive, stdout, open,
                 written, executed, passed, strayed>>

\* Mutation: the entry of a command that could not be written is left behind.
MutForget(c) == pending' = IF at[c] = "write" THEN pending ELSE pending \ {c}
Forget(c) == pending' = pending \ {c}

\* Mutation: the lock is not released when the write raises.
MutWriteFails(c) ==
  /\ ~alive
  /\ Return(c, "write", "closed")
  /\ Forget(c)
  /\ UNCHANGED <<event, box, writer, readerVars, pi, history>>
\* A broken pipe: the exception releases the lock, the handler the entry.
WriteFails(c) ==
  /\ ~alive
  /\ Return(c, "write", "closed")
  /\ writer' = NoCall
  /\ Forget(c)
  /\ UNCHANGED <<event, box, readerVars, pi, history>>

WaitEnds(c) ==
  /\ c \in event
  /\ Step(c, "wait", "woken")
  /\ UNCHANGED <<result, shared, readerVars, pi, history>>

TimesOut(c) ==
  /\ c \notin event
  /\ Step(c, "wait", "timedOut")
  /\ UNCHANGED <<result, shared, readerVars, pi, history>>

RaiseTimeout(c) ==
  /\ Return(c, "timedOut", "timeout")
  /\ Forget(c)
  /\ UNCHANGED <<event, box, writer, readerVars, pi, history>>

\* Mutation: an empty box counts as success.
MutOutcome(c) == IF box[c] \in {"ok", "empty"} THEN "ok" ELSE "failed"
\* An empty box (the end-of-file pass) reads as a failed command.
Outcome(c) == IF box[c] = "ok" THEN "ok" ELSE "failed"

TakeResponse(c) ==
  /\ Return(c, "woken", Outcome(c))
  /\ Forget(c)
  /\ UNCHANGED <<event, box, writer, readerVars, pi, history>>

Call(c) ==
  \/ CallRefused(c) \/ CallStarts(c) \/ Register(c) \/ TakeWriteLock(c)
  \/ Write(c) \/ WriteFails(c) \/ WaitEnds(c) \/ TimesOut(c)
  \/ RaiseTimeout(c) \/ TakeResponse(c)

----------------------------------------------------------------------------
\* _read_loop

ReaderFrame == UNCHANGED <<callers, pending, writer, alive, stdin, open, written, executed>>

\* Mutation: every line is taken for the answer to a command.
MutReadLine ==
  /\ reader = "read" /\ stdout # <<>>
  /\ reader' = "deliver" /\ entry' = Head(stdout)
  /\ stdout' = Tail(stdout)
  /\ UNCHANGED <<event, box, toWake, history>> /\ ReaderFrame
\* The next line: the answer to a command that is still registered, or
\* anything else - an event, or an answer nobody waits for.
ReadLine ==
  /\ reader = "read" /\ stdout # <<>>
  /\ LET line == Head(stdout) IN
       /\ reader' = IF line.call \in pending THEN "deliver" ELSE "handle"
       /\ strayed' = IF line.call \in Calls \ pending
                       THEN strayed \cup {line.call} ELSE strayed
       /\ entry' = line
  /\ stdout' = Tail(stdout)
  /\ UNCHANGED <<event, box, toWake, passed, afterPass>> /\ ReaderFrame

FillBox ==
  /\ reader = "deliver"
  /\ box' = [box EXCEPT ![entry.call] = entry.reply]
  /\ reader' = "set"
  /\ UNCHANGED <<event, entry, toWake, stdout, history>> /\ ReaderFrame

SetEvent ==
  /\ reader = "set"
  /\ event' = event \cup {entry.call}
  /\ reader' = "read" /\ entry' = NoAnswer
  /\ UNCHANGED <<box, toWake, stdout, history>> /\ ReaderFrame

\* The event handler returns, or raises.
Handled ==
  /\ reader = "handle"
  /\ reader' = "read" /\ entry' = NoAnswer
  /\ UNCHANGED <<event, box, toWake, stdout, history>> /\ ReaderFrame

\* Mutation: the pass wakes only commands that have been answered.
MutEndOfFile ==
  /\ reader = "read" /\ stdout = <<>> /\ ~open
  /\ reader' = "wake" /\ toWake' = {c \in pending : box[c] # "empty"} /\ passed' = TRUE
  /\ UNCHANGED <<event, box, entry, stdout, afterPass, strayed>> /\ ReaderFrame
\* End of file: the commands still registered, taken under the lock...
EndOfFile ==
  /\ reader = "read" /\ stdout = <<>> /\ ~open
  /\ reader' = "wake" /\ toWake' = pending /\ passed' = TRUE
  /\ UNCHANGED <<event, box, entry, stdout, afterPass, strayed>> /\ ReaderFrame

\* ... are woken one after the other.
WakeOne ==
  /\ reader = "wake"
  /\ \E c \in toWake : event' = event \cup {c} /\ toWake' = toWake \ {c}
  /\ UNCHANGED <<reader, box, entry, stdout, history>> /\ ReaderFrame

ReaderEnds ==
  /\ reader = "wake" /\ toWake = {}
  /\ reader' = "ended"
  /\ UNCHANGED <<event, box, entry, toWake, stdout, history>> /\ ReaderFrame

Reader == ReadLine \/ FillBox \/ SetEvent \/ Handled \/ EndOfFile \/ WakeOne \/ ReaderEnds

----------------------------------------------------------------------------
\* Pi (external)

PiFrame == UNCHANGED <<callers, shared, readerVars, history>>

PiReads(reply) ==
  /\ alive /\ stdin # <<>>
  /\ executed' = executed \cup {[call |-> Head(stdin), reply |-> reply]}
  /\ stdin' = Tail(stdin)
  /\ UNCHANGED <<alive, stdout, open, written>> /\ PiFrame

PiWrites ==
  /\ alive /\ open /\ written < MaxLines
  /\ \E line \in executed \cup {NoAnswer} : stdout' = Append(stdout, line)
  /\ written' = written + 1
  /\ UNCHANGED <<alive, stdin, open, executed>> /\ PiFrame

PiCloses ==
  /\ open /\ open' = FALSE
  /\ UNCHANGED <<alive, stdin, stdout, written, executed>> /\ PiFrame

PiDies ==
  /\ alive /\ alive' = FALSE /\ open' = FALSE /\ stdin' = <<>>
  /\ UNCHANGED <<stdout, written, executed>> /\ PiFrame

Pi == (\E reply \in Replies : PiReads(reply)) \/ PiWrites \/ PiCloses \/ PiDies

Next == (\E c \in Calls : Call(c)) \/ Reader \/ Pi

Spec == Init /\ [][Next]_vars

\* The callers' threads and the reader's run, a wait ends, and a Pi that lives
\* reads its stdin.
FairSpec ==
  /\ Spec
  /\ \A c \in Calls : WF_vars(Call(c))
  /\ WF_vars(Reader)
  /\ WF_vars(\E reply \in Replies : PiReads(reply))

----------------------------------------------------------------------------
\* Safety: the table of pending commands holds exactly the calls under way:
\* no way out of send_command leaves an entry behind, none works without one.
PendingIsInFlight == \A c \in Calls : c \in pending <=> at[c] \in InFlight

\* Safety: what send_command reports is true of Pi: success only for a command
\* that Pi executed, a closed transport only for one it never got.
ResultIsTruthful ==
  \A c \in Calls :
    /\ result[c] = "ok" => [call |-> c, reply |-> "ok"] \in executed
    /\ result[c] = "closed" => \A r \in Replies : [call |-> c, reply |-> r] \notin executed

\* Safety: an answer goes to the event handler only when its caller has given
\* up or has had one already.
StrayAnswersAreUnwanted == \A c \in strayed : at[c] = "done"

\* Safety: when the reader has ended, no command that was written before its
\* end-of-file pass is left to wait for its timeout.
EofWakesAll ==
  reader = "ended" => \A c \in Calls : at[c] = "wait" => c \in event \cup afterPass

\* Liveness: every command that is sent returns or raises.
CallEnds == \A c \in Calls : at[c] # "new" ~> at[c] = "done"
============================================================================
