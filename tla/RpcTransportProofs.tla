------------------------- MODULE RpcTransportProofs ------------------------
(***************************************************************************)
(* Proofs about RpcTransport: for any number of concurrent commands, any   *)
(* size of the pipe and any behaviour of Pi.                               *)
(***************************************************************************)
EXTENDS RpcTransport, TLAPS

\* A line the reader is about to deliver answers a command.
EntryInv == reader \in {"deliver", "set"} => entry \in Answers

TypeInv == TypeOK /\ EntryInv

\* The types of the transport's state, its threads and the pipes are kept.
LEMMA TypeInductive == TypeInv /\ [Next]_vars => TypeInv'
<1> SUFFICES ASSUME TypeInv, [Next]_vars PROVE TypeInv'
  OBVIOUS
<1> USE ConstantsAssumption DEF TypeInv, EntryInv, TypeOK, InFlight, Results, Replies, Lines, Answers
<1>1. ASSUME NEW c \in Calls, CallRefused(c) PROVE TypeInv'
  BY <1>1 DEF CallRefused, Return, Step, shared, readerVars, pi, history
<1>2. ASSUME NEW c \in Calls, CallStarts(c) PROVE TypeInv'
  BY <1>2 DEF CallStarts, Step, shared, readerVars, pi, history
<1>3. ASSUME NEW c \in Calls, Register(c) PROVE TypeInv'
  BY <1>3 DEF Register, Step, readerVars, pi, history
<1>4. ASSUME NEW c \in Calls, TakeWriteLock(c) PROVE TypeInv'
  BY <1>4 DEF TakeWriteLock, Step, readerVars, pi, history
<1>5. ASSUME NEW c \in Calls, Write(c) PROVE TypeInv'
  BY <1>5 DEF Write, Step, readerVars
<1>6. ASSUME NEW c \in Calls, WriteFails(c) PROVE TypeInv'
  BY <1>6 DEF WriteFails, Return, Step, Forget, readerVars, pi, history
<1>7. ASSUME NEW c \in Calls, WaitEnds(c) PROVE TypeInv'
  BY <1>7 DEF WaitEnds, Step, shared, readerVars, pi, history
<1>8. ASSUME NEW c \in Calls, TimesOut(c) PROVE TypeInv'
  BY <1>8 DEF TimesOut, Step, shared, readerVars, pi, history
<1>9. ASSUME NEW c \in Calls, RaiseTimeout(c) PROVE TypeInv'
  BY <1>9 DEF RaiseTimeout, Return, Step, Forget, readerVars, pi, history
<1>10. ASSUME NEW c \in Calls, TakeResponse(c) PROVE TypeInv'
  BY <1>10 DEF TakeResponse, Return, Step, Forget, Outcome, readerVars, pi, history
<1>11. CASE ReadLine
  <2>1. Head(stdout) \in Lines /\ Tail(stdout) \in Seq(Lines)
    BY <1>11 DEF ReadLine
  <2> QED BY <1>11, <2>1 DEF ReadLine, ReaderFrame, callers
<1>12. CASE FillBox
  <2>1. entry.call \in Calls /\ entry.reply \in Replies
    BY <1>12 DEF FillBox
  <2> QED BY <1>12, <2>1 DEF FillBox, ReaderFrame, callers, history
<1>13. CASE SetEvent
  <2>1. entry.call \in Calls
    BY <1>13 DEF SetEvent
  <2> QED BY <1>13, <2>1 DEF SetEvent, ReaderFrame, callers, history, NoAnswer
<1>14. CASE Handled
  BY <1>14 DEF Handled, ReaderFrame, callers, history, NoAnswer
<1>15. CASE EndOfFile
  BY <1>15 DEF EndOfFile, ReaderFrame, callers
<1>16. CASE WakeOne
  BY <1>16 DEF WakeOne, ReaderFrame, callers, history
<1>17. CASE ReaderEnds
  BY <1>17 DEF ReaderEnds, ReaderFrame, callers, history
<1>18. ASSUME NEW reply \in Replies, PiReads(reply) PROVE TypeInv'
  BY <1>18 DEF PiReads, PiFrame, callers, shared, readerVars, history
<1>19. CASE PiWrites
  BY <1>19 DEF PiWrites, PiFrame, NoAnswer, callers, shared, readerVars, history
<1>20. CASE PiCloses
  BY <1>20 DEF PiCloses, PiFrame, callers, shared, readerVars, history
<1>21. CASE PiDies
  <2>1. stdin' \in Seq(Calls) /\ Len(stdin') <= PipeRoom
    BY <1>21 DEF PiDies
  <2>2. alive' = FALSE /\ open' = FALSE
    BY <1>21 DEF PiDies
  <2>3. UNCHANGED <<at, result, pending, event, box, writer, reader, entry, toWake, stdout,
                    written, executed, passed, afterPass, strayed>>
    BY <1>21 DEF PiDies, PiFrame, callers, shared, readerVars, history
  <2> QED BY <2>1, <2>2, <2>3
<1>22. CASE UNCHANGED vars
  BY <1>22 DEF vars, callers, shared, readerVars, pi, history
<1> QED
  BY <1>1, <1>2, <1>3, <1>4, <1>5, <1>6, <1>7, <1>8, <1>9, <1>10, <1>11, <1>12,
     <1>13, <1>14, <1>15, <1>16, <1>17, <1>18, <1>19, <1>20, <1>21, <1>22
  DEF Next, Call, Reader, Pi

-----------------------------------------------------------------------------
\* Nothing of this command has reached Pi.
Unsent(c) ==
  /\ \A i \in 1..Len(stdin) : stdin[i] # c
  /\ \A r \in Replies : [call |-> c, reply |-> r] \notin executed

\* A command is Pi's only after the write of its line has returned, and a call
\* that has ended as closed never got that far.
SentInv ==
  \A c \in Calls :
    /\ result[c] # "none" => at[c] = "done"
    /\ at[c] \in {"new", "register", "lock", "write"} => Unsent(c)
    /\ result[c] = "closed" => Unsent(c)

\* Every answer on its way - in the pipe, in the reader's hands, in a box, in a
\* result - is one Pi gave.
AnswerInv ==
  /\ \A i \in 1..Len(stdout) : stdout[i] \in executed \cup {NoAnswer}
  /\ reader \in {"deliver", "set"} => entry \in executed
  /\ \A c \in Calls :
       /\ box[c] # "empty" => [call |-> c, reply |-> box[c]] \in executed
       /\ result[c] = "ok" => [call |-> c, reply |-> "ok"] \in executed

\* Once the end-of-file pass is made, a waiting command is woken, on the pass's
\* list, or was written after it.
EofInv ==
  /\ passed <=> reader \in {"wake", "ended"}
  /\ reader = "ended" => toWake = {}
  /\ passed => \A c \in Calls : at[c] = "wait" => c \in event \cup afterPass \cup toWake

\* Every way into and out of send_command keeps the table of pending commands.
LEMMA PendingInductive == TypeInv /\ PendingIsInFlight /\ [Next]_vars => PendingIsInFlight'
<1> SUFFICES ASSUME TypeInv, PendingIsInFlight, [Next]_vars PROVE PendingIsInFlight'
  OBVIOUS
<1> USE ConstantsAssumption DEF PendingIsInFlight, TypeInv, TypeOK, EntryInv, InFlight
<1>1. ASSUME NEW c \in Calls, CallRefused(c) PROVE PendingIsInFlight'
  BY <1>1 DEF CallRefused, Return, Step, shared, readerVars, pi, history
<1>2. ASSUME NEW c \in Calls, CallStarts(c) PROVE PendingIsInFlight'
  BY <1>2 DEF CallStarts, Step, shared, readerVars, pi, history
<1>3. ASSUME NEW c \in Calls, Register(c) PROVE PendingIsInFlight'
  BY <1>3 DEF Register, Step, readerVars, pi, history
<1>4. ASSUME NEW c \in Calls, TakeWriteLock(c) PROVE PendingIsInFlight'
  BY <1>4 DEF TakeWriteLock, Step, readerVars, pi, history
<1>5. ASSUME NEW c \in Calls, Write(c) PROVE PendingIsInFlight'
  BY <1>5 DEF Write, Step, readerVars
<1>6. ASSUME NEW c \in Calls, WriteFails(c) PROVE PendingIsInFlight'
  BY <1>6 DEF WriteFails, Return, Step, Forget, readerVars, pi, history
<1>7. ASSUME NEW c \in Calls, WaitEnds(c) PROVE PendingIsInFlight'
  BY <1>7 DEF WaitEnds, Step, shared, readerVars, pi, history
<1>8. ASSUME NEW c \in Calls, TimesOut(c) PROVE PendingIsInFlight'
  BY <1>8 DEF TimesOut, Step, shared, readerVars, pi, history
<1>9. ASSUME NEW c \in Calls, RaiseTimeout(c) PROVE PendingIsInFlight'
  BY <1>9 DEF RaiseTimeout, Return, Step, Forget, readerVars, pi, history
<1>10. ASSUME NEW c \in Calls, TakeResponse(c) PROVE PendingIsInFlight'
  BY <1>10 DEF TakeResponse, Return, Step, Forget, Outcome, readerVars, pi, history
<1>11. CASE ReadLine
  BY <1>11 DEF ReadLine, ReaderFrame, callers
<1>12. CASE FillBox
  BY <1>12 DEF FillBox, ReaderFrame, callers, history
<1>13. CASE SetEvent
  BY <1>13 DEF SetEvent, ReaderFrame, callers, history, NoAnswer
<1>14. CASE Handled
  BY <1>14 DEF Handled, ReaderFrame, callers, history, NoAnswer
<1>15. CASE EndOfFile
  BY <1>15 DEF EndOfFile, ReaderFrame, callers
<1>16. CASE WakeOne
  BY <1>16 DEF WakeOne, ReaderFrame, callers, history
<1>17. CASE ReaderEnds
  BY <1>17 DEF ReaderEnds, ReaderFrame, callers, history
<1>18. CASE PiWrites
  BY <1>18 DEF PiWrites, PiFrame, NoAnswer, callers, shared, readerVars, history
<1>19. CASE PiCloses
  BY <1>19 DEF PiCloses, PiFrame, callers, shared, readerVars, history
<1>20. CASE PiDies
  BY <1>20 DEF PiDies, PiFrame, callers, shared, readerVars, history
<1>21. ASSUME NEW reply \in Replies, PiReads(reply) PROVE PendingIsInFlight'
  BY <1>21 DEF PiReads, PiFrame, callers, shared, readerVars, history
<1>22. CASE UNCHANGED vars
  BY <1>22 DEF vars, callers, shared, readerVars, pi, history
<1> QED
  BY <1>1, <1>2, <1>3, <1>4, <1>5, <1>6, <1>7, <1>8, <1>9, <1>10, <1>11, <1>12,
     <1>13, <1>14, <1>15, <1>16, <1>17, <1>18, <1>19, <1>20, <1>21, <1>22
  DEF Next, Call, Reader, Pi

\* Unsent commands stay unsent until their line is written.
LEMMA SentInductive == TypeInv /\ SentInv /\ [Next]_vars => SentInv'
<1> SUFFICES ASSUME TypeInv, SentInv, [Next]_vars PROVE SentInv'
  OBVIOUS
<1> USE ConstantsAssumption DEF SentInv, TypeInv, TypeOK, EntryInv, InFlight, Results, Replies
<1>0. ASSUME UNCHANGED <<stdin, executed>> PROVE \A d \in Calls : Unsent(d)' <=> Unsent(d)
  BY <1>0 DEF Unsent
<1>1. ASSUME NEW c \in Calls, CallRefused(c) PROVE SentInv'
  BY <1>0, <1>1 DEF CallRefused, Return, Step, shared, readerVars, pi, history
<1>2. ASSUME NEW c \in Calls, CallStarts(c) PROVE SentInv'
  BY <1>0, <1>2 DEF CallStarts, Step, shared, readerVars, pi, history
<1>3. ASSUME NEW c \in Calls, Register(c) PROVE SentInv'
  BY <1>0, <1>3 DEF Register, Step, readerVars, pi, history
<1>4. ASSUME NEW c \in Calls, TakeWriteLock(c) PROVE SentInv'
  BY <1>0, <1>4 DEF TakeWriteLock, Step, readerVars, pi, history
<1>5. ASSUME NEW c \in Calls, Write(c) PROVE SentInv'
  <2>1. \A d \in Calls \ {c} : Unsent(d) => Unsent(d)'
    <3> SUFFICES ASSUME NEW d \in Calls \ {c}, Unsent(d), NEW i \in 1..Len(stdin') PROVE stdin'[i] # d
      BY <1>5 DEF Write, Unsent
    <3>1. stdin' = Append(stdin, c) /\ stdin \in Seq(Calls)
      BY <1>5 DEF Write
    <3> QED BY <3>1 DEF Unsent
  <2>2. result[c] = "none" /\ at'[c] = "wait"
    BY <1>5 DEF Write, Step
  <2> QED BY <1>5, <2>1, <2>2 DEF Write, Step
<1>6. ASSUME NEW c \in Calls, WriteFails(c) PROVE SentInv'
  BY <1>0, <1>6 DEF WriteFails, Return, Step, Forget, readerVars, pi, history
<1>7. ASSUME NEW c \in Calls, WaitEnds(c) PROVE SentInv'
  BY <1>0, <1>7 DEF WaitEnds, Step, shared, readerVars, pi, history
<1>8. ASSUME NEW c \in Calls, TimesOut(c) PROVE SentInv'
  BY <1>0, <1>8 DEF TimesOut, Step, shared, readerVars, pi, history
<1>9. ASSUME NEW c \in Calls, RaiseTimeout(c) PROVE SentInv'
  BY <1>0, <1>9 DEF RaiseTimeout, Return, Step, Forget, readerVars, pi, history
<1>10. ASSUME NEW c \in Calls, TakeResponse(c) PROVE SentInv'
  BY <1>0, <1>10 DEF TakeResponse, Return, Step, Forget, Outcome, readerVars, pi, history
<1>11. CASE ReadLine
  BY <1>0, <1>11 DEF ReadLine, ReaderFrame, callers
<1>12. CASE FillBox
  BY <1>0, <1>12 DEF FillBox, ReaderFrame, callers, history
<1>13. CASE SetEvent
  BY <1>0, <1>13 DEF SetEvent, ReaderFrame, callers, history, NoAnswer
<1>14. CASE Handled
  BY <1>0, <1>14 DEF Handled, ReaderFrame, callers, history, NoAnswer
<1>15. CASE EndOfFile
  BY <1>0, <1>15 DEF EndOfFile, ReaderFrame, callers
<1>16. CASE WakeOne
  BY <1>0, <1>16 DEF WakeOne, ReaderFrame, callers, history
<1>17. CASE ReaderEnds
  BY <1>0, <1>17 DEF ReaderEnds, ReaderFrame, callers, history
<1>18. CASE PiWrites
  BY <1>0, <1>18 DEF PiWrites, PiFrame, NoAnswer, callers, shared, readerVars, history
<1>19. CASE PiCloses
  BY <1>0, <1>19 DEF PiCloses, PiFrame, callers, shared, readerVars, history
<1>20. CASE PiDies
  <2>1. \A d \in Calls : Unsent(d) => Unsent(d)'
    BY <1>20 DEF PiDies, Unsent
  <2>2. UNCHANGED <<at, result>>
    BY <1>20 DEF PiDies, PiFrame, callers
  <2> QED BY <2>1, <2>2
<1>21. ASSUME NEW reply \in Replies, PiReads(reply) PROVE SentInv'
  <2>1. \A d \in Calls : Unsent(d) => Unsent(d)'
    <3> SUFFICES ASSUME NEW d \in Calls, Unsent(d) PROVE Unsent(d)'
      OBVIOUS
    <3>1. /\ stdin \in Seq(Calls) /\ stdin # <<>> /\ stdin' = Tail(stdin)
          /\ executed' = executed \cup {[call |-> Head(stdin), reply |-> reply]}
      BY <1>21 DEF PiReads
    <3>2. Head(stdin) # d
      BY <3>1 DEF Unsent
    <3>3. \A i \in 1..Len(stdin') : stdin'[i] # d
      BY <3>1 DEF Unsent
    <3>4. \A r \in Replies : [call |-> d, reply |-> r] \notin executed'
      BY <3>1, <3>2 DEF Unsent
    <3> QED BY <3>3, <3>4 DEF Unsent
  <2>2. UNCHANGED <<at, result>>
    BY <1>21 DEF PiReads, PiFrame, callers
  <2> QED BY <2>1, <2>2
<1>22. CASE UNCHANGED vars
  BY <1>0, <1>22 DEF vars, callers, shared, readerVars, pi, history
<1> QED
  BY <1>1, <1>2, <1>3, <1>4, <1>5, <1>6, <1>7, <1>8, <1>9, <1>10, <1>11, <1>12,
     <1>13, <1>14, <1>15, <1>16, <1>17, <1>18, <1>19, <1>20, <1>21, <1>22
  DEF Next, Call, Reader, Pi

\* No step makes up an answer or moves one to another command.
LEMMA AnswerInductive == TypeInv /\ AnswerInv /\ [Next]_vars => AnswerInv'
<1> SUFFICES ASSUME TypeInv, AnswerInv, [Next]_vars PROVE AnswerInv'
  OBVIOUS
<1> USE ConstantsAssumption DEF AnswerInv, TypeInv, TypeOK, EntryInv, Replies, Answers, Results, Lines
<1>1. ASSUME NEW c \in Calls, CallRefused(c) PROVE AnswerInv'
  BY <1>1 DEF CallRefused, Return, Step, shared, readerVars, pi, history
<1>2. ASSUME NEW c \in Calls, CallStarts(c) PROVE AnswerInv'
  BY <1>2 DEF CallStarts, Step, shared, readerVars, pi, history
<1>3. ASSUME NEW c \in Calls, Register(c) PROVE AnswerInv'
  BY <1>3 DEF Register, Step, readerVars, pi, history
<1>4. ASSUME NEW c \in Calls, TakeWriteLock(c) PROVE AnswerInv'
  BY <1>4 DEF TakeWriteLock, Step, readerVars, pi, history
<1>5. ASSUME NEW c \in Calls, Write(c) PROVE AnswerInv'
  BY <1>5 DEF Write, Step, readerVars
<1>6. ASSUME NEW c \in Calls, WriteFails(c) PROVE AnswerInv'
  BY <1>6 DEF WriteFails, Return, Step, Forget, readerVars, pi, history
<1>7. ASSUME NEW c \in Calls, WaitEnds(c) PROVE AnswerInv'
  BY <1>7 DEF WaitEnds, Step, shared, readerVars, pi, history
<1>8. ASSUME NEW c \in Calls, TimesOut(c) PROVE AnswerInv'
  BY <1>8 DEF TimesOut, Step, shared, readerVars, pi, history
<1>9. ASSUME NEW c \in Calls, RaiseTimeout(c) PROVE AnswerInv'
  BY <1>9 DEF RaiseTimeout, Return, Step, Forget, readerVars, pi, history
<1>10. ASSUME NEW c \in Calls, TakeResponse(c) PROVE AnswerInv'
  BY <1>10 DEF TakeResponse, Return, Step, Forget, Outcome, readerVars, pi, history
<1>11. CASE ReadLine
  <2>1. /\ stdout \in Seq(Lines) /\ stdout # <<>> /\ stdout' = Tail(stdout)
        /\ entry' = Head(stdout)
    BY <1>11 DEF ReadLine
  <2>2. \A i \in 1..Len(stdout') : stdout'[i] \in executed \cup {NoAnswer}
    BY <2>1
  <2>3. reader' = "deliver" => entry' \in executed
    <3>1. Head(stdout) \in executed \cup {NoAnswer}
      BY <2>1
    <3>2. NoAnswer.call \notin pending
      BY DEF NoAnswer
    <3> QED BY <2>1, <3>1, <3>2, <1>11 DEF ReadLine
  <2> QED BY <1>11, <2>2, <2>3 DEF ReadLine, ReaderFrame, callers
<1>12. CASE FillBox
  BY <1>12 DEF FillBox, ReaderFrame, callers, history
<1>13. CASE SetEvent
  BY <1>13 DEF SetEvent, ReaderFrame, callers, history, NoAnswer
<1>14. CASE Handled
  BY <1>14 DEF Handled, ReaderFrame, callers, history, NoAnswer
<1>15. CASE EndOfFile
  BY <1>15 DEF EndOfFile, ReaderFrame, callers
<1>16. CASE WakeOne
  BY <1>16 DEF WakeOne, ReaderFrame, callers, history
<1>17. CASE ReaderEnds
  BY <1>17 DEF ReaderEnds, ReaderFrame, callers, history
<1>18. CASE PiWrites
  BY <1>18 DEF PiWrites, PiFrame, NoAnswer, callers, shared, readerVars, history
<1>19. CASE PiCloses
  BY <1>19 DEF PiCloses, PiFrame, callers, shared, readerVars, history
<1>20. CASE PiDies
  BY <1>20 DEF PiDies, PiFrame, callers, shared, readerVars, history
<1>21. ASSUME NEW reply \in Replies, PiReads(reply) PROVE AnswerInv'
  BY <1>21 DEF PiReads, PiFrame, callers, shared, readerVars, history
<1>22. CASE UNCHANGED vars
  BY <1>22 DEF vars, callers, shared, readerVars, pi, history
<1> QED
  BY <1>1, <1>2, <1>3, <1>4, <1>5, <1>6, <1>7, <1>8, <1>9, <1>10, <1>11, <1>12,
     <1>13, <1>14, <1>15, <1>16, <1>17, <1>18, <1>19, <1>20, <1>21, <1>22
  DEF Next, Call, Reader, Pi

\* An answer to an unregistered command that Pi executed finds its call ended.
LEMMA StrayInductive == TypeInv /\ PendingIsInFlight /\ SentInv /\ AnswerInv /\ StrayAnswersAreUnwanted /\ [Next]_vars => StrayAnswersAreUnwanted'
<1> SUFFICES ASSUME TypeInv, PendingIsInFlight, SentInv, AnswerInv, StrayAnswersAreUnwanted, [Next]_vars PROVE StrayAnswersAreUnwanted'
  OBVIOUS
<1> USE ConstantsAssumption DEF StrayAnswersAreUnwanted, TypeInv, TypeOK, EntryInv, PendingIsInFlight, InFlight, Lines, Answers
<1>1. ASSUME NEW c \in Calls, CallRefused(c) PROVE StrayAnswersAreUnwanted'
  BY <1>1 DEF CallRefused, Return, Step, shared, readerVars, pi, history
<1>2. ASSUME NEW c \in Calls, CallStarts(c) PROVE StrayAnswersAreUnwanted'
  BY <1>2 DEF CallStarts, Step, shared, readerVars, pi, history
<1>3. ASSUME NEW c \in Calls, Register(c) PROVE StrayAnswersAreUnwanted'
  BY <1>3 DEF Register, Step, readerVars, pi, history
<1>4. ASSUME NEW c \in Calls, TakeWriteLock(c) PROVE StrayAnswersAreUnwanted'
  BY <1>4 DEF TakeWriteLock, Step, readerVars, pi, history
<1>5. ASSUME NEW c \in Calls, Write(c) PROVE StrayAnswersAreUnwanted'
  BY <1>5 DEF Write, Step, readerVars
<1>6. ASSUME NEW c \in Calls, WriteFails(c) PROVE StrayAnswersAreUnwanted'
  BY <1>6 DEF WriteFails, Return, Step, Forget, readerVars, pi, history
<1>7. ASSUME NEW c \in Calls, WaitEnds(c) PROVE StrayAnswersAreUnwanted'
  BY <1>7 DEF WaitEnds, Step, shared, readerVars, pi, history
<1>8. ASSUME NEW c \in Calls, TimesOut(c) PROVE StrayAnswersAreUnwanted'
  BY <1>8 DEF TimesOut, Step, shared, readerVars, pi, history
<1>9. ASSUME NEW c \in Calls, RaiseTimeout(c) PROVE StrayAnswersAreUnwanted'
  BY <1>9 DEF RaiseTimeout, Return, Step, Forget, readerVars, pi, history
<1>10. ASSUME NEW c \in Calls, TakeResponse(c) PROVE StrayAnswersAreUnwanted'
  BY <1>10 DEF TakeResponse, Return, Step, Forget, Outcome, readerVars, pi, history
<1>11. CASE ReadLine
  <2>1. PICK line \in executed \cup {NoAnswer} : line = Head(stdout)
    <3>1. stdout \in Seq(Lines) /\ stdout # <<>>
      BY <1>11 DEF ReadLine
    <3> QED BY <3>1 DEF AnswerInv
  <2>2. line.call \in Calls \ pending => at[line.call] = "done"
    <3> SUFFICES ASSUME line.call \in Calls \ pending PROVE at[line.call] = "done"
      OBVIOUS
    <3>1. line \in executed
      BY DEF NoAnswer
    <3>2. ~Unsent(line.call)
      BY <3>1 DEF Unsent
    <3> QED BY <3>2 DEF SentInv
  <2> QED BY <1>11, <2>1, <2>2 DEF ReadLine, ReaderFrame, callers
<1>12. CASE FillBox
  BY <1>12 DEF FillBox, ReaderFrame, callers, history
<1>13. CASE SetEvent
  BY <1>13 DEF SetEvent, ReaderFrame, callers, history, NoAnswer
<1>14. CASE Handled
  BY <1>14 DEF Handled, ReaderFrame, callers, history, NoAnswer
<1>15. CASE EndOfFile
  BY <1>15 DEF EndOfFile, ReaderFrame, callers
<1>16. CASE WakeOne
  BY <1>16 DEF WakeOne, ReaderFrame, callers, history
<1>17. CASE ReaderEnds
  BY <1>17 DEF ReaderEnds, ReaderFrame, callers, history
<1>18. CASE PiWrites
  BY <1>18 DEF PiWrites, PiFrame, NoAnswer, callers, shared, readerVars, history
<1>19. CASE PiCloses
  BY <1>19 DEF PiCloses, PiFrame, callers, shared, readerVars, history
<1>20. CASE PiDies
  BY <1>20 DEF PiDies, PiFrame, callers, shared, readerVars, history
<1>21. ASSUME NEW reply \in Replies, PiReads(reply) PROVE StrayAnswersAreUnwanted'
  BY <1>21 DEF PiReads, PiFrame, callers, shared, readerVars, history
<1>22. CASE UNCHANGED vars
  BY <1>22 DEF vars, callers, shared, readerVars, pi, history
<1> QED
  BY <1>1, <1>2, <1>3, <1>4, <1>5, <1>6, <1>7, <1>8, <1>9, <1>10, <1>11, <1>12,
     <1>13, <1>14, <1>15, <1>16, <1>17, <1>18, <1>19, <1>20, <1>21, <1>22
  DEF Next, Call, Reader, Pi

\* The end-of-file pass reaches every command that was waiting.
LEMMA EofInductive == TypeInv /\ PendingIsInFlight /\ EofInv /\ [Next]_vars => EofInv'
<1> SUFFICES ASSUME TypeInv, PendingIsInFlight, EofInv, [Next]_vars PROVE EofInv'
  OBVIOUS
<1> USE ConstantsAssumption DEF EofInv, TypeInv, TypeOK, EntryInv, PendingIsInFlight, InFlight
<1>1. ASSUME NEW c \in Calls, CallRefused(c) PROVE EofInv'
  BY <1>1 DEF CallRefused, Return, Step, shared, readerVars, pi, history
<1>2. ASSUME NEW c \in Calls, CallStarts(c) PROVE EofInv'
  BY <1>2 DEF CallStarts, Step, shared, readerVars, pi, history
<1>3. ASSUME NEW c \in Calls, Register(c) PROVE EofInv'
  BY <1>3 DEF Register, Step, readerVars, pi, history
<1>4. ASSUME NEW c \in Calls, TakeWriteLock(c) PROVE EofInv'
  BY <1>4 DEF TakeWriteLock, Step, readerVars, pi, history
<1>5. ASSUME NEW c \in Calls, Write(c) PROVE EofInv'
  BY <1>5 DEF Write, Step, readerVars
<1>6. ASSUME NEW c \in Calls, WriteFails(c) PROVE EofInv'
  BY <1>6 DEF WriteFails, Return, Step, Forget, readerVars, pi, history
<1>7. ASSUME NEW c \in Calls, WaitEnds(c) PROVE EofInv'
  BY <1>7 DEF WaitEnds, Step, shared, readerVars, pi, history
<1>8. ASSUME NEW c \in Calls, TimesOut(c) PROVE EofInv'
  BY <1>8 DEF TimesOut, Step, shared, readerVars, pi, history
<1>9. ASSUME NEW c \in Calls, RaiseTimeout(c) PROVE EofInv'
  BY <1>9 DEF RaiseTimeout, Return, Step, Forget, readerVars, pi, history
<1>10. ASSUME NEW c \in Calls, TakeResponse(c) PROVE EofInv'
  BY <1>10 DEF TakeResponse, Return, Step, Forget, Outcome, readerVars, pi, history
<1>11. CASE ReadLine
  BY <1>11 DEF ReadLine, ReaderFrame, callers
<1>12. CASE FillBox
  BY <1>12 DEF FillBox, ReaderFrame, callers, history
<1>13. CASE SetEvent
  BY <1>13 DEF SetEvent, ReaderFrame, callers, history, NoAnswer
<1>14. CASE Handled
  BY <1>14 DEF Handled, ReaderFrame, callers, history, NoAnswer
<1>15. CASE EndOfFile
  BY <1>15 DEF EndOfFile, ReaderFrame, callers
<1>16. CASE WakeOne
  BY <1>16 DEF WakeOne, ReaderFrame, callers, history
<1>17. CASE ReaderEnds
  BY <1>17 DEF ReaderEnds, ReaderFrame, callers, history
<1>18. CASE PiWrites
  BY <1>18 DEF PiWrites, PiFrame, NoAnswer, callers, shared, readerVars, history
<1>19. CASE PiCloses
  BY <1>19 DEF PiCloses, PiFrame, callers, shared, readerVars, history
<1>20. CASE PiDies
  BY <1>20 DEF PiDies, PiFrame, callers, shared, readerVars, history
<1>21. ASSUME NEW reply \in Replies, PiReads(reply) PROVE EofInv'
  BY <1>21 DEF PiReads, PiFrame, callers, shared, readerVars, history
<1>22. CASE UNCHANGED vars
  BY <1>22 DEF vars, callers, shared, readerVars, pi, history
<1> QED
  BY <1>1, <1>2, <1>3, <1>4, <1>5, <1>6, <1>7, <1>8, <1>9, <1>10, <1>11, <1>12,
     <1>13, <1>14, <1>15, <1>16, <1>17, <1>18, <1>19, <1>20, <1>21, <1>22
  DEF Next, Call, Reader, Pi

-----------------------------------------------------------------------------
\* What the theorems below rest on.
IInv ==
  /\ TypeInv /\ PendingIsInFlight /\ SentInv /\ AnswerInv
  /\ StrayAnswersAreUnwanted /\ EofInv

\* The conjunction is an invariant of the transport.
LEMMA Invariance == Spec => []IInv
<1>1. Init => IInv
  <2> SUFFICES ASSUME Init PROVE IInv
    OBVIOUS
  <2> USE ConstantsAssumption DEF Init, InFlight, Replies
  <2>1. stdin \in Seq(Calls) /\ Len(stdin) = 0 /\ stdout \in Seq(Lines) /\ Len(stdout) = 0
    OBVIOUS
  <2>2. TypeInv
    <3>1. /\ at = [c \in Calls |-> "new"] /\ result = [c \in Calls |-> "none"]
          /\ pending = {} /\ event = {} /\ box = [c \in Calls |-> "empty"] /\ writer = NoCall
          /\ reader = "read" /\ entry = NoAnswer /\ toWake = {}
          /\ alive = TRUE /\ open = TRUE /\ written = 0 /\ executed = {}
          /\ passed = FALSE /\ afterPass = {} /\ strayed = {}
      OBVIOUS
    <3> HIDE DEF Init
    <3>2. entry \in Lines
      BY <3>1 DEF Lines, NoAnswer
    <3>3. executed \in SUBSET Answers
      BY <3>1
    <3>4. /\ stdin \in Seq(Calls) /\ Len(stdin) <= PipeRoom
          /\ written \in 0..MaxLines
      BY <2>1, <3>1
    <3>5. TypeOK
      BY <2>1, <3>1, <3>2, <3>3, <3>4 DEF TypeOK, Results
    <3> QED BY <3>1, <3>5 DEF TypeInv, EntryInv
  <2>3. SentInv /\ AnswerInv
    BY <2>1 DEF SentInv, Unsent, AnswerInv
  <2>4. PendingIsInFlight /\ StrayAnswersAreUnwanted /\ EofInv
    BY DEF PendingIsInFlight, StrayAnswersAreUnwanted, EofInv
  <2> QED BY <2>2, <2>3, <2>4 DEF IInv
<1>2. IInv /\ [Next]_vars => IInv'
  BY TypeInductive, PendingInductive, SentInductive, AnswerInductive, StrayInductive,
     EofInductive DEF IInv
<1> QED BY <1>1, <1>2, PTL DEF Spec

\* Type correctness: the reader never puts anything but an answer to a command
\* into a box or sets any other event.
THEOREM TypeCorrect == Spec => []TypeOK
<1>1. IInv => TypeOK
  BY DEF IInv, TypeInv
<1> QED BY Invariance, <1>1, PTL

\* send_command leaves no entry behind on any of its ways out, and waits with
\* one: for any number of concurrent callers.
THEOREM PendingExact == Spec => []PendingIsInFlight
<1>1. IInv => PendingIsInFlight
  BY DEF IInv
<1> QED BY Invariance, <1>1, PTL

\* Correlation: success is only reported for a command that Pi executed, and a
\* closed transport only for one it never got, whatever Pi answers and when.
THEOREM TruthfulResult == Spec => []ResultIsTruthful
<1>1. IInv => ResultIsTruthful
  BY DEF IInv, SentInv, Unsent, AnswerInv, ResultIsTruthful
<1> QED BY Invariance, <1>1, PTL

\* The event handler gets an answer only of a call that has ended.
THEOREM StrayUnwanted == Spec => []StrayAnswersAreUnwanted
<1>1. IInv => StrayAnswersAreUnwanted
  BY DEF IInv
<1> QED BY Invariance, <1>1, PTL

\* The end of stdout leaves no command waiting that was written before it was
\* seen.
THEOREM EofReachesAll == Spec => []EofWakesAll
<1>1. IInv => EofWakesAll
  BY DEF IInv, EofInv, EofWakesAll
<1> QED BY Invariance, <1>1, PTL
============================================================================
