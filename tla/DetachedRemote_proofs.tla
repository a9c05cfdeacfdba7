------------------------ MODULE DetachedRemote_proofs ------------------------
(***************************************************************************)
(* Proofs about DetachedRemote, for any number of attempts and lines of    *)
(* output, with and without lost answers.                                  *)
(***************************************************************************)
EXTENDS DetachedRemote, SequenceTheorems, TLAPS

-----------------------------------------------------------------------------
(* The inductive invariant                                                 *)

\* Where the loop is while an attempt is started and not over.
Round == {"loop", "mark", "term", "list", "size", "read", "exit", "alive", "append", "finish"}

\* An attempt is left when one is started, and the row of one that is followed is active.
Control ==
    /\ pc = "start" => attempt < MaxAttempts
    /\ pc \in Round => row \in {"running", "kill_requested"} /\ attempt \in Attempts
    /\ pc = "start" => row \in {"pending", "retrying"}

\* The part of a poll that has been made: the log has at least the size that was taken, and
\* what lies between the cursor and that size is in the chunk.
Progress ==
    /\ pc \in {"read", "exit", "alive", "append"} => size <= Len(log)
    /\ pc \in {"exit", "alive", "append"} => \A i \in offset + 1 .. size : Contains(chunk, log[i])

\* Attempts to come have no command; an exit code in the directory, or in a report, is that
\* of a command of the run.
Zero == \E a \in Attempts : command[a] = "zero"

Ends ==
    /\ \A a \in Attempts : a > attempt => command[a] = "none"
    /\ (exitCode = "zero" \/ code = "zero") => Zero

IInv == TypeOK /\ Control /\ Progress /\ CursorCovered /\ Ends /\ CompletedIsTrue

-----------------------------------------------------------------------------
(* Sequences                                                               *)

\* A concatenation has what its parts have.
LEMMA ConcatContains ==
    ASSUME NEW S, NEW s \in Seq(S), NEW t \in Seq(S), NEW e, Contains(s, e) \/ Contains(t, e)
    PROVE  Contains(s \o t, e)
<1>1. /\ Len(s) \in Nat /\ Len(t) \in Nat /\ Len(s \o t) = Len(s) + Len(t)
      /\ \A i \in 1 .. Len(s) + Len(t) :
           (s \o t)[i] = IF i <= Len(s) THEN s[i] ELSE t[i - Len(s)]
  BY ConcatProperties, LenProperties
<1>2. CASE Contains(s, e)
  <2>1. PICK i \in 1 .. Len(s) : s[i] = e  BY <1>2 DEF Contains
  <2>2. i \in 1 .. Len(s) + Len(t) /\ i <= Len(s)  BY <1>1, <2>1
  <2>3. (s \o t)[i] = e  BY <1>1, <2>1, <2>2
  <2> QED  BY <1>1, <2>2, <2>3 DEF Contains
<1>3. CASE Contains(t, e)
  <2>1. PICK i \in 1 .. Len(t) : t[i] = e  BY <1>3 DEF Contains
  <2>2. i + Len(s) \in 1 .. Len(s) + Len(t) /\ ~(i + Len(s) <= Len(s)) /\ i + Len(s) - Len(s) = i
    BY <1>1, <2>1
  <2>3. (s \o t)[i + Len(s)] = e  BY <1>1, <2>1, <2>2
  <2> QED  BY <1>1, <2>2, <2>3 DEF Contains
<1> QED  BY <1>2, <1>3

\* The rest of a sequence is a sequence, and has every element after its start.
LEMMA RestContains ==
    ASSUME NEW S, NEW s \in Seq(S), NEW n \in Nat
    PROVE  /\ SubSeq(s, n + 1, Len(s)) \in Seq(S)
           /\ \A i \in n + 1 .. Len(s) : Contains(SubSeq(s, n + 1, Len(s)), s[i])
<1> DEFINE m == n + 1
           r == SubSeq(s, m, Len(s))
<1>1. m \in Int /\ Len(s) \in Nat /\ s \in [1 .. Len(s) -> S]  BY LenProperties
<1>2. \A i \in m .. Len(s) : s[i] \in S  BY <1>1
<1>3. /\ r \in Seq(S)
      /\ Len(r) = IF m <= Len(s) THEN Len(s) - m + 1 ELSE 0
      /\ \A i \in 1 .. Len(s) - m + 1 : r[i] = s[m + i - 1]
  BY <1>1, <1>2, SubSeqProperties
<1> HIDE DEF r
<1>4. ASSUME NEW i \in n + 1 .. Len(s) PROVE Contains(r, s[i])
  <2>1. i - n \in 1 .. Len(s) - m + 1 /\ m + (i - n) - 1 = i /\ m <= Len(s)  BY <1>1
  <2>2. r[i - n] = s[i] /\ Len(r) = Len(s) - m + 1  BY <1>3, <2>1
  <2> QED  BY <2>1, <2>2 DEF Contains
<1> QED  BY <1>3, <1>4 DEF r

\* A line that is appended.
LEMMA AppendLine ==
    ASSUME NEW S, NEW s \in Seq(S), NEW e \in S
    PROVE  /\ Append(s, e) \in Seq(S) /\ Len(Append(s, e)) = Len(s) + 1
           /\ \A i \in 1 .. Len(s) : Append(s, e)[i] = s[i]
  OBVIOUS

-----------------------------------------------------------------------------
(* Types and control                                                       *)

HostOK ==
    /\ command \in [Attempts -> {"none", "running", "zero", "nonzero"}]
    /\ lines \in [Attempts -> 0 .. MaxLines]
    /\ shell \in [Attempts -> {"none", "alive", "dead"}]
    /\ log \in Seq(Lines) /\ exitCode \in Codes /\ killMark \in BOOLEAN

RecordOK ==
    /\ row \in {"pending", "running", "kill_requested", "retrying", "completed",
                "failed", "killed"}
    /\ attempt \in 0 .. MaxAttempts /\ offset \in Nat /\ stored \in Seq(Lines)

PollOK ==
    /\ pc \in {"start", "loop", "mark", "term", "list", "size", "read", "exit", "alive",
               "append", "finish", "over"}
    /\ seen \in {"running", "kill_requested"} /\ size \in Nat /\ chunk \in Seq(Lines)
    /\ verdict \in {"running", "completed", "failed", "killed"} /\ code \in Codes

\* The parts of the types.
LEMMA TypeParts == TypeOK <=> HostOK /\ RecordOK /\ PollOK
  BY DEF TypeOK, HostOK, RecordOK, PollOK

\* The same of the next state.
LEMMA TypePartsNext == TypeOK' <=> HostOK' /\ RecordOK' /\ PollOK'
  BY DEF TypeOK, HostOK, RecordOK, PollOK

\* A launch takes the next attempt, of which nothing is there yet.
LEMMA LaunchType ==
    ASSUME TypeOK, NEW a \in Attempts, Launch(a)
    PROVE  HostOK'
  BY EmptySeq DEF Launch, TypeOK, HostOK

\* The files, the row and the reports stay well typed, and an attempt is left when one is
\* started.
LEMMA NextType ==
    ASSUME TypeOK, Control, [Next]_vars
    PROVE  TypeOK' /\ Control'
<1> USE TypeParts, TypePartsNext
<1>1. CASE Start \/ StartFails
  <2>1. pc = "start" /\ attempt < MaxAttempts /\ attempt' = attempt + 1
    BY <1>1 DEF Start, StartFails, Control
  <2>2. attempt + 1 \in Attempts  BY <2>1, RemoteAssumption DEF RecordOK, Attempts
  <2>3. HostOK'
    BY <1>1, <2>2, LaunchType DEF Start, StartFails, HostOK, remote
  <2>4. RecordOK'
    BY <1>1, <2>1, <2>2 DEF Start, StartFails, Failed, RecordOK, Attempts
  <2>5. PollOK'  BY <1>1 DEF Start, StartFails, Failed, PollOK, report
  <2>6. Control'
    BY <1>1, <2>1, <2>2, RemoteAssumption DEF Start, StartFails, Failed, Control, Round, Attempts
  <2> QED  BY <2>3, <2>4, <2>5, <2>6
<1>2. CASE Loop \/ KillFails \/ PollFails \/ AppendFails
  <2>1. UNCHANGED <<remote, record, report>> /\ pc \in Round
        /\ pc' \in Round
    BY <1>2 DEF Loop, KillFails, PollFails, AppendFails, Reported, Round
  <2> QED
    BY <2>1 DEF HostOK, RecordOK, PollOK, Control, Round, remote, record, report
<1>3. CASE KillMark \/ KillTerm
  <2>1. UNCHANGED <<record, report>> /\ pc \in Round /\ pc' \in {"term", "list"}
    BY <1>3 DEF KillMark, KillTerm, Round
  <2>2. HostOK'  BY <1>3 DEF KillMark, KillTerm, HostOK
  <2> QED  BY <2>1, <2>2 DEF RecordOK, PollOK, Control, Round, record, report
<1>4. CASE List
  <2>1. row \in {"running", "kill_requested"}  BY <1>4 DEF List, Control, Round
  <2> QED  BY <1>4, <2>1 DEF List, HostOK, RecordOK, PollOK, Control, Round, remote, record
<1>5. CASE PollSize \/ PollRead
  <2>1. Len(log) \in Nat  BY LenProperties DEF HostOK
  <2>2. UNCHANGED <<remote, record, seen, verdict, code>> /\ pc \in Round /\ pc' \in {"read", "exit"}
    BY <1>5 DEF PollSize, PollRead, Round
  <2>3. size' \in Nat  BY <1>5, <2>1 DEF PollSize, PollRead, PollOK
  <2>4. chunk' \in Seq(Lines)
    <3>1. SubSeq(log, offset + 1, Len(log)) \in Seq(Lines)  BY RestContains DEF HostOK, RecordOK
    <3> QED  BY <1>5, <3>1, EmptySeq DEF PollSize, PollRead
  <2> QED  BY <2>2, <2>3, <2>4 DEF HostOK, RecordOK, PollOK, Control, Round, remote, record
<1>6. CASE PollExit \/ PollAlive
  BY <1>6 DEF PollExit, PollAlive, HostOK, RecordOK, PollOK, Control, Round, remote, record
<1>7. CASE AppendOutput
  <2>1. stored' \in Seq(Lines)  BY <1>7, ConcatProperties DEF AppendOutput, RecordOK, PollOK
  <2> QED
    BY <1>7, <2>1
    DEF AppendOutput, Reported, HostOK, RecordOK, PollOK, Control, Round, remote, report
<1>8. CASE FinishKilled
  BY <1>8 DEF FinishKilled, HostOK, RecordOK, PollOK, Control, Round, remote, report
<1>9. CASE FinishResult
  <2>1. stored' \in Seq(Lines)  BY <1>9, ConcatProperties DEF FinishResult, RecordOK, PollOK
  <2>2. HostOK'  BY <1>9 DEF FinishResult, HostOK, remote
  <2>3. RecordOK' /\ PollOK'  BY <1>9, <2>1 DEF FinishResult, Failed, RecordOK, PollOK, report
  <2>4. Control'  BY <1>9 DEF FinishResult, Failed, Control, Round
  <2> QED  BY <2>2, <2>3, <2>4
<1>10. ASSUME NEW a \in Attempts, WriteLine(a) PROVE TypeOK' /\ Control'
  <2>1. lines[a] + 1 \in 1 .. MaxLines
    BY <1>10, RemoteAssumption DEF WriteLine, HostOK
  <2>2. <<a, lines[a] + 1>> \in Lines  BY <2>1 DEF Lines
  <2>3. HostOK'
    <3>1. log' \in Seq(Lines)  BY <1>10, <2>2, AppendLine DEF WriteLine, HostOK
    <3>2. lines' \in [Attempts -> 0 .. MaxLines]  BY <1>10, <2>1 DEF WriteLine, HostOK
    <3> QED  BY <1>10, <3>1, <3>2 DEF WriteLine, HostOK
  <2> QED  BY <1>10, <2>3 DEF WriteLine, RecordOK, PollOK, Control, record, report
<1>11. ASSUME NEW a \in Attempts, CommandEnds(a) \/ ShellEnds(a) PROVE TypeOK' /\ Control'
  <2>1. HostOK'  BY <1>11 DEF CommandEnds, ShellEnds, HostOK, Codes
  <2> QED  BY <1>11, <2>1 DEF CommandEnds, ShellEnds, RecordOK, PollOK, Control, record, report
<1>12. CASE KillRequested
  BY <1>12 DEF KillRequested, HostOK, RecordOK, PollOK, Control, Round, remote, report
<1>13. CASE Over \/ UNCHANGED vars
  BY <1>13 DEF Over, vars, HostOK, RecordOK, PollOK, Control, remote, record, report
<1> QED
  BY <1>1, <1>2, <1>3, <1>4, <1>5, <1>6, <1>7, <1>8, <1>9, <1>10, <1>11, <1>12, <1>13
  DEF Next, ServerStep, RemoteStep

-----------------------------------------------------------------------------
(* Output                                                                  *)

\* The cursor never passes what is stored.
LEMMA NextCursor ==
    ASSUME TypeOK, Progress, CursorCovered, [Next]_vars
    PROVE  Progress' /\ CursorCovered'
<1>1. /\ log \in Seq(Lines) /\ stored \in Seq(Lines) /\ chunk \in Seq(Lines)
      /\ offset \in Nat /\ size \in Nat /\ Len(log) \in Nat
  BY LenProperties DEF TypeOK
<1>2. CASE offset' = 0 /\ pc' \notin {"read", "exit", "alive", "append"}
  BY <1>2 DEF Progress, CursorCovered
<1>3. CASE UNCHANGED <<log, stored, offset>> /\ pc' \notin {"read", "exit", "alive", "append"}
  BY <1>3 DEF Progress, CursorCovered
<1>4. CASE UNCHANGED <<log, stored, offset, pc, size, chunk>>
  BY <1>4 DEF Progress, CursorCovered
<1>5. CASE Start \/ StartFails \/ FinishKilled \/ FinishResult
  BY <1>2, <1>5 DEF Start, StartFails, FinishKilled, FinishResult, Failed
<1>6. CASE Loop \/ KillMark \/ KillFails \/ KillTerm \/ List \/ PollFails \/ AppendFails
  BY <1>3, <1>6 DEF Loop, KillMark, KillFails, KillTerm, List, PollFails, AppendFails, Reported,
     remote, record
<1>7. CASE PollSize
  <2>1. /\ UNCHANGED <<log, stored, offset>> /\ size' = Len(log)
        /\ pc' = IF Len(log) > offset THEN "read" ELSE "exit"
    BY <1>7 DEF PollSize, remote, record
  <2>2. CursorCovered'  BY <2>1 DEF CursorCovered
  <2>3. pc' = "exit" => ~\E i \in Nat : i \in offset + 1 .. size'  BY <1>1, <2>1
  <2>4. Progress'  BY <1>1, <2>1, <2>3 DEF Progress
  <2> QED  BY <2>2, <2>4
<1>8. CASE PollRead
  <2>1. /\ UNCHANGED <<log, stored, offset, size>> /\ pc = "read" /\ pc' = "exit"
        /\ chunk' = SubSeq(log, offset + 1, Len(log))
    BY <1>8 DEF PollRead, remote, record
  <2>2. CursorCovered'  BY <2>1 DEF CursorCovered
  <2>3. size <= Len(log)  BY <2>1 DEF Progress
  <2>4. \A i \in offset + 1 .. Len(log) : Contains(chunk', log[i])  BY <1>1, <2>1, RestContains
  <2>5. \A i \in offset + 1 .. size : Contains(chunk', log[i])  BY <1>1, <2>3, <2>4
  <2>6. Progress'  BY <2>1, <2>3, <2>5 DEF Progress
  <2> QED  BY <2>2, <2>6
<1>9. CASE PollExit \/ PollAlive
  BY <1>9 DEF PollExit, PollAlive, Progress, CursorCovered, remote, record
<1>10. CASE AppendOutput
  <2>1. /\ log' = log /\ stored' = stored \o chunk /\ offset' = size /\ pc = "append"
        /\ pc' \in {"loop", "finish"}
    BY <1>10 DEF AppendOutput, Reported, remote
  <2>2. /\ size <= Len(log)
        /\ \A i \in offset + 1 .. size : Contains(chunk, log[i])
        /\ \A i \in 1 .. offset : Contains(stored, log[i])
    BY <2>1 DEF Progress, CursorCovered
  <2>3. ASSUME NEW i \in 1 .. size PROVE i <= Len(log) /\ Contains(stored', log[i])
    <3>1. i \in 1 .. offset \/ i \in offset + 1 .. size  BY <1>1
    <3>2. Contains(stored, log[i]) \/ Contains(chunk, log[i])  BY <2>2, <3>1
    <3>3. Contains(stored', log[i])  BY <1>1, <2>1, <3>2, ConcatContains
    <3> QED  BY <1>1, <2>2, <3>3
  <2> QED  BY <2>1, <2>3 DEF Progress, CursorCovered
<1>11. ASSUME NEW a \in Attempts, WriteLine(a) PROVE Progress' /\ CursorCovered'
  <2>1. /\ UNCHANGED <<stored, offset, pc, size, chunk>>
        /\ log' = Append(log, <<a, lines[a] + 1>>) /\ lines[a] < MaxLines
    BY <1>11 DEF WriteLine, record, report
  <2>2. <<a, lines[a] + 1>> \in Lines
    BY <2>1, RemoteAssumption DEF Lines, TypeOK
  <2>3. Len(log') = Len(log) + 1 /\ \A i \in 1 .. Len(log) : log'[i] = log[i]
    BY <1>1, <2>1, <2>2, AppendLine
  <2>4. CursorCovered'
    <3> SUFFICES ASSUME NEW i \in 1 .. offset PROVE i <= Len(log') /\ Contains(stored, log'[i])
      BY <2>1 DEF CursorCovered
    <3>1. i <= Len(log) /\ Contains(stored, log[i])  BY DEF CursorCovered
    <3>2. i \in 1 .. Len(log)  BY <1>1, <3>1
    <3> QED  BY <1>1, <2>3, <3>1, <3>2
  <2>5. ASSUME pc \in {"read", "exit", "alive", "append"} PROVE size <= Len(log')
    BY <1>1, <2>3, <2>5 DEF Progress
  <2>6. ASSUME pc \in {"exit", "alive", "append"}, NEW i \in offset + 1 .. size
        PROVE  Contains(chunk, log'[i])
    <3>1. size <= Len(log) /\ Contains(chunk, log[i])  BY <2>6 DEF Progress
    <3>2. i \in 1 .. Len(log)  BY <1>1, <3>1
    <3> QED  BY <2>3, <3>1, <3>2
  <2>7. Progress'  BY <2>1, <2>5, <2>6 DEF Progress
  <2> QED  BY <2>4, <2>7
<1>12. CASE (\E a \in Attempts : CommandEnds(a) \/ ShellEnds(a)) \/ KillRequested \/ Over
            \/ UNCHANGED vars
  BY <1>4, <1>12 DEF CommandEnds, ShellEnds, KillRequested, Over, vars, remote, record, report
<1> QED
  BY <1>5, <1>6, <1>7, <1>8, <1>9, <1>10, <1>11, <1>12 DEF Next, ServerStep, RemoteStep

-----------------------------------------------------------------------------
(* Outcome                                                                 *)

\* Zero exit codes come from commands, and commands that have ended stay so.
LEMMA NextEnds ==
    ASSUME TypeOK, Control, Ends, CompletedIsTrue, [Next]_vars
    PROVE  Ends' /\ CompletedIsTrue'
<1>1. CASE Start \/ StartFails
  <2>1. /\ pc = "start" /\ attempt' = attempt + 1 /\ UNCHANGED code
        /\ UNCHANGED remote \/ Launch(attempt + 1)
        /\ row' # "completed"
    BY <1>1 DEF Start, StartFails, Failed, report
  <2>2. attempt < MaxAttempts /\ attempt \in Nat  BY <2>1 DEF Control, TypeOK
  <2>3. attempt + 1 \in Attempts  BY <2>2, RemoteAssumption DEF Attempts
  <2>4. command[attempt + 1] = "none"  BY <2>2, <2>3 DEF Ends, Attempts
  <2>5. /\ exitCode' = exitCode
        /\ \A a \in Attempts : a # attempt + 1 => command'[a] = command[a]
    BY <2>1 DEF Launch, remote, TypeOK
  <2>6. Zero => Zero'  BY <2>4, <2>5 DEF Zero
  <2>7. \A a \in Attempts : a > attempt' => command'[a] = "none"
    BY <2>1, <2>2, <2>5 DEF Ends, Attempts
  <2>8. Ends'  BY <2>1, <2>5, <2>6, <2>7 DEF Ends
  <2> QED  BY <2>1, <2>8 DEF CompletedIsTrue
<1>2. CASE /\ UNCHANGED <<command, exitCode, attempt>>
           /\ code' = code \/ code' = exitCode
           /\ row' = "completed" => row = "completed" \/ code = "zero"
  <2>1. Zero' <=> Zero  BY <1>2 DEF Zero
  <2>2. Ends'  BY <1>2, <2>1 DEF Ends
  <2>3. row' = "completed" => Zero  BY <1>2 DEF Ends, CompletedIsTrue, Zero
  <2> QED  BY <1>2, <2>2, <2>3 DEF CompletedIsTrue, Zero
<1>3. CASE Loop \/ KillMark \/ KillFails \/ KillTerm \/ List \/ PollFails \/ AppendFails
           \/ PollSize \/ PollRead \/ PollExit \/ PollAlive \/ AppendOutput \/ FinishKilled
  BY <1>2, <1>3 DEF Loop, KillMark, KillFails, KillTerm, List, PollFails, AppendFails, PollSize,
     PollRead, PollExit, PollAlive, AppendOutput, FinishKilled, remote, record, report
<1>4. CASE FinishResult
  BY <1>2, <1>4 DEF FinishResult, Failed, IsSuccess, remote, report
<1>5. ASSUME NEW a \in Attempts, WriteLine(a) PROVE Ends' /\ CompletedIsTrue'
  BY <1>2, <1>5 DEF WriteLine, record, report
<1>6. ASSUME NEW a \in Attempts, CommandEnds(a) PROVE Ends' /\ CompletedIsTrue'
  <2>1. /\ command[a] = "running" /\ UNCHANGED <<exitCode, code, attempt, row>>
        /\ \A b \in Attempts : b # a => command'[b] = command[b]
    BY <1>6 DEF CommandEnds, record, report, TypeOK
  <2>2. Zero => Zero'  BY <2>1 DEF Zero
  <2>3. Ends'  BY <2>1, <2>2 DEF Ends
  <2> QED  BY <2>1, <2>2, <2>3 DEF CompletedIsTrue, Zero
<1>7. ASSUME NEW a \in Attempts, ShellEnds(a) PROVE Ends' /\ CompletedIsTrue'
  <2>1. UNCHANGED <<command, code, attempt, row>> /\ exitCode' = command[a]
    BY <1>7 DEF ShellEnds, record, report
  <2>2. Zero' <=> Zero  BY <2>1 DEF Zero
  <2>3. exitCode' = "zero" => Zero  BY <2>1 DEF Zero
  <2>4. Ends'  BY <2>1, <2>2, <2>3 DEF Ends
  <2> QED  BY <2>1, <2>4 DEF CompletedIsTrue
<1>8. CASE KillRequested \/ Over \/ UNCHANGED vars
  BY <1>2, <1>8 DEF KillRequested, Over, vars, remote, record, report
<1> QED
  BY <1>1, <1>3, <1>4, <1>5, <1>6, <1>7, <1>8 DEF Next, ServerStep, RemoteStep

\* The invariant holds before the first attempt.
LEMMA InitInv == Init => IInv
<1> SUFFICES ASSUME Init PROVE IInv  OBVIOUS
<1>1. TypeOK
  <2>1. <<>> \in Seq(Lines)  BY EmptySeq
  <2>2. log \in Seq(Lines) /\ stored \in Seq(Lines) /\ chunk \in Seq(Lines)  BY <2>1 DEF Init
  <2>3. HostOK
    <3>1. /\ command = [a \in Attempts |-> "none"] /\ lines = [a \in Attempts |-> 0]
          /\ shell = [a \in Attempts |-> "none"] /\ exitCode \in Codes /\ killMark \in BOOLEAN
      BY DEF Init, Codes
    <3>2. 0 \in 0 .. MaxLines  BY RemoteAssumption
    <3> QED  BY <2>2, <3>1, <3>2 DEF HostOK
  <2>4. RecordOK /\ PollOK  BY <2>2, RemoteAssumption DEF Init, RecordOK, PollOK, Codes
  <2> QED  BY <2>3, <2>4, TypeParts
<1>2. Control /\ Progress /\ CursorCovered
  BY RemoteAssumption DEF Init, Control, Progress, CursorCovered, Round
<1>3. Ends /\ CompletedIsTrue  BY DEF Init, Ends, CompletedIsTrue
<1> QED  BY <1>1, <1>2, <1>3 DEF IInv

\* It is an invariant of the specification.
LEMMA Inductive == Spec => []IInv
<1>1. IInv /\ [Next]_vars => IInv'  BY NextType, NextCursor, NextEnds DEF IInv
<1> QED  BY <1>1, InitInv, PTL DEF Spec

\* The files of the directory, the row and the payload of a poll hold what the scripts and
\* the orchestrator can put there.
THEOREM TypeCorrect == Spec => []TypeOK
<1>1. IInv => TypeOK  BY DEF IInv
<1> QED  BY <1>1, Inductive, PTL

\* No output is skipped: whatever lies before the cursor of the row has been stored,
\* through failed polls, failed appends and retries that empty the log.
THEOREM CursorNeverSkips == Spec => []CursorCovered
<1>1. IInv => CursorCovered  BY DEF IInv
<1> QED  BY <1>1, Inductive, PTL

\* A run is completed only when a command of it has ended with exit code zero, whatever the
\* files of earlier attempts and the marks of kills say.
THEOREM CompletedHasExited == Spec => []CompletedIsTrue
<1>1. IInv => CompletedIsTrue  BY DEF IInv
<1> QED  BY <1>1, Inductive, PTL

=============================================================================
