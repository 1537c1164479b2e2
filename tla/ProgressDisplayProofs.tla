------------------------ MODULE ProgressDisplayProofs ------------------------
(***************************************************************************)
(* What is on the screen while the display runs and when it has stopped,   *)
(* for any number of callers, results and ticks.                           *)
(***************************************************************************)
EXTENDS ProgressDisplay, SequenceTheorems, FiniteSetTheorems, TLAPS

-----------------------------------------------------------------------------
(* The invariant.                                                          *)

\* Only a display that is not quiet has a refresh goroutine, a status and a
\* summary; nothing is written before Start.
QuietInv ==
  /\ mode.quiet => /\ refresh = "none" /\ main # "summary"
                   /\ \A i \in 1 .. Len(screen) : screen[i] # "status"
  /\ main = "start" => screen = <<>> /\ refresh = "none"

\* The refresh goroutine has ended before the summary is written.
EndInv == main \in {"summary", "stopped"} => refresh \in {"none", "ended"}

\* Between the two writes of a redraw the mutex is held, so that Stop has not run,
\* and no status stands unfinished: only a JSON line may have been written.
DrawInv ==
  refresh = "draw" =>
    /\ mu = "refresh" /\ ~stopped
    /\ (mode.terminal /\ ~failed /\ Len(screen) > 0) => screen[Len(screen)] # "status"

DisplayInv == DisplayTypeOK /\ QuietInv /\ EndInv /\ DrawInv /\ LinesKept /\ StopIsFinal

-----------------------------------------------------------------------------
(* Writing.                                                                *)

\* In these lines a status is behind what clears the last, and nothing but that
\* is behind it.
Tidy(lines) ==
  \A i \in 1 .. Len(lines) - 1 : lines[i] = "status" => lines[i + 1] = "clear"

\* A write puts a beginning of its lines on the screen, and all unless it fails.
LEMMA WriteFacts ==
  ASSUME NEW lines \in Seq(Kinds), screen \in Seq(Kinds), failed \in BOOLEAN,
         Write(lines)
  PROVE  /\ screen' \in Seq(Kinds) /\ failed' \in BOOLEAN
         /\ \E k \in 0 .. Len(lines) :
              /\ Len(screen') = Len(screen) + k
              /\ \A i \in 1 .. Len(screen) : screen'[i] = screen[i]
              /\ \A i \in 1 .. k : screen'[Len(screen) + i] = lines[i]
              /\ ~failed' => k = Len(lines)
              /\ failed => k = 0 /\ failed'
<1>1. Len(lines) \in Nat /\ Len(screen) \in Nat
  BY LenProperties
<1>2. PICK k \in IF failed THEN {0} ELSE 0 .. Len(lines) :
        /\ screen' = screen \o SubSeq(lines, 1, k)
        /\ failed' = (failed \/ k < Len(lines))
  BY DEF Write
<1>3. k \in 0 .. Len(lines) /\ (failed => k = 0)
  BY <1>1, <1>2
<1>4. failed' \in BOOLEAN
  BY <1>2, Zenon
<1>5. ~failed' => ~(k < Len(lines))
  BY <1>2, Zenon
<1>6. ~failed' => k = Len(lines)
  BY <1>1, <1>3, <1>5
<1>7. screen' = screen \o SubSeq(lines, 1, k)
  BY <1>2
<1>8. /\ SubSeq(lines, 1, k) \in Seq(Kinds) /\ Len(SubSeq(lines, 1, k)) = k
      /\ \A i \in 1 .. k : SubSeq(lines, 1, k)[i] = lines[i]
  BY <1>1, <1>3, SubSeqProperties
<1> DEFINE part == SubSeq(lines, 1, k)
<1> HIDE DEF part
<1>9. /\ screen' \in Seq(Kinds) /\ Len(screen') = Len(screen) + k
      /\ \A i \in 1 .. Len(screen) : screen'[i] = screen[i]
      /\ \A i \in 1 .. k : screen'[Len(screen) + i] = part[i]
  BY <1>1, <1>3, <1>7, <1>8, ConcatProperties DEF part
<1>10. \A i \in 1 .. k : screen'[Len(screen) + i] = lines[i]
  BY <1>8, <1>9 DEF part
<1>11. failed => failed'
  BY <1>2, Zenon
<1> QED
  BY <1>3, <1>4, <1>6, <1>9, <1>10, <1>11

\* Tidy lines that begin with a clear, or come when no status stands unfinished or
\* nothing can be written, keep the screen tidy, however few of them are written.
LEMMA TidyWrite ==
  ASSUME NEW lines \in Seq(Kinds), DisplayTypeOK, LinesKept, mode' = mode,
         Write(lines),
         mode.terminal =>
           /\ Tidy(lines)
           /\ \/ failed \/ lines[1] = "clear"
              \/ Len(screen) > 0 => screen[Len(screen)] # "status"
  PROVE  LinesKept'
<1> SUFFICES ASSUME mode.terminal, NEW i \in 1 .. Len(screen') - 1,
                    screen'[i] = "status"
             PROVE  \/ screen'[i + 1] = "clear"
                    \/ mode.output = "jsonl" /\ screen'[i + 1] = "line"
  BY DEF LinesKept
<1>1. PICK k \in 0 .. Len(lines) :
        /\ Len(screen') = Len(screen) + k
        /\ \A j \in 1 .. Len(screen) : screen'[j] = screen[j]
        /\ \A j \in 1 .. k : screen'[Len(screen) + j] = lines[j]
        /\ failed => k = 0
  BY WriteFacts DEF DisplayTypeOK
<1>2. Len(screen) \in Nat /\ Len(lines) \in Nat
  BY LenProperties DEF DisplayTypeOK
<1>3. CASE i < Len(screen)
  <2>1. i \in 1 .. Len(screen) - 1 /\ i \in 1 .. Len(screen)
        /\ i + 1 \in 1 .. Len(screen)
    BY <1>1, <1>2, <1>3
  <2> QED
    BY <1>1, <2>1 DEF LinesKept
<1>4. CASE i = Len(screen)
  <2>1. i \in 1 .. Len(screen) /\ 1 \in 1 .. k
    BY <1>1, <1>2, <1>4
  <2>2. screen[i] = "status" /\ screen'[Len(screen) + 1] = lines[1]
    BY <1>1, <2>1
  <2>3. lines[1] = "clear"
    BY <1>1, <1>2, <1>4, <2>1, <2>2
  <2> QED
    BY <1>4, <2>2, <2>3
<1>5. CASE i > Len(screen)
  <2> DEFINE j == i - Len(screen)
  <2>1. /\ j \in 1 .. k /\ j + 1 \in 1 .. k /\ j \in 1 .. Len(lines) - 1
        /\ i = Len(screen) + j /\ i + 1 = Len(screen) + (j + 1)
    BY <1>1, <1>2, <1>5
  <2> HIDE DEF j
  <2>2. lines[j] = "status" /\ screen'[i + 1] = lines[j + 1]
    BY <1>1, <2>1
  <2> QED
    BY <2>1, <2>2 DEF Tidy
<1> QED
  BY <1>2, <1>3, <1>4, <1>5

\* What the critical sections write is tidy, and begins with a clear on a terminal
\* unless it is the header.
LEMMA LinesFacts ==
  LET header  == <<"header">> \o Status
      result  == Cleared \o <<"result", "blank">> \o Status
      summary == Append(Cleared, "summary")
  IN  /\ {header, Status, result, summary, Cleared, <<"result">>, <<"status">>}
           \subseteq Seq(Kinds)
      /\ mode.terminal =>
           /\ Tidy(header) /\ Tidy(result) /\ Tidy(summary) /\ Tidy(Cleared)
           /\ result[1] = "clear" /\ summary[1] = "clear"
           /\ Len(Cleared) = 1 /\ Cleared[1] = "clear"
      /\ Tidy(<<"result">>) /\ Tidy(<<"status">>)
      /\ summary[Len(summary)] = "summary" /\ Len(summary) \in Nat \ {0}
<1> DEFINE header  == <<"header">> \o Status
           pair    == <<"result", "blank">>
           result  == Cleared \o pair \o Status
           summary == Append(Cleared, "summary")
<1>1. /\ <<"header">> \in Seq(Kinds) /\ pair \in Seq(Kinds) /\ <<"result">> \in Seq(Kinds)
      /\ <<"status">> \in Seq(Kinds) /\ Len(<<"status">>) = 1
      /\ Len(<<"header">>) = 1 /\ Len(pair) = 2 /\ Len(<<"result">>) = 1
      /\ <<"header">>[1] = "header" /\ pair[1] = "result" /\ pair[2] = "blank"
  BY DEF Kinds
<1>2. "status" \in Kinds /\ "summary" \in Kinds
  BY DEF Kinds
<1> HIDE DEF pair
<1>3. /\ Cleared \in Seq(Kinds)
      /\ mode.terminal => Len(Cleared) = 1 /\ Cleared[1] = "clear"
      /\ ~mode.terminal => Len(Cleared) = 0
  <2>1. <<"clear">> \in Seq(Kinds) /\ <<>> \in Seq(Kinds)
    BY DEF Kinds
  <2>2. CASE mode.terminal
    BY <2>1, <2>2 DEF Cleared
  <2>3. CASE ~mode.terminal
    BY <2>1, <2>3 DEF Cleared
  <2> QED
    BY <2>2, <2>3
<1>4. Len(Cleared) \in Nat
  BY <1>3
<1>5. /\ Status \in Seq(Kinds) /\ Len(Status) = Len(Cleared) + 1
      /\ \A i \in 1 .. Len(Cleared) : Status[i] = Cleared[i]
      /\ Status[Len(Cleared) + 1] = "status"
  BY <1>2, <1>3, AppendProperties DEF Status
<1>6. /\ summary \in Seq(Kinds) /\ Len(summary) = Len(Cleared) + 1
      /\ \A i \in 1 .. Len(Cleared) : summary[i] = Cleared[i]
      /\ summary[Len(Cleared) + 1] = "summary"
  BY <1>2, <1>3, AppendProperties
<1>7. /\ header \in Seq(Kinds) /\ Len(header) = 1 + Len(Status)
      /\ \A i \in 1 .. 1 + Len(Status) :
           header[i] = IF i <= 1 THEN "header" ELSE Status[i - 1]
  BY <1>1, <1>4, <1>5, ConcatProperties
<1>8. /\ Cleared \o pair \in Seq(Kinds) /\ Len(Cleared \o pair) = Len(Cleared) + 2
      /\ \A i \in 1 .. Len(Cleared) + 2 :
           (Cleared \o pair)[i] =
             IF i <= Len(Cleared) THEN Cleared[i] ELSE pair[i - Len(Cleared)]
  <2>1. pair \in Seq(Kinds) /\ Len(pair) = 2 /\ Cleared \in Seq(Kinds)
    BY <1>1, <1>3
  <2>2. /\ Cleared \o pair \in Seq(Kinds)
        /\ Len(Cleared \o pair) = Len(Cleared) + Len(pair)
        /\ \A i \in 1 .. Len(Cleared) + Len(pair) :
             (Cleared \o pair)[i] =
               IF i <= Len(Cleared) THEN Cleared[i] ELSE pair[i - Len(Cleared)]
    BY <2>1, ConcatProperties
  <2> QED
    BY <2>1, <2>2, Zenon
<1> DEFINE front == Cleared \o pair
<1> HIDE DEF front
<1>9. /\ front \o Status \in Seq(Kinds) /\ Len(front \o Status) = Len(front) + Len(Status)
      /\ \A i \in 1 .. Len(front) + Len(Status) :
           (front \o Status)[i] =
             IF i <= Len(front) THEN front[i] ELSE Status[i - Len(front)]
  BY <1>5, <1>8, ConcatProperties DEF front
<1> HIDE DEF header, result, summary
<1>10. CASE mode.terminal
  <2>1. Len(Cleared) = 1 /\ Cleared[1] = "clear"
    BY <1>3, <1>10
  <2>2. Len(Status) = 2 /\ Status[1] = "clear" /\ Status[2] = "status"
    BY <1>5, <2>1
  <2>3. Len(summary) = 2 /\ summary[1] = "clear" /\ summary[2] = "summary"
    BY <1>6, <2>1
  <2>4. Len(header) = 3 /\ header[1] = "header" /\ header[2] = "clear"
    BY <1>7, <2>2
  <2>5. /\ Len(front) = 3 /\ front[1] = "clear" /\ front[2] = "result"
        /\ front[3] = "blank"
    BY <1>1, <1>8, <2>1 DEF front
  <2>6. /\ result \in Seq(Kinds) /\ Len(result) = 5
        /\ result[1] = "clear" /\ result[2] = "result" /\ result[3] = "blank"
        /\ result[4] = "clear"
    BY <1>9, <2>2, <2>5 DEF result, front
  <2> QED
    BY <1>1, <1>3, <1>5, <1>6, <1>7, <2>1, <2>2, <2>3, <2>4, <2>6
    DEF Tidy, header, result, summary, pair
<1>11. CASE ~mode.terminal
  <2>1. Len(Cleared) = 0
    BY <1>3, <1>11
  <2>2. summary[Len(summary)] = "summary" /\ Len(summary) = 1
    BY <1>6, <2>1
  <2>3. result \in Seq(Kinds)
    BY <1>9 DEF result, front
  <2> QED
    BY <1>1, <1>3, <1>5, <1>6, <1>7, <1>11, <2>2, <2>3
    DEF Tidy, header, result, summary, pair
<1> QED
  BY <1>10, <1>11

\* The display begins with an empty screen.
LEMMA InitDisplay == DisplayInit => DisplayInv
<1> SUFFICES ASSUME DisplayInit PROVE DisplayInv
  OBVIOUS
<1>1. screen = <<>> /\ Len(screen) = 0 /\ screen \in Seq(Kinds)
  BY DEF DisplayInit
<1>2. DisplayTypeOK
  <2>1. 0 \in 0 .. MaxCount /\ 0 \in 0 .. MaxResults /\ 0 \in 0 .. MaxTicks
    BY DisplayAssumption
  <2> QED
    BY <1>1, <2>1 DEF DisplayInit, DisplayTypeOK
<1>3. QuietInv /\ EndInv /\ DrawInv /\ LinesKept /\ StopIsFinal
  BY <1>1 DEF DisplayInit, QuietInv, EndInv, DrawInv, LinesKept, StopIsFinal
<1> QED
  BY <1>2, <1>3 DEF DisplayInv

\* Lines without a status leave a screen without one.
LEMMA PlainWrite ==
  ASSUME NEW lines \in Seq(Kinds), DisplayTypeOK, Write(lines),
         \A i \in 1 .. Len(lines) : lines[i] # "status",
         \A i \in 1 .. Len(screen) : screen[i] # "status"
  PROVE  \A i \in 1 .. Len(screen') : screen'[i] # "status"
<1>1. PICK k \in 0 .. Len(lines) :
        /\ Len(screen') = Len(screen) + k
        /\ \A j \in 1 .. Len(screen) : screen'[j] = screen[j]
        /\ \A j \in 1 .. k : screen'[Len(screen) + j] = lines[j]
  BY WriteFacts DEF DisplayTypeOK
<1>2. Len(screen) \in Nat /\ Len(lines) \in Nat
  BY LenProperties DEF DisplayTypeOK
<1> SUFFICES ASSUME NEW i \in 1 .. Len(screen') PROVE screen'[i] # "status"
  OBVIOUS
<1>3. CASE i <= Len(screen)
  BY <1>1, <1>2, <1>3
<1>4. CASE i > Len(screen)
  <2> DEFINE j == i - Len(screen)
  <2>1. j \in 1 .. k /\ j \in 1 .. Len(lines) /\ i = Len(screen) + j
    BY <1>1, <1>2, <1>4
  <2> HIDE DEF j
  <2> QED
    BY <1>1, <2>1
<1> QED
  BY <1>2, <1>3, <1>4

\* A step that writes nothing and stays behind Start and before the summary.
LEMMA SilentStepInv ==
  ASSUME DisplayInv, DisplayTypeOK', UNCHANGED <<mode, screen, failed>>,
         main' = "start" => main = "start",
         refresh' = refresh \/ (refresh # "none" /\ refresh' # "none"),
         refresh = "ended" => refresh' = "ended",
         refresh' = "draw" => refresh = "draw" /\ UNCHANGED <<mu, stopped>>,
         main' \in {"summary", "stopped"} /\ main' # main =>
           /\ refresh' \in {"none", "ended"}
           /\ IF mode.quiet THEN main' = "stopped" ELSE main' = "summary"
  PROVE  DisplayInv'
<1>1. QuietInv'
  BY DEF DisplayInv, QuietInv
<1>2. EndInv' /\ StopIsFinal'
  BY DEF DisplayInv, EndInv, StopIsFinal, DisplayTypeOK
<1>3. LinesKept'
  BY DEF DisplayInv, LinesKept
<1>4. DrawInv'
  BY DEF DisplayInv, DrawInv
<1> QED
  BY <1>1, <1>2, <1>3, <1>4 DEF DisplayInv

\* The steps of run()'s goroutine and of the others that write nothing.
LEMMA SilentSteps ==
  ASSUME DisplayInv,
         \/ \E p \in {"main", "refresh"} \cup Callers : Lock(p)
         \/ HaveResult \/ CallStop \/ Stop \/ StopWait \/ Tick \/ EndRefresh
         \/ \E c \in Callers : CallUpdate(c) \/ Update(c)
  PROVE  DisplayInv'
<1>0. refresh = "draw" => mu = "refresh"
  BY DEF DisplayInv, DrawInv
<1>1. /\ DisplayTypeOK /\ Callers \cap {"free", "main", "refresh"} = {}
      /\ MaxCount \in Nat /\ MaxResults \in Nat /\ MaxTicks \in Nat
  BY DisplayAssumption DEF DisplayInv
<1>2. ASSUME NEW p \in {"main", "refresh"} \cup Callers, Lock(p)
      PROVE  DisplayInv'
  <2>1. DisplayTypeOK'
    BY <1>1, <1>2 DEF Lock, DisplayTypeOK, Wants
  <2> QED
    BY <1>0, <1>1, <1>2, <2>1, SilentStepInv DEF Lock
<1>3. CASE HaveResult
  <2>1. DisplayTypeOK'
    BY <1>1, <1>3 DEF HaveResult, DisplayTypeOK, Wants
  <2> QED
    BY <1>0, <1>1, <1>3, <2>1, SilentStepInv DEF HaveResult
<1>4. CASE CallStop
  <2>1. DisplayTypeOK'
    BY <1>1, <1>4 DEF CallStop, DisplayTypeOK, Wants
  <2> QED
    BY <1>0, <1>1, <1>4, <2>1, SilentStepInv DEF CallStop
<1>5. CASE Stop
  <2>1. DisplayTypeOK'
    BY <1>1, <1>5 DEF Stop, DisplayTypeOK
  <2> QED
    BY <1>0, <1>1, <1>5, <2>1, SilentStepInv DEF Stop
<1>6. CASE StopWait
  <2>1. DisplayTypeOK'
    BY <1>1, <1>6 DEF StopWait, DisplayTypeOK, Wants
  <2> QED
    BY <1>0, <1>1, <1>6, <2>1, SilentStepInv DEF StopWait
<1>7. CASE Tick
  <2>1. DisplayTypeOK'
    BY <1>1, <1>7 DEF Tick, DisplayTypeOK, Wants
  <2> QED
    BY <1>0, <1>1, <1>7, <2>1, SilentStepInv DEF Tick
<1>8. CASE EndRefresh
  <2>1. DisplayTypeOK'
    BY <1>1, <1>8 DEF EndRefresh, DisplayTypeOK, Wants
  <2> QED
    BY <1>0, <1>1, <1>8, <2>1, SilentStepInv DEF EndRefresh
<1>9. ASSUME NEW c \in Callers, CallUpdate(c)
      PROVE  DisplayInv'
  <2>1. DisplayTypeOK'
    BY <1>1, <1>9 DEF CallUpdate, DisplayTypeOK, Wants
  <2> QED
    BY <1>0, <1>1, <1>9, <2>1, SilentStepInv DEF CallUpdate
<1>10. ASSUME NEW c \in Callers, Update(c)
       PROVE  DisplayInv'
  <2>1. DisplayTypeOK'
    BY <1>1, <1>10 DEF Update, DisplayTypeOK
  <2> QED
    BY <1>0, <1>1, <1>10, <2>1, SilentStepInv DEF Update
<1> QED
  BY <1>2, <1>3, <1>4, <1>5, <1>6, <1>7, <1>8, <1>9, <1>10

\* The steps that write.
LEMMA StartInv == DisplayInv /\ Start => DisplayInv'
<1> SUFFICES ASSUME DisplayInv, Start PROVE DisplayInv'
  OBVIOUS
<1>1. /\ main = "start" /\ main' = "scan" /\ mu' = "free" /\ screen = <<>>
      /\ refresh = "none"
      /\ UNCHANGED <<mode, caller, news, stopped, doneClosed, progress, outputErr,
                     results, ticks>>
  BY DEF Start, DisplayInv, QuietInv
<1>2. CASE mode.quiet
  <2>1. UNCHANGED <<screen, failed, refresh>>
    BY <1>2 DEF Start
  <2>2. DisplayTypeOK'
    BY <1>1, <2>1 DEF DisplayInv, DisplayTypeOK
  <2> QED
    BY <1>1, <2>1, <2>2, SilentStepInv
<1>3. CASE ~mode.quiet
  <2> DEFINE header == <<"header">> \o Status
  <2>1. Write(header) /\ refresh' = "select"
    BY <1>3 DEF Start
  <2>2. header \in Seq(Kinds) /\ (mode.terminal => Tidy(header))
    BY LinesFacts
  <2> HIDE DEF header
  <2>3. screen' \in Seq(Kinds) /\ failed' \in BOOLEAN
    BY <2>1, <2>2, WriteFacts DEF DisplayInv, DisplayTypeOK
  <2>4. DisplayTypeOK'
    BY <1>1, <2>1, <2>3 DEF DisplayInv, DisplayTypeOK
  <2>5. Len(screen) = 0
    BY <1>1
  <2>6. LinesKept'
    BY <1>1, <2>1, <2>2, <2>5, TidyWrite DEF DisplayInv
  <2> QED
    BY <1>1, <1>3, <2>1, <2>4, <2>6
    DEF DisplayInv, QuietInv, EndInv, DrawInv, StopIsFinal
<1> QED
  BY <1>2, <1>3

LEMMA PrintResultInv == DisplayInv /\ PrintResult => DisplayInv'
<1> SUFFICES ASSUME DisplayInv, PrintResult PROVE DisplayInv'
  OBVIOUS
<1>1. /\ main = "result" /\ main' = "scan" /\ mu' = "free"
      /\ UNCHANGED <<mode, refresh, caller, news, stopped, doneClosed, progress,
                     outputErr, results, ticks>>
  BY DEF PrintResult
<1> DEFINE result == Cleared \o <<"result", "blank">> \o Status
           lines == IF mode.quiet THEN <<"result">> ELSE result
<1>2. Write(lines)
  BY DEF PrintResult
<1>3. /\ result \in Seq(Kinds) /\ <<"result">> \in Seq(Kinds)
      /\ mode.terminal => Tidy(result) /\ result[1] = "clear"
      /\ Tidy(<<"result">>)
  BY LinesFacts
<1>4. mode.quiet => \A i \in 1 .. Len(screen) : screen[i] # "status"
  BY DEF DisplayInv, QuietInv
<1>5. mode.quiet => \A i \in 1 .. Len(lines) : lines[i] # "status"
  OBVIOUS
<1>6. Len(screen) \in Nat
  BY LenProperties DEF DisplayInv, DisplayTypeOK
<1>7. /\ lines \in Seq(Kinds)
      /\ mode.terminal =>
           /\ Tidy(lines)
           /\ \/ lines[1] = "clear"
              \/ Len(screen) > 0 => screen[Len(screen)] # "status"
  BY <1>3, <1>4, <1>6
<1> HIDE DEF lines
<1>8. screen' \in Seq(Kinds) /\ failed' \in BOOLEAN
  BY <1>2, <1>7, WriteFacts DEF DisplayInv, DisplayTypeOK
<1>9. DisplayTypeOK'
  BY <1>1, <1>8 DEF DisplayInv, DisplayTypeOK
<1>10. LinesKept'
  BY <1>1, <1>2, <1>7, TidyWrite DEF DisplayInv
<1>11. mode.quiet => \A i \in 1 .. Len(screen') : screen'[i] # "status"
  BY <1>2, <1>4, <1>5, <1>7, PlainWrite DEF DisplayInv
<1>12. DrawInv'
  BY <1>1 DEF PrintResult, DisplayInv, DrawInv
<1> QED
  BY <1>1, <1>9, <1>10, <1>11, <1>12 DEF DisplayInv, QuietInv, EndInv, StopIsFinal

\* A JSON line may come behind a status and between the writes of a redraw.
LEMMA EncodeLineInv == DisplayInv /\ EncodeLine => DisplayInv'
<1> SUFFICES ASSUME DisplayInv, EncodeLine PROVE DisplayInv'
  OBVIOUS
<1>1. /\ main = "result" /\ main' = "scan" /\ mode.output = "jsonl"
      /\ UNCHANGED <<mode, mu, refresh, caller, news, stopped, doneClosed,
                     progress, failed, results, ticks>>
  BY DEF EncodeLine
<1>2. /\ DisplayTypeOK /\ screen \in Seq(Kinds) /\ "line" \in Kinds
      /\ Len(screen) \in Nat
  BY LenProperties DEF DisplayInv, DisplayTypeOK, Kinds
<1>3. mu = "main" => FALSE
  BY <1>1, DisplayAssumption DEF DisplayInv, DisplayTypeOK, Wants
<1>4. CASE screen' = screen /\ outputErr' = TRUE
  <2>1. DisplayTypeOK'
    BY <1>1, <1>2, <1>3, <1>4 DEF DisplayTypeOK, Wants
  <2> QED
    BY <1>1, <1>4, <2>1, SilentStepInv
<1>5. CASE screen' = Append(screen, "line") /\ outputErr' = outputErr
  <2> DEFINE longer == Append(screen, "line")
  <2>1. /\ longer \in Seq(Kinds) /\ Len(longer) = Len(screen) + 1
        /\ \A i \in 1 .. Len(screen) : longer[i] = screen[i]
        /\ longer[Len(screen) + 1] = "line"
    BY <1>2, AppendProperties
  <2> HIDE DEF longer
  <2>2. screen' = longer
    BY <1>5 DEF longer
  <2>3. DisplayTypeOK'
    BY <1>1, <1>2, <1>3, <1>5, <2>1, <2>2 DEF DisplayTypeOK, Wants
  <2>4. LinesKept'
    <3> SUFFICES ASSUME mode.terminal, NEW i \in 1 .. Len(longer) - 1,
                        longer[i] = "status"
                 PROVE  \/ longer[i + 1] = "clear"
                        \/ mode.output = "jsonl" /\ longer[i + 1] = "line"
      BY <1>1, <2>2 DEF LinesKept
    <3>1. CASE i = Len(screen)
      BY <1>1, <2>1, <3>1
    <3>2. CASE i # Len(screen)
      <4>1. i \in 1 .. Len(screen) - 1 /\ i \in 1 .. Len(screen) /\ i + 1 \in 1 .. Len(screen)
        BY <1>2, <2>1, <3>2
      <4> QED
        BY <2>1, <4>1 DEF DisplayInv, LinesKept
    <3> QED
      BY <3>1, <3>2
  <2>5. DrawInv'
    BY <1>1, <1>2, <2>1, <2>2 DEF DisplayInv, DrawInv
  <2>6. mode.quiet => \A i \in 1 .. Len(longer) : longer[i] # "status"
    BY <1>2, <2>1 DEF DisplayInv, QuietInv
  <2> QED
    BY <1>1, <2>2, <2>3, <2>4, <2>5, <2>6
    DEF DisplayInv, QuietInv, EndInv, StopIsFinal
<1> QED
  BY <1>4, <1>5 DEF EncodeLine

LEMMA PrintSummaryInv == DisplayInv /\ PrintSummary => DisplayInv'
<1> SUFFICES ASSUME DisplayInv, PrintSummary PROVE DisplayInv'
  OBVIOUS
<1> DEFINE summary == Append(Cleared, "summary")
<1>1. /\ main = "summary" /\ main' = "stopped" /\ mu' = "free"
      /\ UNCHANGED <<mode, refresh, caller, news, stopped, doneClosed, progress,
                     outputErr, results, ticks>>
      /\ Write(summary)
  BY DEF PrintSummary
<1>2. /\ summary \in Seq(Kinds)
      /\ mode.terminal => Tidy(summary) /\ summary[1] = "clear"
      /\ summary[Len(summary)] = "summary" /\ Len(summary) \in Nat \ {0}
  BY LinesFacts
<1> HIDE DEF summary
<1>3. ~mode.quiet /\ refresh \in {"none", "ended"}
  BY <1>1 DEF DisplayInv, QuietInv, EndInv
<1>4. screen' \in Seq(Kinds) /\ failed' \in BOOLEAN
  BY <1>1, <1>2, WriteFacts DEF DisplayInv, DisplayTypeOK
<1>5. DisplayTypeOK'
  BY <1>1, <1>4 DEF DisplayInv, DisplayTypeOK
<1>6. LinesKept'
  BY <1>1, <1>2, TidyWrite DEF DisplayInv
<1>7. ~failed' => Last(screen') = "summary"
  <2>1. PICK k \in 0 .. Len(summary) :
          /\ Len(screen') = Len(screen) + k
          /\ \A i \in 1 .. k : screen'[Len(screen) + i] = summary[i]
          /\ ~failed' => k = Len(summary)
    BY <1>1, <1>2, WriteFacts DEF DisplayInv, DisplayTypeOK
  <2> QED
    BY <1>2, <2>1 DEF Last
<1>8. StopIsFinal'
  BY <1>1, <1>3, <1>7 DEF StopIsFinal
<1> QED
  BY <1>1, <1>3, <1>5, <1>6, <1>8 DEF DisplayInv, QuietInv, EndInv, DrawInv

\* A redraw begins by clearing the status, unless Stop came first.
LEMMA RedrawInv == DisplayInv /\ Redraw => DisplayInv'
<1> SUFFICES ASSUME DisplayInv, Redraw PROVE DisplayInv'
  OBVIOUS
<1>1. /\ refresh = "redraw" /\ mu = "refresh"
      /\ UNCHANGED <<mode, main, caller, news, stopped, doneClosed, progress,
                     outputErr, results, ticks>>
  BY DEF Redraw
<1>2. CASE stopped
  <2>1. UNCHANGED <<screen, failed>> /\ refresh' = "select" /\ mu' = "free"
    BY <1>2 DEF Redraw
  <2>2. DisplayTypeOK'
    BY <1>1, <2>1 DEF DisplayInv, DisplayTypeOK
  <2> QED
    BY <1>1, <2>1, <2>2, SilentStepInv
<1>3. CASE ~stopped
  <2>1. Write(Cleared) /\ refresh' = "draw" /\ mu' = "refresh"
    BY <1>1, <1>3 DEF Redraw
  <2>2. /\ Cleared \in Seq(Kinds)
        /\ mode.terminal => Tidy(Cleared) /\ Len(Cleared) = 1 /\ Cleared[1] = "clear"
    BY LinesFacts
  <2>3. ~mode.quiet /\ main \notin {"start", "summary", "stopped"}
    BY <1>1 DEF DisplayInv, QuietInv, EndInv
  <2>4. PICK k \in 0 .. Len(Cleared) :
          /\ Len(screen') = Len(screen) + k
          /\ \A i \in 1 .. k : screen'[Len(screen) + i] = Cleared[i]
          /\ ~failed' => k = Len(Cleared)
    BY <2>1, <2>2, WriteFacts DEF DisplayInv, DisplayTypeOK
  <2>5. screen' \in Seq(Kinds) /\ failed' \in BOOLEAN
    BY <2>1, <2>2, WriteFacts DEF DisplayInv, DisplayTypeOK
  <2>6. DisplayTypeOK'
    BY <1>1, <2>1, <2>5 DEF DisplayInv, DisplayTypeOK, Wants
  <2>7. LinesKept'
    BY <1>1, <2>1, <2>2, TidyWrite DEF DisplayInv
  <2>8. mode.terminal /\ ~failed' => screen'[Len(screen')] = "clear"
    BY <2>2, <2>4
  <2>9. DrawInv'
    BY <1>1, <1>3, <2>1, <2>8 DEF DrawInv
  <2> QED
    BY <1>1, <2>1, <2>3, <2>6, <2>7, <2>9 DEF DisplayInv, QuietInv, EndInv, StopIsFinal
<1> QED
  BY <1>2, <1>3

\* The status is drawn where none stands unfinished.
LEMMA DrawStatusInv == DisplayInv /\ DrawStatus => DisplayInv'
<1> SUFFICES ASSUME DisplayInv, DrawStatus PROVE DisplayInv'
  OBVIOUS
<1> DEFINE status == <<"status">>
<1>1. /\ refresh = "draw" /\ refresh' = "select" /\ mu' = "free" /\ Write(status)
      /\ UNCHANGED <<mode, main, caller, news, stopped, doneClosed, progress,
                     outputErr, results, ticks>>
  BY DEF DrawStatus
<1>2. status \in Seq(Kinds) /\ Tidy(status)
  BY LinesFacts
<1> HIDE DEF status
<1>3. ~mode.quiet /\ main \notin {"start", "summary", "stopped"}
  BY <1>1 DEF DisplayInv, QuietInv, EndInv
<1>4. screen' \in Seq(Kinds) /\ failed' \in BOOLEAN
  BY <1>1, <1>2, WriteFacts DEF DisplayInv, DisplayTypeOK
<1>5. DisplayTypeOK'
  BY <1>1, <1>4 DEF DisplayInv, DisplayTypeOK
<1>6. mode.terminal => failed \/ (Len(screen) > 0 => screen[Len(screen)] # "status")
  BY <1>1 DEF DisplayInv, DrawInv
<1>7. LinesKept'
  BY <1>1, <1>2, <1>6, TidyWrite DEF DisplayInv
<1> QED
  BY <1>1, <1>3, <1>5, <1>7 DEF DisplayInv, QuietInv, EndInv, DrawInv, StopIsFinal

\* Every step keeps the invariant.
LEMMA DisplayStepInv == DisplayInv /\ [DisplayNext]_displayVars => DisplayInv'
<1> SUFFICES ASSUME DisplayInv, [DisplayNext]_displayVars PROVE DisplayInv'
  OBVIOUS
<1>1. CASE UNCHANGED displayVars
  <2>1. DisplayTypeOK'
    BY <1>1 DEF displayVars, DisplayInv, DisplayTypeOK, Wants
  <2> QED
    BY <1>1, <2>1, SilentStepInv DEF displayVars
<1> QED
  BY <1>1, SilentSteps, StartInv, PrintResultInv, EncodeLineInv, PrintSummaryInv,
     RedrawInv, DrawStatusInv
  DEF DisplayNext, MainStep, RefreshStep

-----------------------------------------------------------------------------
(* The results on the screen.                                              *)

\* Where there are results among the lines.
ResultsIn(lines) == {i \in 1 .. Len(lines) : lines[i] \in {"result", "line"}}

\* Lines behind others add their results to those.
LEMMA ResultsBehind ==
  ASSUME NEW s \in Seq(Kinds), NEW t \in Seq(Kinds)
  PROVE  /\ s \o t \in Seq(Kinds)
         /\ ResultsIn(s \o t) = ResultsIn(s) \cup {Len(s) + i : i \in ResultsIn(t)}
         /\ ResultsIn(t) = {} => ResultsIn(s \o t) = ResultsIn(s)
<1>1. Len(s) \in Nat /\ Len(t) \in Nat
  BY LenProperties
<1>2. /\ s \o t \in Seq(Kinds) /\ Len(s \o t) = Len(s) + Len(t)
      /\ \A i \in 1 .. Len(s) + Len(t) :
           (s \o t)[i] = IF i <= Len(s) THEN s[i] ELSE t[i - Len(s)]
  BY ConcatProperties
<1> DEFINE st == s \o t
<1> HIDE DEF st
<1>3. ASSUME NEW i \in ResultsIn(st)
      PROVE  i \in ResultsIn(s) \/ \E j \in ResultsIn(t) : i = Len(s) + j
  <2>1. i \in 1 .. Len(s) + Len(t) /\ st[i] \in {"result", "line"}
    BY <1>2 DEF st, ResultsIn
  <2>2. CASE i <= Len(s)
    BY <1>1, <1>2, <2>1, <2>2 DEF st, ResultsIn
  <2>3. CASE i > Len(s)
    <3>1. i - Len(s) \in 1 .. Len(t) /\ t[i - Len(s)] \in {"result", "line"} /\ i = Len(s) + (i - Len(s))
      BY <1>1, <1>2, <2>1, <2>3 DEF st
    <3> QED
      BY <3>1 DEF ResultsIn
  <2> QED
    BY <1>1, <2>1, <2>2, <2>3
<1>4. ASSUME NEW i \in ResultsIn(s) PROVE i \in ResultsIn(st)
  BY <1>1, <1>2 DEF st, ResultsIn
<1>5. ASSUME NEW j \in ResultsIn(t) PROVE Len(s) + j \in ResultsIn(st)
  <2>1. /\ j \in 1 .. Len(t) /\ t[j] \in {"result", "line"}
        /\ Len(s) + j \in 1 .. Len(s) + Len(t) /\ ~(Len(s) + j <= Len(s))
        /\ (Len(s) + j) - Len(s) = j
    BY <1>1 DEF ResultsIn
  <2>2. st[Len(s) + j] = t[(Len(s) + j) - Len(s)]
    BY <1>2, <2>1 DEF st
  <2> QED
    BY <1>2, <2>1, <2>2 DEF st, ResultsIn
<1>6. ResultsIn(st) = ResultsIn(s) \cup {Len(s) + i : i \in ResultsIn(t)}
  BY <1>3, <1>4, <1>5
<1>7. ResultsIn(t) = {} => ResultsIn(st) = ResultsIn(s)
  BY <1>6
<1> QED
  BY <1>2, <1>6, <1>7 DEF st

\* Only the lines of a result have one, and just one.
LEMMA ResultLines ==
  LET header  == <<"header">> \o Status
      result  == Cleared \o <<"result", "blank">> \o Status
      summary == Append(Cleared, "summary")
  IN  /\ ResultsIn(header) = {} /\ ResultsIn(Cleared) = {} /\ ResultsIn(<<"status">>) = {}
      /\ ResultsIn(summary) = {}
      /\ \E n \in Nat \ {0} : ResultsIn(result) = {n}
      /\ ResultsIn(<<"result">>) = {1}
<1> DEFINE pair == <<"result", "blank">>
<1>1. /\ <<"header">> \in Seq(Kinds) /\ pair \in Seq(Kinds)
      /\ "status" \in Kinds /\ "summary" \in Kinds
  BY DEF Kinds
<1>2. /\ ResultsIn(<<"header">>) = {} /\ ResultsIn(<<"result">>) = {1}
      /\ ResultsIn(<<"clear">>) = {} /\ ResultsIn(<<>>) = {} /\ ResultsIn(<<"status">>) = {}
  BY DEF ResultsIn
<1>3. ResultsIn(pair) = {1}
  BY DEF ResultsIn
<1>4. Cleared \in Seq(Kinds) /\ Len(Cleared) \in Nat /\ ResultsIn(Cleared) = {}
  <2>1. <<"clear">> \in Seq(Kinds) /\ <<>> \in Seq(Kinds)
    BY DEF Kinds
  <2> QED
    BY <1>2, <2>1, LenProperties DEF Cleared
<1> HIDE DEF pair
<1>5. ASSUME NEW l \in Kinds, l \notin {"result", "line"}
      PROVE  Append(Cleared, l) \in Seq(Kinds) /\ ResultsIn(Append(Cleared, l)) = {}
  <2>1. /\ Append(Cleared, l) \in Seq(Kinds)
        /\ Len(Append(Cleared, l)) = Len(Cleared) + 1
        /\ \A i \in 1 .. Len(Cleared) : Append(Cleared, l)[i] = Cleared[i]
        /\ Append(Cleared, l)[Len(Cleared) + 1] = l
    BY <1>4, AppendProperties
  <2> QED
    BY <1>4, <1>5, <2>1 DEF ResultsIn
<1>6. Status \in Seq(Kinds) /\ ResultsIn(Status) = {}
  BY <1>1, <1>5 DEF Status
<1>7. ResultsIn(Append(Cleared, "summary")) = {}
  BY <1>1, <1>5
<1>8. ResultsIn(<<"header">> \o Status) = {}
  BY <1>1, <1>2, <1>6, ResultsBehind
<1>9. Cleared \o pair \in Seq(Kinds) /\ ResultsIn(Cleared \o pair) = {Len(Cleared) + 1}
  <2>1. ResultsIn(Cleared \o pair) = ResultsIn(Cleared) \cup {Len(Cleared) + i : i \in ResultsIn(pair)}
    BY <1>1, <1>4, ResultsBehind
  <2> QED
    BY <1>1, <1>3, <1>4, <2>1, ResultsBehind
<1>10. ResultsIn(Cleared \o pair \o Status) = {Len(Cleared) + 1}
  <2> DEFINE front == Cleared \o pair
  <2> HIDE DEF front
  <2>1. ResultsIn(front \o Status) = ResultsIn(front) \cup {Len(front) + i : i \in ResultsIn(Status)}
    BY <1>6, <1>9, ResultsBehind DEF front
  <2>2. ResultsIn(front \o Status) = ResultsIn(front)
    BY <1>6, <2>1
  <2> QED
    BY <1>9, <2>2 DEF front
<1> QED
  BY <1>2, <1>4, <1>6, <1>7, <1>8, <1>10 DEF pair

\* A write that does not fail shows all its results and those before.
LEMMA ResultsWritten ==
  ASSUME NEW lines \in Seq(Kinds), screen \in Seq(Kinds), failed \in BOOLEAN,
         Write(lines), ~failed'
  PROVE  /\ ~failed
         /\ ResultsIn(screen)' = ResultsIn(screen) \cup {Len(screen) + i : i \in ResultsIn(lines)}
         /\ ResultsIn(lines) = {} => ResultsIn(screen)' = ResultsIn(screen)
<1>1. PICK k \in IF failed THEN {0} ELSE 0 .. Len(lines) :
        /\ screen' = screen \o SubSeq(lines, 1, k)
        /\ failed' = (failed \/ k < Len(lines))
  BY DEF Write
<1>2. ~failed /\ ~(k < Len(lines))
  BY <1>1, Zenon
<1>3. k = Len(lines) /\ Len(lines) \in Nat
  BY <1>1, <1>2, LenProperties
<1>4. SubSeq(lines, 1, k) = lines
  <2>1. SubSeq(lines, 1, k) \in Seq(Kinds) /\ Len(SubSeq(lines, 1, k)) = k
        /\ \A i \in 1 .. k : SubSeq(lines, 1, k)[i] = lines[i]
    BY <1>3, SubSeqProperties
  <2> DEFINE part == SubSeq(lines, 1, k)
  <2> HIDE DEF part
  <2> QED
    BY <1>3, <2>1, SeqEqual DEF part
<1>5. screen' = screen \o lines
  BY <1>1, <1>4
<1> DEFINE both == screen \o lines
<1>6. /\ ResultsIn(both) = ResultsIn(screen) \cup {Len(screen) + i : i \in ResultsIn(lines)}
      /\ ResultsIn(lines) = {} => ResultsIn(both) = ResultsIn(screen)
  BY ResultsBehind
<1> HIDE DEF both
<1>7. ResultsIn(screen)' = ResultsIn(both)
  BY <1>5 DEF ResultsIn, both
<1> QED
  BY <1>2, <1>6, <1>7

\* A write without results shows none, whether it fails or not.
LEMMA NoneWritten ==
  ASSUME NEW lines \in Seq(Kinds), screen \in Seq(Kinds), failed \in BOOLEAN,
         Write(lines), ResultsIn(lines) = {}
  PROVE  ResultsIn(screen)' = ResultsIn(screen)
<1>1. PICK k \in 0 .. Len(lines) :
        /\ Len(screen') = Len(screen) + k
        /\ \A i \in 1 .. Len(screen) : screen'[i] = screen[i]
        /\ \A i \in 1 .. k : screen'[Len(screen) + i] = lines[i]
  BY WriteFacts
<1>2. Len(screen) \in Nat /\ Len(lines) \in Nat
  BY LenProperties
<1>3. ASSUME NEW i \in 1 .. Len(screen) + k, i > Len(screen)
      PROVE  screen'[i] \notin {"result", "line"}
  <2> DEFINE j == i - Len(screen)
  <2>1. j \in 1 .. k /\ j \in 1 .. Len(lines) /\ i = Len(screen) + j
    BY <1>2, <1>3
  <2> HIDE DEF j
  <2> QED
    BY <1>1, <2>1 DEF ResultsIn
<1> QED
  BY <1>1, <1>2, <1>3 DEF ResultsIn

\* The results that are shown are those run() had, but for the one it is about to
\* write.
ShownInv ==
  ~Lost =>
    /\ IsFiniteSet(ResultsIn(screen))
    /\ Cardinality(ResultsIn(screen)) = IF main = "result" THEN results - 1 ELSE results

\* Every step keeps count of them.
LEMMA ShownStep ==
  ASSUME DisplayInv, ShownInv, DisplayNext
  PROVE  ShownInv'
<1>1. /\ screen \in Seq(Kinds) /\ failed \in BOOLEAN /\ results \in Nat
      /\ Len(screen) \in Nat
  BY LenProperties, DisplayAssumption DEF DisplayInv, DisplayTypeOK
<1>2. /\ {<<"header">> \o Status, Status, Cleared \o <<"result", "blank">> \o Status,
          Append(Cleared, "summary"), <<"result">>, Cleared, <<"status">>}
           \subseteq Seq(Kinds)
  BY LinesFacts
<1>3. ASSUME UNCHANGED <<mode, screen, failed, outputErr>>,
             \/ results' = results /\ (main' = "result" <=> main = "result")
             \/ results' = results + 1 /\ main' = "result" /\ main # "result"
      PROVE  ShownInv'
  BY <1>1, <1>3 DEF ShownInv, ResultsIn, Lost
<1>4. ASSUME NEW lines \in Seq(Kinds), ResultsIn(lines) = {}, Write(lines),
             UNCHANGED <<mode, outputErr, results>>,
             main' = "result" <=> main = "result"
      PROVE  ShownInv'
  <2>1. ResultsIn(screen)' = ResultsIn(screen)
    BY <1>1, <1>4, NoneWritten
  <2>2. failed => failed'
    BY <1>1, <1>4, WriteFacts
  <2> QED
    BY <1>4, <2>1, <2>2 DEF ShownInv, Lost
<1>5. ASSUME NEW x, x \notin ResultsIn(screen), ~Lost, main = "result",
             main' # "result", results' = results,
             ResultsIn(screen)' = ResultsIn(screen) \cup {x}
      PROVE  ShownInv'
  <2> DEFINE shown == ResultsIn(screen)
  <2>1. IsFiniteSet(shown) /\ Cardinality(shown) = results - 1
    BY <1>5 DEF ShownInv
  <2> HIDE DEF shown
  <2>2. IsFiniteSet(shown \cup {x}) /\ Cardinality(shown \cup {x}) = Cardinality(shown) + 1
    BY <1>5, <2>1, FS_AddElement DEF shown
  <2>3. ResultsIn(screen)' = shown \cup {x}
    BY <1>5 DEF shown
  <2>4. Cardinality(shown \cup {x}) = results
    BY <1>1, <2>1, <2>2
  <2> DEFINE more == shown \cup {x}
  <2>5. IsFiniteSet(more) /\ Cardinality(more) = results /\ ResultsIn(screen)' = more
    BY <2>2, <2>3, <2>4
  <2> HIDE DEF more
  <2> QED
    BY <1>5, <2>5 DEF ShownInv
<1>6. CASE PrintResult
  <2>1. /\ mode' = mode /\ results' = results /\ main = "result" /\ main' # "result"
        /\ mode.output = "text"
    BY <1>6 DEF PrintResult
  <2> DEFINE result == Cleared \o <<"result", "blank">> \o Status
             one == <<"result">>
  <2>2. /\ result \in Seq(Kinds) /\ one \in Seq(Kinds)
        /\ \E n \in Nat \ {0} : ResultsIn(result) = {n}
        /\ ResultsIn(one) = {1}
    BY <1>2, ResultLines
  <2>3. Write(one) \/ Write(result)
    BY <1>6 DEF PrintResult
  <2> HIDE DEF result, one
  <2>4. PICK lines \in {one, result} : Write(lines)
    BY <2>3
  <2>5. PICK n \in Nat \ {0} : ResultsIn(lines) = {n}
    BY <2>2
  <2> SUFFICES ASSUME ~Lost' PROVE ShownInv'
    BY DEF ShownInv
  <2>6. ~failed' /\ lines \in Seq(Kinds)
    BY <2>1, <2>2, <2>4 DEF Lost
  <2>7. /\ ~failed
        /\ ResultsIn(screen)' = ResultsIn(screen) \cup {Len(screen) + i : i \in ResultsIn(lines)}
    BY <1>1, <2>4, <2>6, ResultsWritten
  <2>8. {Len(screen) + i : i \in ResultsIn(lines)} = {Len(screen) + n}
    BY <2>5
  <2>9. ResultsIn(screen)' = ResultsIn(screen) \cup {Len(screen) + n}
    BY <2>7, <2>8
  <2>10. Len(screen) + n \notin ResultsIn(screen)
    BY <1>1 DEF ResultsIn
  <2>11. ~Lost
    BY <2>1, <2>7 DEF Lost
  <2> QED
    BY <1>5, <2>1, <2>9, <2>10, <2>11
<1>7. CASE Start
  <2>1. UNCHANGED <<mode, outputErr, results>> /\ main # "result" /\ main' # "result"
    BY <1>7 DEF Start
  <2>2. CASE mode.quiet
    BY <1>3, <1>7, <2>1, <2>2 DEF Start
  <2>3. CASE ~mode.quiet
    <3>1. Write(<<"header">> \o Status)
      BY <1>7, <2>3 DEF Start
    <3> QED
      BY <1>2, <1>4, <2>1, <3>1, ResultLines
  <2> QED
    BY <2>2, <2>3
<1>8. CASE PrintSummary
  <2>1. /\ UNCHANGED <<mode, outputErr, results>> /\ main # "result" /\ main' # "result"
        /\ Write(Append(Cleared, "summary"))
    BY <1>8 DEF PrintSummary
  <2> QED
    BY <1>2, <1>4, <2>1, ResultLines
<1>9. CASE Redraw
  <2>1. UNCHANGED <<mode, main, outputErr, results>>
    BY <1>9 DEF Redraw
  <2>2. CASE stopped
    BY <1>3, <1>9, <2>1, <2>2 DEF Redraw
  <2>3. CASE ~stopped
    <3>1. Write(Cleared)
      BY <1>9, <2>3 DEF Redraw
    <3> QED
      BY <1>2, <1>4, <2>1, <3>1, ResultLines
  <2> QED
    BY <2>2, <2>3
<1>10. CASE DrawStatus
  <2>1. UNCHANGED <<mode, main, outputErr, results>> /\ Write(<<"status">>)
    BY <1>10 DEF DrawStatus
  <2> QED
    BY <1>2, <1>4, <2>1, ResultLines
<1>11. CASE EncodeLine
  <2>1. /\ mode' = mode /\ results' = results /\ main = "result" /\ main' # "result"
        /\ mode.output = "jsonl"
    BY <1>11 DEF EncodeLine
  <2>2. CASE outputErr' = TRUE
    BY <2>1, <2>2 DEF ShownInv, Lost
  <2>3. CASE outputErr' = outputErr /\ screen' = Append(screen, "line")
    <3> DEFINE longer == Append(screen, "line")
    <3>1. "line" \in Kinds
      BY DEF Kinds
    <3>2. /\ Len(longer) = Len(screen) + 1 /\ longer[Len(screen) + 1] = "line"
          /\ \A i \in 1 .. Len(screen) : longer[i] = screen[i]
      BY <1>1, <3>1, AppendProperties
    <3> HIDE DEF longer
    <3>3. screen' = longer
      BY <2>3 DEF longer
    <3>4. ResultsIn(longer) = ResultsIn(screen) \cup {Len(screen) + 1}
      BY <1>1, <3>2 DEF ResultsIn
    <3>5. ResultsIn(screen)' = ResultsIn(screen) \cup {Len(screen) + 1}
      BY <3>3, <3>4 DEF ResultsIn
    <3>6. Len(screen) + 1 \notin ResultsIn(screen)
      BY <1>1 DEF ResultsIn
    <3> SUFFICES ASSUME ~Lost PROVE ShownInv'
      BY <2>1, <2>3 DEF ShownInv, Lost
    <3> QED
      BY <1>5, <2>1, <3>5, <3>6
  <2> QED
    BY <1>11, <2>2, <2>3 DEF EncodeLine
<1>12. CASE HaveResult
  BY <1>3, <1>12 DEF HaveResult
<1>13. CASE \E p \in {"main", "refresh"} \cup Callers : Lock(p)
  BY <1>3, <1>13 DEF Lock
<1>14. CASE \E c \in Callers : CallUpdate(c) \/ Update(c)
  BY <1>3, <1>14 DEF CallUpdate, Update
<1>15. CASE CallStop \/ Stop \/ StopWait \/ Tick \/ EndRefresh
  BY <1>3, <1>15 DEF CallStop, Stop, StopWait, Tick, EndRefresh
<1>16. CASE UNCHANGED displayVars
  BY <1>3, <1>16 DEF displayVars
<1> QED
  BY <1>6, <1>7, <1>8, <1>9, <1>10, <1>11, <1>12, <1>13, <1>14, <1>15, <1>16
  DEF DisplayNext, MainStep, RefreshStep

-----------------------------------------------------------------------------
(* The theorems.                                                           *)

\* The invariant holds in every state of the display.
THEOREM DisplayInvariance == DisplaySpec => []DisplayInv
BY InitDisplay, DisplayStepInv, PTL DEF DisplaySpec

\* Every variable keeps its type, and the mutex is held by one who is in a
\* critical section.
THEOREM DisplayTypeCorrect == DisplaySpec => []DisplayTypeOK
<1>1. DisplayInv => DisplayTypeOK
  BY DEF DisplayInv
<1> QED
  BY <1>1, DisplayInvariance, PTL

\* The display writes no line behind an unfinished status, in writeResult, the
\* refresh, or the summary, failed writes included; a JSON line is all that may
\* come there.
THEOREM LinesHold == DisplaySpec => []LinesKept
<1>1. DisplayInv => LinesKept
  BY DEF DisplayInv
<1> QED
  BY <1>1, DisplayInvariance, PTL

\* Nothing is drawn once Stop has returned.
THEOREM StopFinal == DisplaySpec => []StopIsFinal
<1>1. DisplayInv => StopIsFinal
  BY DEF DisplayInv
<1> QED
  BY <1>1, DisplayInvariance, PTL

\* writeResult and the JSON Lines of run(), quiet or not: every result is written
\* exactly once, or Err or outputErr will report why not.
THEOREM ResultsAreShown == DisplaySpec => []ResultsPrinted
<1>1. DisplayInit => ShownInv
  <2>1. DisplayInit => ResultsIn(screen) = {}
    BY DEF DisplayInit, ResultsIn
  <2> QED
    BY <2>1, FS_EmptySet DEF DisplayInit, ShownInv
<1>2. DisplayInv /\ ShownInv /\ [DisplayNext]_displayVars => ShownInv'
  <2>1. ShownInv /\ UNCHANGED displayVars => ShownInv'
    BY DEF ShownInv, Lost, ResultsIn, displayVars
  <2> QED
    BY <2>1, ShownStep
<1>3. DisplayInv /\ ShownInv => ResultsPrinted
  <2> SUFFICES ASSUME DisplayInv, ShownInv PROVE ResultsPrinted
    OBVIOUS
  <2>1. DOMAIN screen = 1 .. Len(screen)
    BY LenProperties DEF DisplayInv, DisplayTypeOK
  <2> QED
    BY <2>1 DEF ResultsPrinted, ShownInv, ResultsIn
<1> QED
  BY <1>1, <1>2, <1>3, DisplayInvariance, PTL DEF DisplaySpec
=============================================================================
