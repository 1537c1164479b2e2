-------------------------- MODULE ProgressDisplay --------------------------
(***************************************************************************)
(* The progress display (progress.go): the goroutine of run(), which       *)
(* starts the display, prints results and stops it; the display's own      *)
(* refresh goroutine; and the scan's goroutines, which deliver Progress    *)
(* values, some of them after the display has been stopped.                *)
(*                                                                         *)
(* The display writes under one mutex.  JSON Lines do not go through it:   *)
(* run() encodes them to stdout itself, at any moment of a redraw.  The    *)
(* screen is the sequence of what has been written to stdout and stderr,   *)
(* which may be one terminal: each write stands for its kind.  The counts  *)
(* of a Progress value are one number.                                     *)
(***************************************************************************)
EXTENDS Naturals, Sequences, FiniteSets, SequencesExt

CONSTANTS
  Callers,            \* goroutines of the scan that call Update
  MaxCount,           \* bound on the counts of a Progress value
  MaxResults,         \* bound on the results run() prints
  MaxTicks            \* bound on the ticks of the refresh timer

ASSUME DisplayAssumption ==
  /\ IsFiniteSet(Callers) /\ Callers \cap {"free", "main", "refresh"} = {}
  /\ MaxCount \in Nat /\ MaxResults \in Nat /\ MaxTicks \in Nat

VARIABLES
  mode,               \* quiet, terminal and the output format, fixed at the start
  mu,                 \* who holds display.mu, or "free"
  main,               \* where run()'s goroutine is
  refresh,            \* where refreshLoop is
  caller,             \* whether each caller is in Update
  news,               \* the Progress value of each caller
  stopped,            \* display.stopped
  doneClosed,         \* display.done is closed
  progress,           \* display.progress
  failed,             \* display.writeErr is set
  outputErr,          \* run()'s outputErr is set: a JSON line was not written
  screen,             \* history: what has been written
  results,            \* history: how often run() printed a result
  ticks               \* history: ticks of the refresh timer

displayVars == <<mode, mu, main, refresh, caller, news, stopped, doneClosed,
                 progress, failed, outputErr, screen, results, ticks>>

\* The writes of one critical section: after the first that fails there is no
\* other, now or ever (writeProgress and writeResult test writeErr).
Write(lines) ==
  \E k \in IF failed THEN {0} ELSE 0 .. Len(lines) :
    /\ screen' = screen \o SubSeq(lines, 1, k)
    /\ failed' = (failed \/ k < Len(lines))

\* On a terminal the status is a line without an end, cleared before the next.
Cleared == IF mode.terminal THEN <<"clear">> ELSE <<>>
Status == Append(Cleared, "status")

Modes == [quiet : BOOLEAN, terminal : BOOLEAN, output : {"text", "json", "jsonl"}]

DisplayInit ==
  /\ mode \in Modes
  /\ mu = "free"
  /\ main = "start"
  /\ refresh = "none"
  /\ caller = [c \in Callers |-> "out"]
  /\ news = [c \in Callers |-> 0]
  /\ stopped = FALSE
  /\ doneClosed = FALSE
  /\ progress = 0
  /\ failed = FALSE
  /\ outputErr = FALSE
  /\ screen = <<>>
  /\ results = 0
  /\ ticks = 0

-----------------------------------------------------------------------------
(* Slips, each in place of the definition it is named after.               *)

\* Stop waits for the refresh goroutine with the mutex held.
LockedStop ==
  /\ main = "stop" /\ mu = "main"
  /\ stopped' = TRUE
  /\ doneClosed' = TRUE
  /\ main' = "wait"
  /\ UNCHANGED <<mode, mu, refresh, caller, news, progress, failed, outputErr,
                 screen, results, ticks>>

\* Stop does not wait for the refresh goroutine.
HastyStopWait ==
  /\ main = "wait"
  /\ main' = IF mode.quiet THEN "stopped" ELSE "summary"
  /\ UNCHANGED <<mode, mu, refresh, caller, news, stopped, doneClosed,
                 progress, failed, outputErr, screen, results, ticks>>

\* The status is not cleared before a result.
SmearingPrintResult ==
  /\ main = "result" /\ mu = "main" /\ mode.output = "text"
  /\ Write(<<"result">> \o IF mode.quiet THEN <<>> ELSE <<"blank">> \o Status)
  /\ main' = "scan"
  /\ mu' = "free"
  /\ UNCHANGED <<mode, refresh, caller, news, stopped, doneClosed, progress,
                 outputErr, results, ticks>>

\* A quiet display prints no results either.
MutePrintResult ==
  /\ main = "result" /\ mu = "main" /\ mode.output = "text"
  /\ IF ~mode.quiet
       THEN Write(Cleared \o <<"result", "blank">> \o Status)
       ELSE UNCHANGED <<screen, failed>>
  /\ main' = "scan"
  /\ mu' = "free"
  /\ UNCHANGED <<mode, refresh, caller, news, stopped, doneClosed, progress,
                 outputErr, results, ticks>>

-----------------------------------------------------------------------------
(* The mutex.                                                              *)

\* The critical sections: of run()'s goroutine the one it is about to enter,
\* the refresh after a tick, and Update.
Wants(p) ==
  \/ p = "main" /\ main \in {"start", "stop", "summary"}
  \/ p = "main" /\ main = "result" /\ mode.output = "text"
  \/ p = "refresh" /\ refresh \in {"redraw", "draw"}
  \/ p \in Callers /\ caller[p] = "update"

Lock(p) ==
  /\ mu = "free"
  /\ Wants(p)
  /\ mu' = p
  /\ UNCHANGED <<mode, main, refresh, caller, news, stopped, doneClosed,
                 progress, failed, outputErr, screen, results, ticks>>

-----------------------------------------------------------------------------
(* run()'s goroutine.                                                      *)

\* Start: nothing more than the time when quiet, else the header, the first
\* status and the refresh goroutine.
Start ==
  /\ main = "start" /\ mu = "main"
  /\ IF mode.quiet
       THEN UNCHANGED <<screen, failed, refresh>>
       ELSE Write(<<"header">> \o Status) /\ refresh' = "select"
  /\ main' = "scan"
  /\ mu' = "free"
  /\ UNCHANGED <<mode, caller, news, stopped, doneClosed, progress, outputErr,
                 results, ticks>>

\* A callback of the scan, or run() after it, has a result to print.  There is
\* none after a JSON line that failed, and a JSON document comes after Stop.
HaveResult ==
  /\ main = "scan" /\ results < MaxResults
  /\ mode.output # "json" /\ ~outputErr
  /\ results' = results + 1
  /\ main' = "result"
  /\ UNCHANGED <<mode, mu, refresh, caller, news, stopped, doneClosed,
                 progress, failed, outputErr, screen, ticks>>

\* writeResult: run() hands the display results only in text, which is when the
\* display shows them.
PrintResult ==
  /\ main = "result" /\ mu = "main" /\ mode.output = "text"
  /\ Write(IF mode.quiet THEN <<"result">>
           ELSE Cleared \o <<"result", "blank">> \o Status)
  /\ main' = "scan"
  /\ mu' = "free"
  /\ UNCHANGED <<mode, refresh, caller, news, stopped, doneClosed, progress,
                 outputErr, results, ticks>>

\* A JSON line goes straight to stdout, whoever holds the mutex and whatever is on
\* the screen, quiet or not.
EncodeLine ==
  /\ main = "result" /\ mode.output = "jsonl"
  /\ \/ screen' = Append(screen, "line") /\ UNCHANGED outputErr
     \/ outputErr' = TRUE /\ UNCHANGED screen
  /\ main' = "scan"
  /\ UNCHANGED <<mode, mu, refresh, caller, news, stopped, doneClosed, progress,
                 failed, results, ticks>>

\* The scan is over, well or not.
CallStop ==
  /\ main = "scan"
  /\ main' = "stop"
  /\ UNCHANGED <<mode, mu, refresh, caller, news, stopped, doneClosed,
                 progress, failed, outputErr, screen, results, ticks>>

\* Stop marks the display stopped and lets the mutex go before it waits.
Stop ==
  /\ main = "stop" /\ mu = "main"
  /\ stopped' = TRUE
  /\ doneClosed' = TRUE
  /\ main' = "wait"
  /\ mu' = "free"
  /\ UNCHANGED <<mode, refresh, caller, news, progress, failed, outputErr,
                 screen, results, ticks>>

StopWait ==
  /\ main = "wait" /\ refresh \in {"none", "ended"}
  /\ main' = IF mode.quiet THEN "stopped" ELSE "summary"
  /\ UNCHANGED <<mode, mu, refresh, caller, news, stopped, doneClosed,
                 progress, failed, outputErr, screen, results, ticks>>

PrintSummary ==
  /\ main = "summary" /\ mu = "main"
  /\ Write(Append(Cleared, "summary"))
  /\ main' = "stopped"
  /\ mu' = "free"
  /\ UNCHANGED <<mode, refresh, caller, news, stopped, doneClosed, progress,
                 outputErr, results, ticks>>

-----------------------------------------------------------------------------
(* refreshLoop and Update.                                                 *)

Tick ==
  /\ refresh = "select" /\ ticks < MaxTicks
  /\ ticks' = ticks + 1
  /\ refresh' = "redraw"
  /\ UNCHANGED <<mode, mu, main, caller, news, stopped, doneClosed, progress,
                 failed, outputErr, screen, results>>

\* The redraw clears the status and draws the next in two writes: a JSON line may
\* come between them.
Redraw ==
  /\ refresh = "redraw" /\ mu = "refresh"
  /\ IF stopped
       THEN refresh' = "select" /\ mu' = "free" /\ UNCHANGED <<screen, failed>>
       ELSE refresh' = "draw" /\ mu' = mu /\ Write(Cleared)
  /\ UNCHANGED <<mode, main, caller, news, stopped, doneClosed, progress,
                 outputErr, results, ticks>>

DrawStatus ==
  /\ refresh = "draw" /\ mu = "refresh"
  /\ Write(<<"status">>)
  /\ refresh' = "select"
  /\ mu' = "free"
  /\ UNCHANGED <<mode, main, caller, news, stopped, doneClosed, progress,
                 outputErr, results, ticks>>

EndRefresh ==
  /\ refresh = "select" /\ doneClosed
  /\ refresh' = "ended"
  /\ UNCHANGED <<mode, mu, main, caller, news, stopped, doneClosed, progress,
                 failed, outputErr, screen, results, ticks>>

\* A scan goroutine delivers a value: run() passes Update to Scan unless quiet.
\* After a cancelled Scan has returned its goroutines may still do so.
CallUpdate(c) ==
  /\ caller[c] = "out" /\ main # "start" /\ ~mode.quiet
  /\ \E n \in 0 .. MaxCount : news' = [news EXCEPT ![c] = n]
  /\ caller' = [caller EXCEPT ![c] = "update"]
  /\ UNCHANGED <<mode, mu, main, refresh, stopped, doneClosed, progress,
                 failed, outputErr, screen, results, ticks>>

Update(c) ==
  /\ caller[c] = "update" /\ mu = c
  /\ progress' = IF ~stopped /\ news[c] > progress THEN news[c] ELSE progress
  /\ caller' = [caller EXCEPT ![c] = "out"]
  /\ news' = [news EXCEPT ![c] = 0]
  /\ mu' = "free"
  /\ UNCHANGED <<mode, main, refresh, stopped, doneClosed, failed, outputErr,
                 screen, results, ticks>>

MainStep == Start \/ HaveResult \/ PrintResult \/ EncodeLine \/ CallStop \/ Stop
              \/ StopWait \/ PrintSummary
RefreshStep == Tick \/ Redraw \/ DrawStatus \/ EndRefresh

DisplayNext ==
  \/ \E p \in {"main", "refresh"} \cup Callers : Lock(p)
  \/ MainStep
  \/ RefreshStep
  \/ \E c \in Callers : CallUpdate(c) \/ Update(c)
  \/ main = "stopped" /\ UNCHANGED displayVars

DisplaySpec == DisplayInit /\ [][DisplayNext]_displayVars

\* sync.Mutex hands itself to a goroutine that has waited for a millisecond, so
\* nobody waits for it forever; a running goroutine is scheduled; and a select
\* that is offered done again and again takes it.  Nobody has to call Update,
\* and the scan has to end (Termination of ScanPipeline).
DisplayFairness ==
  /\ \A p \in {"main", "refresh"} \cup Callers : SF_displayVars(Lock(p))
  /\ WF_displayVars(MainStep)
  /\ WF_displayVars(Redraw) /\ WF_displayVars(DrawStatus)
  /\ SF_displayVars(EndRefresh)
  /\ \A c \in Callers : WF_displayVars(Update(c))

DisplayFairSpec == DisplaySpec /\ DisplayFairness

-----------------------------------------------------------------------------
(* Properties.                                                             *)

Kinds == {"header", "status", "clear", "result", "blank", "summary", "line"}

DisplayTypeOK ==
  /\ mode \in Modes
  /\ mu \in {"free", "main", "refresh"} \cup Callers
  /\ main \in {"start", "scan", "result", "stop", "wait", "summary", "stopped"}
  /\ refresh \in {"none", "select", "redraw", "draw", "ended"}
  /\ caller \in [Callers -> {"out", "update"}]
  /\ news \in [Callers -> 0 .. MaxCount]
  /\ stopped \in BOOLEAN /\ doneClosed \in BOOLEAN /\ failed \in BOOLEAN
  /\ outputErr \in BOOLEAN
  /\ progress \in 0 .. MaxCount
  /\ screen \in Seq(Kinds)
  /\ results \in 0 .. MaxResults /\ ticks \in 0 .. MaxTicks
  /\ mu = "free" \/ Wants(mu)

\* On a terminal the display never writes behind an unfinished status line,
\* whichever goroutine drew it and whichever write fails.  Only JSON Lines, which
\* run() writes past the display, may follow one.
LinesKept ==
  mode.terminal =>
    \A i \in 1 .. Len(screen) - 1 :
      screen[i] = "status" =>
        \/ screen[i + 1] = "clear"
        \/ mode.output = "jsonl" /\ screen[i + 1] = "line"

\* A result was lost: Err or outputErr reports why.
Lost == IF mode.output = "text" THEN failed ELSE outputErr

\* Every result of a text or JSON Lines scan, quiet or not, is written exactly
\* once unless a write of the results themselves or, in text, of the display has
\* failed: a status that cannot be written costs no JSON line.
ResultsPrinted ==
  ~Lost /\ main # "result" =>
    Cardinality({i \in DOMAIN screen : screen[i] \in {"result", "line"}}) = results

\* When Stop has returned the refresh goroutine has ended and the summary is
\* the last thing written.
StopIsFinal ==
  main = "stopped" =>
    /\ refresh \in {"none", "ended"}
    /\ mode.quiet \/ failed \/ Last(screen) = "summary"

\* Stop returns: it never waits for a goroutine that waits for its mutex.
StopEnds == main = "stop" ~> main = "stopped"
=============================================================================
