----------------------------- MODULE WebVitals -----------------------------
(***************************************************************************)
(* Web Vitals of a page (browser/src/perf.ts): observers that collect      *)
(* until a value is final, which an interaction, the hiding of the page or *)
(* the load event decides, and a page that may be hidden, or its client    *)
(* shut down, before that.                                                 *)
(*                                                                         *)
(* Abstractions.  Times and values are small numbers; a list of entries is *)
(* several calls of an observer; what the browser has not told an observer *)
(* by the time the page is hidden is not known to it.  A drain takes all   *)
(* that is queued, and its chunk is sent, dropped with a report, or queued *)
(* again.  Ratings are left out.                                           *)
(***************************************************************************)
EXTENDS Naturals, Sequences, FiniteSetsExt, SequencesExt

CONSTANTS
  Gap,       \* the longest gap between two shifts of a session window
  Window,    \* the longest session window
  Values,    \* values of an entry
  Steps,     \* bound: times between two shifts
  MaxShifts, \* bound: layout shifts
  MaxHides   \* bound: how often the page is hidden

ASSUME VitalsConstants == {Gap, Window, MaxShifts, MaxHides} \cup Values \cup Steps \subseteq Nat

Finals == {"lcp", "cls", "inp"}  \* reported when they are final (onFinalize)
Spans  == Finals \cup {"fcp", "ttfb", "pageload"}

VARIABLES
  shown,    \* whether the page is visible
  watching, \* the observers and listeners are on: no cleanup yet
  lcp,      \* the last largest-contentful-paint entry, 0 for none
  inputs,   \* how many input listeners still wait for LCP: keydown, pointerdown
  session,  \* the session window: its sum, start, and last shift
  clsMax,   \* the largest window so far
  shifts,   \* history: the shifts, <<time, value>>
  inp,      \* the slowest interaction
  loading,  \* whether the timer of the load event is still to come
  done,     \* the spans whose `reported` flag is set, or whose observer is off
  queued,   \* the spans in the queue
  draining, \* the spans in the chunks of a drain under way
  sent,     \* history: the spans that were sent, or dropped with a report
  times,    \* history: how often a span was reported
  score,    \* history: the CLS reported
  known,    \* history: the finals that had a value when the page was hidden last,
            \* but for those in a drain under way
  hides

entryVars  == <<lcp, session, clsMax, shifts, inp>>
reportVars == <<done, queued, draining, sent, times, score>>
vitalVars  == <<shown, watching, inputs, loading, known, hides, entryVars, reportVars>>

(***************************************************************************)
(* Reports                                                                 *)
(***************************************************************************)

\* The finals that have a value.  CLS always has one.
Valued == (IF lcp > 0 THEN {"lcp"} ELSE {}) \cup {"cls"} \cup (IF inp > 0 THEN {"inp"} ELSE {})

\* Mutant of Fresh: the flags are not looked at.
AllOf(spans) == spans

\* The spans of a set that were not reported before.
Fresh(spans) == spans \ done

\* onVital with spans, and what is queued then; all of it is sent if flushed, but
\* for the chunks of a drain under way, which takeAll leaves to the drain.
ReportAnd(spans, flushed) ==
  /\ done' = done \cup spans
  /\ times' = [s \in Spans |-> times[s] + (IF s \in spans THEN 1 ELSE 0)]
  /\ score' = IF "cls" \in spans THEN clsMax ELSE score
  /\ queued' = IF flushed THEN {} ELSE queued \cup spans
  /\ sent' = IF flushed THEN sent \cup queued \cup spans ELSE sent
  /\ UNCHANGED draining

Report(spans) == ReportAnd(spans, FALSE)

(***************************************************************************)
(* What the browser tells the observers                                    *)
(***************************************************************************)

\* first-contentful-paint; the observer is disconnected.
FirstPaint ==
  /\ watching /\ "fcp" \notin done
  /\ Report({"fcp"})
  /\ UNCHANGED <<shown, watching, inputs, loading, known, hides, entryVars>>

\* largest-contentful-paint, which its report disconnects.
LargestPaint(t) ==
  /\ watching /\ "lcp" \notin done /\ t > lcp
  /\ lcp' = t
  /\ UNCHANGED <<shown, watching, inputs, loading, known, hides, session, clsMax, shifts, inp, reportVars>>

\* The first key or pointer makes LCP final, if there is one; the listener is gone
\* in any case.
Interact ==
  /\ watching /\ inputs > 0
  /\ inputs' = inputs - 1
  /\ Report(Fresh({"lcp"} \cap Valued))
  /\ UNCHANGED <<shown, watching, loading, known, hides, entryVars>>

\* Mutant of WindowOver: only gaps end a window.
WindowGaps(t) == t - session.last > Gap

WindowOver(t) == t - session.last > Gap \/ t - session.start > Window

\* layout-shift, without recent input.  A window without a sum starts anew.
LayoutShift(dt, value) ==
  /\ watching /\ Len(shifts) < MaxShifts
  /\ LET t    == session.last + dt
         sum  == IF session.sum > 0 /\ WindowOver(t) THEN 0 ELSE session.sum
     IN
     /\ session' = [sum |-> sum + value, start |-> IF sum = 0 THEN t ELSE session.start, last |-> t]
     /\ clsMax' = Max({clsMax, sum + value})
     /\ shifts' = Append(shifts, <<t, value>>)
  /\ UNCHANGED <<shown, watching, inputs, loading, known, hides, lcp, inp, reportVars>>

\* An event of an interaction.
SlowEvent(duration) ==
  /\ watching /\ duration > inp
  /\ inp' = duration
  /\ UNCHANGED <<shown, watching, inputs, loading, known, hides, lcp, session, clsMax, shifts, reportVars>>

\* The load event, and its timer: the cleanup takes off the listener, not the timer,
\* but a closed client takes no report.  There is none without a navigation entry.
ReportLoad(ended) ==
  /\ loading
  /\ loading' = FALSE
  /\ Report(IF watching /\ ended THEN {"ttfb", "pageload"} ELSE {})
  /\ UNCHANGED <<shown, watching, inputs, known, hides, entryVars>>

(***************************************************************************)
(* The page and its client                                                 *)
(***************************************************************************)

\* Mutant of Hides: the client's listener comes first, and sends what is queued.
HidesUnloadFirst ==
  LET spans == Fresh(Valued) IN
  /\ done' = done \cup spans /\ queued' = spans /\ sent' = sent \cup queued
  /\ times' = [s \in Spans |-> times[s] + (IF s \in spans THEN 1 ELSE 0)]
  /\ score' = IF "cls" \in spans THEN clsMax ELSE score
  /\ UNCHANGED draining

\* The listeners run in the order they were registered: those of onFinalize, then
\* the client's, which sends the queue.
Hides == ReportAnd(Fresh(Valued), TRUE)

Hide ==
  /\ shown /\ watching /\ hides < MaxHides
  /\ shown' = FALSE /\ hides' = hides + 1
  /\ known' = Valued \ draining
  /\ Hides
  /\ UNCHANGED <<watching, inputs, loading, entryVars>>

Show ==
  /\ ~ shown
  /\ shown' = TRUE
  /\ UNCHANGED <<watching, inputs, loading, known, hides, entryVars, reportVars>>

\* The queue's timer, or a full batch: a drain begins.
StartDrain ==
  /\ draining = {} /\ queued # {}
  /\ draining' = queued /\ queued' = {}
  /\ UNCHANGED <<shown, watching, inputs, loading, known, hides, entryVars, done, sent, times, score>>

\* A drain ends: its chunk was sent or dropped, or is to be retried.
EndDrain(again) ==
  /\ draining # {}
  /\ draining' = {}
  /\ queued' = IF again THEN queued \cup draining ELSE queued
  /\ sent' = IF again THEN sent ELSE sent \cup draining
  /\ UNCHANGED <<shown, watching, inputs, loading, known, hides, entryVars, done, times, score>>

\* shutdown: the cleanup functions, then what is queued.  What is not final is lost.
EndWatching ==
  /\ watching
  /\ watching' = FALSE
  /\ ReportAnd({}, TRUE)
  /\ UNCHANGED <<shown, inputs, loading, known, hides, entryVars>>

VitalsInit ==
  /\ shown = TRUE /\ watching = TRUE /\ hides = 0 /\ known = {}
  /\ lcp = 0 /\ inputs = 2
  /\ session = [sum |-> 0, start |-> 0, last |-> 0] /\ clsMax = 0 /\ shifts = <<>> /\ inp = 0
  /\ loading = TRUE
  /\ done = {} /\ queued = {} /\ draining = {} /\ sent = {} /\ times = [s \in Spans |-> 0] /\ score = 0

VitalsNext ==
  \/ FirstPaint \/ Interact \/ Hide \/ Show \/ StartDrain \/ EndWatching
  \/ \E v \in Values : LargestPaint(v) \/ SlowEvent(v)
  \/ \E dt \in Steps, v \in Values : LayoutShift(dt, v)
  \/ \E ended, again \in BOOLEAN : ReportLoad(ended) \/ EndDrain(again)

VitalsSpec == VitalsInit /\ [][VitalsNext]_vitalVars

(***************************************************************************)
(* Properties                                                              *)
(***************************************************************************)

\* The layout shift score is the sum of a session window: shifts in a row, none
\* more than Gap after the one before it nor Window after the first (perf.ts:89);
\* and no shift alone is above it.
Sums(list) ==
  LET sums[k \in 0 .. Len(list)] == IF k = 0 THEN 0 ELSE sums[k - 1] + list[k][2]
  IN  sums
Sum(i, j) == Sums(shifts)[j] - Sums(shifts)[i - 1]
Together(i, j) ==
  /\ \A k \in i + 1 .. j : shifts[k][1] - shifts[k - 1][1] <= Gap
  /\ shifts[j][1] - shifts[i][1] <= Window
ScoreIsWindow ==
  LET n == Len(shifts) IN
  /\ clsMax > 0 => \E i \in 1 .. n : \E j \in i .. n : Sum(i, j) = clsMax /\ Together(i, j)
  /\ \A i \in 1 .. n : clsMax >= shifts[i][2]
  /\ score <= clsMax

\* Every vital is reported once, whatever comes first: an interaction, hiding the
\* page, showing it again, the load event, or shutdown; and when a page is hidden,
\* for good perhaps, the finals that have a value have left, but for those in a
\* drain under way (watchup.ts:146 registers the listeners in the order that takes).
VitalsReported ==
  /\ \A s \in Spans : times[s] <= 1
  /\ known \subseteq sent
  /\ ScoreIsWindow
=============================================================================
