------------------------------- MODULE Plot -------------------------------
(***************************************************************************)
(* A plot panel (packages/app/src/tabs/PlotTab.tsx, with                   *)
(* core/plotSeries.ts): subplots of series, each a channel and a field of  *)
(* its messages, drawn over a window of time that follows the clock, or is *)
(* frozen and can be zoomed and moved.  Series of several subplots share a *)
(* buffer, and a buffer goes with its last series.                         *)
(*                                                                         *)
(* A message is a JointState: names in some order, with their positions.   *)
(* Of the pickers of several subplots one is modelled: each is a local     *)
(* state of its subplot, and meets the others by the series it adds.  The  *)
(* order of a subplot's series, which gives them colours, is left out.     *)
(***************************************************************************)
EXTENDS Integers, SequencesExt

CONSTANTS
    PlotChannels, PlotFields,
    LatchedPlots,     \* the latched channels of them
    Retention,        \* RETENTION_SEC
    PlotWindow,       \* settings.windowSec
    MaxPoints,        \* MAX_POINTS
    MaxSubplots, MaxPlotMessages, MaxPlotClock, MaxPlotEdits  \* bounds

ASSUME PlotAssumption ==
    /\ LatchedPlots \subseteq PlotChannels
    /\ {Retention, PlotWindow, MaxPoints} \subseteq Nat \ {0} /\ PlotWindow <= Retention
    /\ {MaxSubplots, MaxPlotMessages, MaxPlotClock, MaxPlotEdits} \subseteq Nat

LiveView == [end |-> 0, span |-> 0, latest |-> -1]
NotPicked == [ch |-> "none", fields |-> {}]
MinSpan == 1

Series == PlotChannels \X PlotFields

VARIABLES
    plots,        \* subplots, each the set of its series
    points,       \* buffers: the samples of each series
    plotView,     \* what part of time is shown; LiveView unless paused
    picked,       \* AddSeries: the channel chosen, and the fields found on it
    lastPlotted,  \* the mirror of HubClient, for latched channels
    plotClock,
    carried,      \* history: the samples its channel had for each series outside of pauses
    since,        \* history: how many of them a series came after
    plotMessages, plotEdits

plotVars == <<plots, points, plotView, picked, lastPlotted, plotClock, carried, since,
              plotMessages, plotEdits>>

SeriesOf(ps) == UNION {ps[i] : i \in DOMAIN ps}
ChannelsOf(ps) == {s[1] : s \in SeriesOf(ps)}
Paused == plotView # LiveView

\* The panel is new, or has what its settings say: a series.
PlotInit ==
    /\ plots \in {<<{}>>} \cup {<<{s}>> : s \in Series}
    /\ points = <<>> /\ plotView = LiveView /\ picked = NotPicked
    /\ lastPlotted = <<>> /\ plotClock = 0 /\ carried = [s \in Series |-> <<>>]
    /\ since = [s \in SeriesOf(plots) |-> 0]
    /\ plotMessages = 0 /\ plotEdits = 0

-----------------------------------------------------------------------------
(* Messages *)

JointMessage(n, names) ==
    [n |-> n, names |-> names, positions |-> [i \in DOMAIN names |-> <<n, names[i]>>]]

DiscoverFields(m) == ToSet(m.names)

\* For a field the message has.
ReadField(m, f) == m.positions[CHOOSE i \in DOMAIN m.names : m.names[i] = f]

\* What is older than the retention goes, and what is more than MAX_POINTS.
FirstRecent(samples) == Min({i \in DOMAIN samples : samples[i].t >= plotClock - Retention})
Retained(samples) ==
    SubSeq(samples, Max({FirstRecent(samples), Len(samples) - MaxPoints + 1}), Len(samples))

BufferOf(buf, s) == IF s \in DOMAIN buf THEN buf[s] ELSE <<>>

\* Whether a sample of s is in messages, which has one of some channels.
Concerns(messages, s) ==
    s[1] \in DOMAIN messages /\ s[2] \in DiscoverFields(messages[s[1]])

\* The buffers after messages, given subplots ps: one sample for each series, none in a
\* pause.
Plotted(ps, buf, messages) ==
    [s \in DOMAIN buf \cup {s \in SeriesOf(ps) : Concerns(messages, s)} |->
        IF ~Concerns(messages, s) \/ Paused THEN BufferOf(buf, s)
        ELSE Retained(Append(BufferOf(buf, s),
                             [t |-> plotClock, v |-> ReadField(messages[s[1]], s[2])]))]

Carries(messages) ==
    [s \in Series |->
        IF ~Concerns(messages, s) \/ Paused THEN carried[s]
        ELSE Append(carried[s], [t |-> plotClock, v |-> <<messages[s[1]].n, s[2]>>])]

\* The first message after the channel was chosen is asked for its fields.
Picks(ch, m) ==
    IF picked.ch = ch /\ picked.fields = {} THEN [ch |-> ch, fields |-> DiscoverFields(m)]
    ELSE picked

PlotMessage(ch, names) ==
    /\ plotMessages < MaxPlotMessages /\ plotMessages' = plotMessages + 1
    /\ ch \in ChannelsOf(plots) \cup {picked.ch}
    /\ LET m == JointMessage(plotMessages', names)
       IN  /\ lastPlotted' = IF ch \in LatchedPlots
                             THEN [c \in DOMAIN lastPlotted \cup {ch} |->
                                      IF c = ch THEN m ELSE lastPlotted[c]]
                             ELSE lastPlotted
           /\ points' = Plotted(plots, points, [c \in {ch} |-> m])
           /\ carried' = Carries([c \in {ch} |-> m])
           /\ picked' = Picks(ch, m)
    /\ UNCHANGED <<plots, plotView, plotClock, since, plotEdits>>

-----------------------------------------------------------------------------
(* Series and subplots *)

PlotEdit ==
    /\ plotEdits < MaxPlotEdits /\ plotEdits' = plotEdits + 1
    /\ UNCHANGED <<lastPlotted, plotClock, plotMessages>>

\* Buffers of series that are in no subplot go.
Pruned(ps) == [s \in DOMAIN points \cap SeriesOf(ps) |-> points[s]]

\* Where the set of channels changes, all are subscribed to again, and what a
\* latched one of them had last is replayed to it.
Replayed(ps) ==
    [ch \in {ch \in ChannelsOf(ps) \cap DOMAIN lastPlotted : ChannelsOf(ps) # ChannelsOf(plots)} |->
        lastPlotted[ch]]

PersistPlots(ps) ==
    /\ PlotEdit
    /\ plots' = ps
    /\ points' = Plotted(ps, Pruned(ps), Replayed(ps))
    /\ carried' = Carries(Replayed(ps))
    /\ since' = [s \in SeriesOf(ps) |-> IF s \in DOMAIN since THEN since[s] ELSE Len(carried[s])]
    /\ UNCHANGED plotView

\* addSeriesMany: those of the channel's fields the subplot does not have.
AddSeriesMany(i, ch, fields) ==
    LET toAdd == {<<ch, f>> : f \in fields} \ plots[i]
    IN  /\ toAdd # {}
        /\ PersistPlots([plots EXCEPT ![i] = @ \cup toAdd])
        /\ UNCHANGED picked

RemoveSeries(i, s) == PersistPlots([plots EXCEPT ![i] = @ \ {s}]) /\ UNCHANGED picked

AddPlot == Len(plots) < MaxSubplots /\ PersistPlots(Append(plots, {})) /\ UNCHANGED picked
RemovePlot(i) == Len(plots) > 1 /\ PersistPlots(RemoveAt(plots, i)) /\ UNCHANGED picked

\* A channel is chosen to take fields from; a latched one offers them at once.
PickChannel(ch) ==
    /\ PlotEdit
    /\ picked.ch # ch
    /\ picked' = [ch |-> ch,
                  fields |-> IF ch \in DOMAIN lastPlotted THEN DiscoverFields(lastPlotted[ch])
                             ELSE {}]
    /\ UNCHANGED <<plots, points, plotView, carried, since>>

\* Add: one of the fields, or all.
AddPicked(i) ==
    \/ AddSeriesMany(i, picked.ch, picked.fields)
    \/ \E f \in picked.fields : AddSeriesMany(i, picked.ch, {f})

-----------------------------------------------------------------------------
(* Time *)

PlotTick ==
    /\ plotClock < MaxPlotClock /\ plotClock' = plotClock + 1
    /\ UNCHANGED <<plots, points, plotView, picked, lastPlotted, carried, since,
                   plotMessages, plotEdits>>

ViewChange ==
    /\ PlotEdit
    /\ UNCHANGED <<plots, points, picked, carried, since>>

TogglePause ==
    /\ ViewChange
    /\ plotView' = IF Paused THEN LiveView
                   ELSE [end |-> plotClock, span |-> PlotWindow, latest |-> plotClock]

SpanWithin(span) == Min({Retention, Max({MinSpan, span})})

\* Mutant: the past has no end.
Mut_ClampOpen(end, span, latest) ==
    [end |-> Min({latest, end}), span |-> SpanWithin(span), latest |-> latest]

ClampView(end, span, latest) ==
    [end |-> Min({latest, Max({latest - Retention + SpanWithin(span), end})}),
     span |-> SpanWithin(span), latest |-> latest]

\* The wheel, over either end of the plot; a step is a factor of 2.
ZoomAt(right, out) ==
    /\ Paused /\ ViewChange
    /\ LET span == SpanWithin(IF out THEN plotView.span * 2 ELSE plotView.span \div 2)
           cursor == plotView.end - (IF right THEN 0 ELSE plotView.span)
       IN  plotView' = ClampView(cursor + (IF right THEN 0 ELSE span), span, plotView.latest)

\* A drag over the whole width.
PanBy(d) ==
    /\ Paused /\ ViewChange
    /\ plotView' = ClampView(plotView.end - d * plotView.span, plotView.span, plotView.latest)

FitView ==
    /\ Paused /\ ViewChange
    /\ plotView' = [end |-> plotView.latest, span |-> PlotWindow, latest |-> plotView.latest]

\* What draw makes of a series: the samples that are in the time on view, in order.
Shows(t) ==
    LET end == IF Paused THEN plotView.end ELSE plotClock
        span == IF Paused THEN plotView.span ELSE PlotWindow
    IN  end - span <= t /\ t <= end

Drawn(samples) == {i \in DOMAIN samples : Shows(samples[i].t)}

PlotNext ==
    \/ \E ch \in PlotChannels, k \in 1..Cardinality(PlotFields) :
          \E names \in Injection(1..k, PlotFields) : PlotMessage(ch, names)
    \/ \E i \in DOMAIN plots :
          \/ AddPicked(i) \/ RemovePlot(i)
          \/ \E s \in plots[i] : RemoveSeries(i, s)
    \/ \E ch \in PlotChannels : PickChannel(ch)
    \/ AddPlot \/ PlotTick \/ TogglePause \/ FitView
    \/ \E right, out \in BOOLEAN : ZoomAt(right, out)
    \/ \E d \in {-1, 1} : PanBy(d)

PlotSpec == PlotInit /\ [][PlotNext]_plotVars
-----------------------------------------------------------------------------
(***************************************************************************)
(* Whatever was added, removed, paused, zoomed and moved before, of all    *)
(* that its channel carried for a series, as far back as MAX_POINTS go,    *)
(* what is in the time on view is drawn, once and in order, and nothing    *)
(* else is (PlotTab.tsx 131-188, 203-207).                                 *)
(***************************************************************************)
ValuesOf(s) ==
    LET all == Len(carried[s])
    IN  SubSeq(carried[s], Max({since[s], all - MaxPoints}) + 1, all)

PlotFaithful ==
    /\ DOMAIN points \subseteq SeriesOf(plots)
    /\ \A s \in SeriesOf(plots) :
          LET kept == BufferOf(points, s)
              values == ValuesOf(s)
              lost == Len(values) - Len(kept)
          IN  /\ Drawn(values) = {lost + i : i \in Drawn(kept)}
              /\ \A i \in Drawn(kept) : values[lost + i] = kept[i]
=============================================================================
