----------------------------- MODULE AlertRules -----------------------------
(***************************************************************************)
(* The expressions of monitoring/prometheus/alerts.yml over the samples     *)
(* Prometheus has of one counter.  A window is the sequence of the last     *)
(* scrapes, the newest last: per scrape None if it failed, otherwise what   *)
(* the counter has gained since the sample before.                          *)
(***************************************************************************)
EXTENDS Integers, Sequences, FiniteSets

Sampled(window, absent) == {i \in DOMAIN window : window[i] # absent}

\* The sum of some gains of the window.
TotalGain(window, scrapes) == Cardinality(UNION {{i} \X (1 .. window[i]) : i \in scrapes})

\* Mutant: the oldest sample counts from zero.
IncreaseFromZero(window, absent) == TotalGain(window, Sampled(window, absent))

\* Mutant: a missed scrape hides what was gained over it.
IncreaseWithoutGaps(window, absent) ==
  LET present == Sampled(window, absent)
  IN TotalGain(window, {i \in present : i - 1 \in present})

\* increase(): from the oldest sample in the window to the newest.
Increase(window, absent) ==
  LET present == Sampled(window, absent)
  IN TotalGain(window, {i \in present : \E j \in present : j < i})

\* What the next sample has gained.  The process counts from zero: when it is new,
\* Prometheus takes a value below the last one for a reset and the difference for
\* the gain otherwise.
Gains(since, fresh) == IF fresh THEN 0 .. since ELSE {since}

Slide(window, gain) == Append(Tail(window), gain)

\* An expression that holds becomes an alert when it has held for "for".
Held(evaluations, for) == evaluations > for

=============================================================================
