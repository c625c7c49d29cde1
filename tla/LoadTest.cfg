\* The load generator, a worker and an observer on one registry whose
\* counters saturate; a report, a reset, a panic.
SPECIFICATION Spec
CHECK_DEADLOCK FALSE
CONSTANTS
  None = None
  Workers = {w1}
  ROUNDS = 1
  CALLS_MAX = 2
  REPORTS_MAX = 1
  RESETS_MAX = 1
  PANICS_MAX = 1
  Bytes = {3}
  FRAME = 2
  STAT_MAX = 3
  Durations = {1, 1024}
INVARIANTS
  StatsExact
  LatencyExact
  ReportIsWhole
  LoadReportExact
PROPERTY
  AllEnd
