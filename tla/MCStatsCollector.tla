-------------------------- MODULE MCStatsCollector --------------------------
EXTENDS StatsCollector
=============================================================================
