----------------------------- MODULE MCCollector -----------------------------
EXTENDS Collector
=============================================================================
