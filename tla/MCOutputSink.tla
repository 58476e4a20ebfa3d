---------------------------- MODULE MCOutputSink ----------------------------
EXTENDS OutputSink

MCMaxTime == 2
MCMaxBatches == 3
MCMaxEntries == 2
MCReplayTimes == {0}
=============================================================================
