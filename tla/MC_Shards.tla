----------------------------- MODULE MC_Shards -----------------------------
EXTENDS Shards, TLC
=============================================================================
