----------------------------- MODULE MCBurstBoard -----------------------------
\* Small boards for TLC.
EXTENDS BurstBoard
===============================================================================
