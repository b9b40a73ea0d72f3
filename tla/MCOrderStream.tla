---------------------------- MODULE MCOrderStream ----------------------------
\* Model values for OrderStream.
EXTENDS OrderStream
================================================================================
