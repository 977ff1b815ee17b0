---------------------------- MODULE MC_LazyDeopt ----------------------------
EXTENDS LazyDeopt
====
