----------------------------- MODULE MCBleFiles -----------------------------
\* The names that phones give are interchangeable.
EXTENDS BleFiles, TLC

NameSymmetry == Permutations(Names)
=============================================================================
