---------------------------- MODULE MCMouseLink ----------------------------
EXTENDS MouseLink

\* The hand moves one axis only.
OneWay == <<{0, 1, 2}, {0}>>
TurnsOver == <<{-1, 1}, {0}>>
Still == <<{0, 1}, {0}>>
=============================================================================
