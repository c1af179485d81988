---- MODULE MCTrigSignals ----
\* Triggers on the signals of one section, and of two.
EXTENDS TrigSignals

OneSection == {<<1>>, <<2>>}
TwoSections == {<<1, 1>>}
====
