-------------------------- MODULE MCCounterTrigger --------------------------
(* A counter of twelve values: it wraps around once in a while after firing. *)
EXTENDS CounterTrigger

MCReferences == {1, 4}
MCPresamples == {0, 2}
=============================================================================
