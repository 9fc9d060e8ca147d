----------------------------- MODULE SamplePlan -----------------------------
(***************************************************************************)
(* The layout of the data socket for one request: what readSamples of the  *)
(* Julia client computes to take the stream apart, and what the server has *)
(* to produce for that to succeed.                                         *)
(***************************************************************************)
EXTENDS Integers, Sequences

Sample(n) == [kind |-> "sample", at |-> n]
Status    == [kind |-> "status", at |-> 0]
Perf      == [kind |-> "perf", at |-> 0]

NoRequest == [kind |-> "IDLE", wp |-> 0, num |-> 0, chunk |-> 0]

\* the item at position k of a frame of len samples from wp on
FrameItem(wp, len, k) ==
    CASE k <= len     -> Sample(wp + k - 1)
      [] k = len + 1  -> Status
      [] OTHER        -> Perf

PlanLen(r) ==
    CASE r.kind = "SIMPLE"                     -> r.num
      [] r.kind = "PIPELINE" /\ r.chunk > 0    ->
             r.num + 2 * ((r.num + r.chunk - 1) \div r.chunk)
      [] OTHER                                 -> 0

PlanItem(r, k) ==
    IF r.kind = "SIMPLE"
    THEN Sample(r.wp + k - 1)
    ELSE LET frame == (k - 1) \div (r.chunk + 2)
             start == frame * r.chunk
             rest  == r.num - start
         IN  FrameItem(r.wp + start, IF rest < r.chunk THEN rest ELSE r.chunk,
                       k - frame * (r.chunk + 2))
=============================================================================
