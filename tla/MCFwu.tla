------------------------------- MODULE MCFwu --------------------------------
(* Bounded instances of FwuUpdate: two banks of two images. *)
EXTENDS FwuUpdate

Update(items, os) ==
  [kind |-> "update", items |-> items, os |-> os, img |-> 1]
Verdict(kind, img) ==
  [kind |-> kind, items |-> <<>>, os |-> FALSE, img |-> img]

\* Updates with all images or none which the operating system accepts, or
\* with one image and accepted by U-Boot itself; and both verdicts.
SomeCapsules ==
  {Update(<<1, 2>>, TRUE), Update(<<>>, TRUE), Update(<<1>>, FALSE),
   Verdict("accept", 2), Verdict("revert", 2)}

=============================================================================
