-------------------------------- MODULE MCCow --------------------------------
(* Instances of Cow: an image page and a stack page under one table. *)
EXTENDS Cow

CONSTANTS text, stack, FrameCount

\* Frames are taken in this order.
MCFrame == 1..FrameCount

MCRegionOf == [g \in Page |-> 1]

MCStack == <<stack>>

\* One segment; two that meet in a page, of either class.
MCImages == {[class |-> 64, pages |-> <<text>>, data |-> 1],
             [class |-> 64, pages |-> <<text, text>>, data |-> 1],
             [class |-> 32, pages |-> <<text, text>>, data |-> 1]}
=============================================================================
