----------------------------- MODULE MCDelivery -----------------------------
(* Delivery for one chat, in three scenes: two photos of one album, whose  *)
(* second may come after the flush; a document; two taps on the buttons of *)
(* one message, which share its key.                                       *)
EXTENDS Delivery

CONSTANTS m1, m2, m3, m4, g1

MCKindOf == [u \in Updates |-> IF u \in {4, 5} THEN "callback" ELSE "document"]
MCKeyOf == [u \in Updates |-> CASE u = 1 -> m1 [] u = 2 -> m2 [] u = 3 -> m3 [] OTHER -> m4]
MCAlbumOf == [u \in Updates |-> IF u \in {1, 2} THEN g1 ELSE None]
MCScenes == {{1, 2}, {3}, {4, 5}}
=============================================================================
