-------------------------- MODULE MCContentPipeline --------------------------
(***************************************************************************)
(* Two crawls for ContentPipeline: a page and, by the deep worker, a mirror *)
(* of it at another site.  The crawler of the page takes a wrong text from  *)
(* it, when it takes one.                                                   *)
(***************************************************************************)
EXTENDS ContentPipeline

CONSTANTS page, mirror, j1, u1, u2, s1, s2, text, misread

MCJob == [i \in Item |-> j1]
MCUrl == [i \in Item |-> IF i = mirror THEN u2 ELSE u1]
MCSite == [i \in Item |-> IF i = mirror THEN s1 ELSE s2]
MCSorted == <<s1, s2>>
MCCrawled == [i \in Item |-> IF i = mirror THEN text ELSE misread]
MCExtracted == [i \in Item |-> text]
MCDistance == [c \in Content |-> [d \in Content |-> IF c = d THEN 0 ELSE 2]]
=============================================================================
