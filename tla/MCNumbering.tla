----------------------------- MODULE MCNumbering -----------------------------
(* A small instance of Numbering: one-digit numbers to base 4, pages of two. *)
EXTENDS Numbering

\* Past the pad limit for baseline ids, as many alternatives as fill a page.
PastTheLimit == [kind \in Kinds |-> IF kind = "BASE" THEN 6 ELSE 2]
=============================================================================
