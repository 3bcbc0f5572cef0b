--------------------------- MODULE MCNoteLeases ---------------------------
(* Tabs t1 and t2 of one browser, t3 of another, and a desktop.              *)
EXTENDS NoteLeases, TLC

CONSTANTS t1, t2, t3, d1

MCDevice == (t1 :> 1) @@ (t2 :> 1) @@ (t3 :> 2) @@ (d1 :> 3)

LOCAL Load(a, b, c, d) == (t1 :> a) @@ (t2 :> b) @@ (t3 :> c) @@ (d1 :> d)

\* Two tabs of a browser; tabs of two browsers; a tab against a desktop, long
\* enough for a marker and decisions from both; all four.
MCWorkloads == {Load(3, 2, 0, 0), Load(3, 0, 2, 0), Load(3, 0, 0, 2), Load(1, 1, 1, 1)}
=============================================================================
