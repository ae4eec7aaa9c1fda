--------------------------- MODULE MCVersionWindow ---------------------------
(* Six labels and a window of three.                                          *)
EXTENDS VersionWindow

MCLabels == 1..6
===============================================================================
