------------------------------ MODULE MCDlLab ------------------------------
(* dl_lab.ko alone, for questions about one of its modes.                  *)
EXTENDS DlLab
=============================================================================
