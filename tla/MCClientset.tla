---------------------------- MODULE MCClientset -----------------------------
(* A small instance of Clientset for TLC.                                  *)
EXTENDS Clientset
=============================================================================
