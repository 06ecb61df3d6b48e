------------------------------ MODULE MCChain -------------------------------
(* A single validator with one restart, for the two runs about its chain.  *)
EXTENDS Node

MCProposers == [h \in Heights |-> 0]
MCStarts == [n \in Nodes |-> 2]
=============================================================================
