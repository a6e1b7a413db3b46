---------------------------- MODULE MCUpdateLoop ----------------------------
(* An instance of UpdateLoop for TLC.                                      *)
EXTENDS UpdateLoop

\* Two modes besides the default one; one is chosen by a button, one typed.
SomeUpdates ==
  {[kind |-> "button", mode |-> "dev"], [kind |-> "typed", mode |-> "med"]}
    \cup [kind : {"word", "media"}, mode : {"ask"}]
=============================================================================
