--------------------------- MODULE MCClientEvents ---------------------------
(* Two classifications, two functions of the application, two tries and one *)
(* reconnect: the service ends twice.                                      *)
EXTENDS ClientEvents

MCSubscriptions == {[c |-> "TASK", h |-> "h"], [c |-> "TASK", h |-> "k"], [c |-> "SYSTEM", h |-> "h"]}
MCListeners == [online |-> 2, local |-> 0]
=============================================================================
