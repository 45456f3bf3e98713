------------------------------ MODULE MCPoller ------------------------------
(* Model-checking instance of Poller: three fetch slots, so that two       *)
(* fetches of one instance and one of an earlier instance can be in flight *)
(* together, so that an unmounted instance's fetch can resolve while a    *)
(* newer instance is mounted; three versions of the resource, so that an   *)
(* answer can be overtaken by a newer one and an earlier instance's answer *)
(* can be older than the newer instance's mount.  The sChain listed first  *)
(* changes at version 1 and is back at version 2, so the card at index 0  *)
(* shows another sChain after a refresh; one /schain-config slot lets a    *)
(* config fetch outlive a remount while a second click loses its fetch.   *)
EXTENDS Poller

MCMaxVersion  == 2
OkOnly        == {"ok"}
OkOrError     == {"ok", "error"}
MCFirstChain  == [v \in 0..MCMaxVersion |-> IF v = 1 THEN "c2" ELSE "c1"]
=============================================================================
