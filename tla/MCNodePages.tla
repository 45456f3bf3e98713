----------------------------- MODULE MCNodePages -----------------------------
(***************************************************************************)
(* NodePages for TLC.  Three request slots let a page's immediate fetch,  *)
(* a tick and a request of an unmounted page be in flight together; three *)
(* or four user actions reach every page of the flow from "/" (for        *)
(* instance "/" -> "/create-node" -> submit -> "/node") with one step to  *)
(* spare for leaving a page while its fetch is in flight.                 *)
(***************************************************************************)
EXTENDS NodePages

MCErrorWithData   == {TRUE}
MCErrorAnyData    == {TRUE, FALSE}
MCAllLossy        == Senders
MCAuthedAtStart   == {TRUE, FALSE}
MCSessionAtStart  == {TRUE}
=============================================================================
