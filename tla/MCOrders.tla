------------------------------ MODULE MCOrders ------------------------------
(* A line of flags with a house h1, a site, a workshop and a house h2; the   *)
(* flag of h2 gets new wares.  One ware fills the site and the workshop.     *)
EXTENDS Orders
CONSTANTS fa, fb, fc, fd, ab, bc, cd, h1, h2, site, shop

MCEnds == (ab :> <<fa, fb>>) @@ (bc :> <<fb, fc>>) @@ (cd :> <<fc, fd>>)
MCFlagAt == (h1 :> fa) @@ (site :> fb) @@ (shop :> fc) @@ (h2 :> fd)
MCRoom == (site :> 1) @@ (shop :> 1)
MCStock == (h1 :> 1) @@ (h2 :> 1)
OneSite == <<site>>
=============================================================================
