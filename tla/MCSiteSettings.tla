--------------------------- MODULE MCSiteSettings ---------------------------
(* One manager, whose form and requests race each other and the scheduler, *)
(* a page of two events, one row, and events of another tenant.            *)
EXTENDS SiteSettings

CONSTANTS m1, r1
=============================================================================
