---------------------------- MODULE MCSaleClosing ----------------------------
(* SaleClosing on small instances. *)
EXTENDS SaleClosing

\* The milestones on the way to a title, and those of a withdrawal.
ToTitle ==
    {"spa_drafted", "spa_issued", "buyer_signed", "seller_signed",
     "land_registry_lodged", "registered", "title_transferred"}
Unwind == {"withdrawal_started", "withdrawn"}
Whole == ToTitle \cup Unwind
=============================================================================
