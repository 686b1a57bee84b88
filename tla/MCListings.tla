------------------------------ MODULE MCListings ------------------------------
(* A listing for rent with all its market states but one.                     *)
EXTENDS Listings
MCMarket == {"AVAILABLE", "UNDER_OFFER", "RENTED"}
MCDiscoverable == {"AVAILABLE", "UNDER_OFFER"}
=============================================================================
