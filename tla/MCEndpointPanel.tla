-------------------------- MODULE MCEndpointPanel --------------------------
(* A small instance of EndpointPanel for TLC.                              *)
EXTENDS EndpointPanel

CONSTANTS e1, e2, e3
=============================================================================
