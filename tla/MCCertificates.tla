--------------------------- MODULE MCCertificates ---------------------------
(* A small instance of Certificates: a route with an alternative name.        *)
EXTENDS Certificates

CONSTANTS host, alt
=============================================================================
