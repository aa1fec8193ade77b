--------------------------- MODULE MCManagedProxy ---------------------------
(***************************************************************************)
(* Two requests, one with a body; a container that runs, two deploys of    *)
(* its service and one of another service behind the same listen port.     *)
(***************************************************************************)
EXTENDS ManagedProxy

CONSTANTS q1, q2, v0, v1, v2, other

MCRequest  == {q1, q2}
MCUpload   == {q1}
MCUpstream == {v0, v1, v2, other}
MCFirst    == {v0}
MCService  == [u \in MCUpstream |-> u = other]
MCBlue     == [u \in MCUpstream |-> IF u \in {v1, v2} THEN v0 ELSE None]
=============================================================================
