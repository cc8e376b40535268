------------------------------- MODULE DndEid -------------------------------
(***************************************************************************)
(* Endpoint identifiers of dnd.py and the two string tests the daemon's    *)
(* route logic is built from.  An EID is kept as the record of its node    *)
(* and its last path component instead of a character string:              *)
(*   [node |-> n, svc |-> ""]   is  "dtn://n"     (a node's local EID)     *)
(*   [node |-> n, svc |-> "*"]  is  "dtn://n/*"   (its wildcard)           *)
(*   [node |-> n, svc |-> s]    is  "dtn://n/s"   (one of its services)    *)
(* Node names are assumed not to be prefixes of one another and service    *)
(* names likewise; under that assumption the two tests below are exactly   *)
(* what Python computes on the strings.                                    *)
(***************************************************************************)
CONSTANTS
    Nodes,      \* node names
    Services    \* service names used in registrations ("ping", ...)

ASSUME "*" \notin Services /\ "" \notin Services

EID == [node : Nodes, svc : {"", "*"} \cup Services]

NodeEID(n)  == [node |-> n, svc |-> ""]
Wildcard(n) == [node |-> n, svc |-> "*"]

(***************************************************************************)
(* re.search(p, e) # None, with the pattern p an EID string: "dtn://n/*"  *)
(* reads as "dtn://n" followed by any number of slashes, so a node EID or  *)
(* a wildcard matches every EID of that node; "dtn://n/s" only itself.     *)
(* Used by haveRouteFor, haveNonDefaultRouteFor, removeDefaultRouteFor,    *)
(* haveRIBEntryForEID and alreadyCovered.                                  *)
(***************************************************************************)
ReSearch(p, e) ==
    IF p.svc \in {"", "*"} THEN p.node = e.node ELSE p = e

(***************************************************************************)
(* string.find(r + "/*", e) >= 0: e is a substring of r + "/*".  This is   *)
(* the test of haveRegistrationForEID, with the arguments the other way    *)
(* round from ReSearch: "dtn://n/s/*" contains "dtn://n" and "dtn://n/s"   *)
(* but not "dtn://n/*".                                                    *)
(***************************************************************************)
FindIn(e, r) ==
    /\ e.node = r.node
    /\ \/ e.svc \in {"", r.svc}
       \/ e.svc = "*" /\ r.svc = ""

=============================================================================
